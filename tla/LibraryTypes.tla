--------------------------- MODULE LibraryTypes ----------------------------
(* The types of the library as the type checker knows them: the functions  *)
(* of the modules (infer.rs, stdlib_modules), named module_function, and   *)
(* the bare names of the environment (builtins.rs, register_builtins).     *)
EXTENDS Naturals, Sequences

I == "Int"
D == "Float"
B == "Bool"
S == "String"
P == "Ptr"      \* lists, maps and the other types that are one pointer
U == "()"
Q == "Pid"
O == "Option"
R == "Result"
A == "a"        \* a type variable
L == "fun"      \* a function

F(names, args, ret) == {[name |-> n, args |-> args, ret |-> ret] : n \in names}

StringModule ==
         F({"string_length"}, <<S>>, I)
    \cup F({"string_slice"}, <<S, I, I>>, S)
    \cup F({"string_contains", "string_starts_with", "string_ends_with"}, <<S, S>>, B)
    \cup F({"string_trim", "string_to_upper", "string_to_lower"}, <<S>>, S)
    \cup F({"string_replace"}, <<S, S, S>>, S)
    \cup F({"string_split"}, <<S, S>>, P)
    \cup F({"string_join"}, <<P, S>>, S)
    \cup F({"string_to_int", "string_to_float"}, <<S>>, O)
    \cup F({"string_from"}, <<A>>, S)
    \cup F({"string_collect"}, <<"Ptr">>, S)

SystemModules ==
         F({"io_read_line"}, <<>>, R)
    \cup F({"io_eprintln"}, <<S>>, U)
    \cup F({"env_get"}, <<S, S>>, S)
    \cup F({"env_get_int"}, <<S, I>>, I)
    \cup F({"env_args"}, <<>>, P)
    \cup F({"regex_compile"}, <<S>>, R)
    \cup F({"regex_is_match"}, <<"Regex", S>>, B)
    \cup F({"regex_captures"}, <<"Regex", S>>, O)
    \cup F({"regex_replace"}, <<"Regex", S, S>>, S)
    \cup F({"regex_split"}, <<"Regex", S>>, P)

CodecModules ==
         F({"crypto_sha256", "crypto_sha512", "base64_encode", "base64_encode_url", "hex_encode"}, <<S>>,
               S)
    \cup F({"crypto_hmac_sha256", "crypto_hmac_sha512"}, <<S, S>>, S)
    \cup F({"crypto_secure_compare"}, <<S, S>>, B)
    \cup F({"crypto_uuid4"}, <<>>, S)
    \cup F({"base64_decode", "base64_decode_url", "hex_decode"}, <<S>>, R)

TimeModule ==
         F({"datetime_utc_now"}, <<>>, "DateTime")
    \cup F({"datetime_from_iso8601"}, <<S>>, R)
    \cup F({"datetime_to_iso8601"}, <<"DateTime">>, S)
    \cup F({"datetime_from_unix_ms", "datetime_from_unix_secs"}, <<I>>, R)
    \cup F({"datetime_to_unix_ms", "datetime_to_unix_secs"}, <<"DateTime">>, I)
    \cup F({"datetime_add"}, <<"DateTime", I, S>>, "DateTime")
    \cup F({"datetime_diff"}, <<"DateTime", "DateTime", S>>, D)
    \cup F({"datetime_is_before", "datetime_is_after"}, <<"DateTime", "DateTime">>, B)

ClientModule ==
         F({"http_build"}, <<S, S>>, I)
    \cup F({"http_header", "http_query"}, <<I, S, S>>, I)
    \cup F({"http_body", "http_json"}, <<I, S>>, I)
    \cup F({"http_timeout"}, <<I, I>>, I)
    \cup F({"http_send"}, <<I>>, R)
    \cup F({"http_stream", "http_stream_bytes"}, <<I, L>>, I)
    \cup F({"http_cancel", "http_client_close"}, <<I>>, U)
    \cup F({"http_client"}, <<>>, I)
    \cup F({"http_send_with"}, <<I, I>>, R)

FileModules ==
         F({"test_mock_actor"}, <<L>>, Q)
    \cup F({"file_read", "file_delete"}, <<S>>, R)
    \cup F({"file_write", "file_append"}, <<S, S>>, R)
    \cup F({"file_exists"}, <<S>>, B)

ListModule ==
         F({"list_new"}, <<>>, P)
    \cup F({"list_length"}, <<P>>, I)
    \cup F({"list_append"}, <<P, A>>, P)
    \cup F({"list_head"}, <<P>>, A)
    \cup F({"list_tail", "list_reverse"}, <<P>>, P)
    \cup F({"list_get"}, <<P, I>>, A)
    \cup F({"list_concat"}, <<P, P>>, P)
    \cup F({"list_map", "list_filter", "list_sort"}, <<P, L>>, P)
    \cup F({"list_reduce"}, <<P, A, L>>, A)

ListCallbacks ==
         F({"list_find"}, <<P, L>>, O)
    \cup F({"list_any", "list_all"}, <<P, L>>, B)
    \cup F({"list_contains"}, <<P, A>>, B)
    \cup F({"list_zip"}, <<P, P>>, P)
    \cup F({"list_flat_map"}, <<P, L>>, P)
    \cup F({"list_flatten", "list_enumerate"}, <<P>>, P)
    \cup F({"list_take", "list_drop"}, <<P, I>>, P)
    \cup F({"list_last"}, <<P>>, A)
    \cup F({"list_nth"}, <<P, I>>, A)
    \cup F({"list_collect"}, <<"Ptr">>, P)

MapModule ==
         F({"map_new"}, <<>>, P)
    \cup F({"map_put"}, <<P, A, A>>, P)
    \cup F({"map_get"}, <<P, A>>, A)
    \cup F({"map_has_key"}, <<P, A>>, B)
    \cup F({"map_delete"}, <<P, A>>, P)
    \cup F({"map_size"}, <<P>>, I)
    \cup F({"map_keys", "map_values", "map_to_list", "map_from_list"}, <<P>>, P)
    \cup F({"map_merge"}, <<P, P>>, P)
    \cup F({"map_collect"}, <<"Ptr">>, P)

SetModules ==
         F({"set_new"}, <<>>, P)
    \cup F({"set_add", "set_remove"}, <<P, I>>, P)
    \cup F({"set_contains"}, <<P, I>>, B)
    \cup F({"set_size"}, <<P>>, I)
    \cup F({"set_union", "set_intersection", "set_difference"}, <<P, P>>, P)
    \cup F({"set_to_list", "set_from_list"}, <<P>>, P)
    \cup F({"set_collect"}, <<"Ptr">>, P)
    \cup F({"tuple_nth"}, <<"Tuple", I>>, I)
    \cup F({"tuple_first", "tuple_second", "tuple_size"}, <<"Tuple">>, I)

SequenceModules ==
         F({"range_new"}, <<I, I>>, P)
    \cup F({"range_to_list"}, <<P>>, P)
    \cup F({"range_map", "range_filter"}, <<P, L>>, P)
    \cup F({"range_length", "queue_peek", "queue_size"}, <<P>>, I)
    \cup F({"queue_new"}, <<>>, P)
    \cup F({"queue_push"}, <<P, I>>, P)
    \cup F({"queue_pop"}, <<P>>, "Tuple")
    \cup F({"queue_is_empty"}, <<P>>, B)

JsonModules ==
         F({"json_parse"}, <<S>>, R)
    \cup F({"json_encode"}, <<"Json">>, S)
    \cup F({"json_encode_string"}, <<S>>, S)
    \cup F({"json_encode_int"}, <<I>>, S)
    \cup F({"json_encode_bool"}, <<B>>, S)
    \cup F({"json_encode_map", "json_encode_list"}, <<P>>, S)
    \cup F({"json_get"}, <<S, S>>, S)
    \cup F({"json_get_nested"}, <<S, S, S>>, S)
    \cup F({"json_encode"}, <<A>>, S)

HttpModule ==
         F({"http_router"}, <<>>, "Router")
    \cup F({"http_route", "http_on_get", "http_on_post", "http_on_put", "http_on_delete"}, <<"Router", S,
               L>>, "Router")
    \cup F({"http_serve"}, <<"Router", I>>, U)
    \cup F({"http_serve_tls"}, <<"Router", I, S, S>>, U)
    \cup F({"http_response"}, <<I, S>>, "Response")
    \cup F({"http_response_with_headers"}, <<I, S, P>>, "Response")
    \cup F({"http_get"}, <<S>>, R)
    \cup F({"http_post"}, <<S, S>>, R)
    \cup F({"http_use"}, <<"Router", L>>, "Router")

RequestModules ==
         F({"request_method", "request_path", "request_body"}, <<"Request">>, S)
    \cup F({"request_header", "request_query", "request_param"}, <<"Request", S>>, O)
    \cup F({"job_async"}, <<L>>, Q)
    \cup F({"job_await"}, <<Q>>, R)
    \cup F({"job_await_timeout"}, <<Q, I>>, R)
    \cup F({"job_map"}, <<P, L>>, P)

MathModules ==
         F({"math_abs"}, <<A>>, A)
    \cup F({"math_min", "math_max"}, <<A, A>>, A)
    \cup F({"math_pow"}, <<D, D>>, D)
    \cup F({"math_sqrt"}, <<D>>, D)
    \cup F({"math_floor", "math_ceil", "math_round", "float_to_int"}, <<D>>, I)
    \cup F({"int_to_float", "float_from"}, <<I>>, D)
    \cup F({"int_to_string"}, <<I>>, S)

DatabaseModules ==
         F({"timer_sleep"}, <<I>>, U)
    \cup F({"timer_send_after"}, <<Q, I, A>>, U)
    \cup F({"sqlite_open"}, <<S>>, R)
    \cup F({"sqlite_close"}, <<"SqliteConn">>, U)
    \cup F({"sqlite_execute", "sqlite_query"}, <<"SqliteConn", S, P>>, R)
    \cup F({"sqlite_begin", "sqlite_commit", "sqlite_rollback"}, <<"SqliteConn">>, R)

PgModule ==
         F({"pg_connect"}, <<S>>, R)
    \cup F({"pg_close"}, <<"PgConn">>, U)
    \cup F({"pg_execute", "pg_query"}, <<"PgConn", S, P>>, R)
    \cup F({"pg_begin", "pg_commit", "pg_rollback"}, <<"PgConn">>, R)
    \cup F({"pg_transaction"}, <<"PgConn", L>>, R)
    \cup F({"pg_query_as"}, <<"PgConn", S, P, L>>, R)
    \cup F({"pg_create_extension"}, <<"PoolHandle", S>>, R)

PgExprs ==
         F({"pg_create_range_partitioned_table"}, <<"PoolHandle", S, P, S>>, R)
    \cup F({"pg_create_gin_index"}, <<"PoolHandle", S, S, S, S>>, R)
    \cup F({"pg_create_daily_partitions_ahead", "pg_list_daily_partitions_before"}, <<"PoolHandle", S, I>>,
               R)
    \cup F({"pg_drop_partition"}, <<"PoolHandle", S>>, R)
    \cup F({"pg_cast"}, <<"Ptr", S>>, "Ptr")
    \cup F({"pg_gen_salt"}, <<S, I>>, "Ptr")
    \cup F({"pg_crypt", "pg_ts_rank"}, <<"Ptr", "Ptr">>, "Ptr")

PoolModule ==
         F({"pool_open"}, <<S, I, I, I>>, R)
    \cup F({"pool_close"}, <<"PoolHandle">>, U)
    \cup F({"pool_checkout"}, <<"PoolHandle">>, R)
    \cup F({"pool_checkin"}, <<"PoolHandle", "PgConn">>, U)
    \cup F({"pool_query", "pool_execute"}, <<"PoolHandle", S, P>>, R)
    \cup F({"pool_query_as"}, <<"PoolHandle", S, P, L>>, R)

ActorModules ==
         F({"node_start"}, <<S, S>>, I)
    \cup F({"node_start_from_env"}, <<>>, R)
    \cup F({"node_connect", "node_monitor", "global_unregister"}, <<S>>, I)
    \cup F({"node_self"}, <<>>, S)
    \cup F({"node_list"}, <<>>, P)
    \cup F({"process_monitor", "process_demonitor"}, <<I>>, I)
    \cup F({"process_register", "global_register"}, <<S, Q>>, I)
    \cup F({"process_whereis", "global_whereis"}, <<S>>, Q)

WorkModules ==
         F({"continuity_submit"}, <<S, S, S, S, S, I, B, B>>, R)
    \cup F({"continuity_submit_declared_work"}, <<S, S, S, I>>, R)
    \cup F({"continuity_status"}, <<S>>, R)
    \cup F({"continuity_authority_status"}, <<>>, R)
    \cup F({"continuity_mark_completed"}, <<S, S, S>>, R)
    \cup F({"continuity_acknowledge_replica"}, <<S, S>>, R)
    \cup F({"ws_send", "ws_join", "ws_leave"}, <<I, S>>, I)
    \cup F({"ws_serve"}, <<L, L, L, I>>, U)
    \cup F({"ws_broadcast"}, <<S, S>>, I)
    \cup F({"ws_broadcast_except"}, <<S, S, I>>, I)

IterModule ==
         F({"iter_from"}, <<P>>, "ListIterator")
    \cup F({"iter_map", "iter_filter"}, <<"Ptr", L>>, "Ptr")
    \cup F({"iter_take", "iter_skip"}, <<"Ptr", I>>, "Ptr")
    \cup F({"iter_enumerate"}, <<"Ptr">>, "Ptr")
    \cup F({"iter_zip"}, <<"Ptr", "Ptr">>, "Ptr")

IterEnds ==
         F({"iter_count", "iter_sum"}, <<"Ptr">>, I)
    \cup F({"iter_any", "iter_all"}, <<"Ptr", L>>, B)
    \cup F({"iter_find"}, <<"Ptr", L>>, "Ptr")
    \cup F({"iter_reduce"}, <<"Ptr", A, L>>, A)

OrmModule ==
         F({"orm_build_select"}, <<S, P, P, P, I, I>>, S)
    \cup F({"orm_build_insert", "orm_build_delete"}, <<S, P, P>>, S)
    \cup F({"orm_build_update"}, <<S, P, P, P>>, S)

ExprModule ==
         F({"expr_column", "expr_value", "expr_excluded"}, <<S>>, "Ptr")
    \cup F({"expr_null"}, <<>>, "Ptr")
    \cup F({"expr_call", "expr_fn_call"}, <<S, P>>, "Ptr")
    \cup F({"expr_add", "expr_sub", "expr_mul", "expr_div", "expr_eq", "expr_neq", "expr_lt", "expr_lte",
               "expr_gt", "expr_gte"}, <<"Ptr", "Ptr">>, "Ptr")
    \cup F({"expr_case", "expr_case_when"}, <<P, P, "Ptr">>, "Ptr")
    \cup F({"expr_coalesce"}, <<P>>, "Ptr")
    \cup F({"expr_alias", "expr_label"}, <<"Ptr", S>>, "Ptr")

QueryModule ==
         F({"query_from"}, <<S>>, "Ptr")
    \cup F({"query_where", "query_order_by"}, <<"Ptr", S, S>>, "Ptr")
    \cup F({"query_where_op", "query_where_between"}, <<"Ptr", S, S, S>>, "Ptr")
    \cup F({"query_where_in"}, <<"Ptr", S, "Ptr">>, "Ptr")
    \cup F({"query_where_null", "query_where_not_null"}, <<"Ptr", S>>, "Ptr")
    \cup F({"query_where_not_in"}, <<"Ptr", S, P>>, "Ptr")
    \cup F({"query_where_or"}, <<"Ptr", P, P>>, "Ptr")
    \cup F({"query_where_expr", "query_select_expr"}, <<"Ptr", "Ptr">>, "Ptr")
    \cup F({"query_select", "query_select_exprs"}, <<"Ptr", P>>, "Ptr")
    \cup F({"query_limit", "query_offset"}, <<"Ptr", I>>, "Ptr")

QueryRaw ==
         F({"query_join"}, <<"Ptr", S, S, S>>, "Ptr")
    \cup F({"query_join_as"}, <<"Ptr", S, S, S, S>>, "Ptr")
    \cup F({"query_group_by", "query_order_by_raw", "query_group_by_raw", "query_select_count_field",
               "query_select_sum", "query_select_avg", "query_select_min", "query_select_max"}, <<"Ptr",
               S>>, "Ptr")
    \cup F({"query_having"}, <<"Ptr", S, S>>, "Ptr")
    \cup F({"query_fragment", "query_where_raw"}, <<"Ptr", S, P>>, "Ptr")
    \cup F({"query_select_raw"}, <<"Ptr", P>>, "Ptr")
    \cup F({"query_select_count"}, <<"Ptr">>, "Ptr")
    \cup F({"query_where_sub"}, <<"Ptr", S, "Ptr">>, "Ptr")

RepoModule ==
         F({"repo_all"}, <<"PoolHandle", "Ptr">>, R)
    \cup F({"repo_one", "repo_count", "repo_exists"}, <<"PoolHandle", "Ptr">>, "Ptr")
    \cup F({"repo_get", "repo_delete"}, <<"PoolHandle", S, S>>, R)
    \cup F({"repo_get_by"}, <<"PoolHandle", S, S, S>>, R)
    \cup F({"repo_insert", "repo_insert_expr"}, <<"PoolHandle", S, P>>, R)
    \cup F({"repo_update"}, <<"PoolHandle", S, S, "Ptr">>, "Ptr")
    \cup F({"repo_transaction"}, <<"PoolHandle", L>>, "Ptr")

RepoWrites ==
         F({"repo_update_where", "repo_update_where_expr"}, <<"PoolHandle", S, P, "Ptr">>, R)
    \cup F({"repo_delete_where"}, <<"PoolHandle", S, "Ptr">>, R)
    \cup F({"repo_query_raw", "repo_execute_raw"}, <<"PoolHandle", S, P>>, R)
    \cup F({"repo_insert_or_update"}, <<"PoolHandle", S, P, P, P>>, "Ptr")
    \cup F({"repo_insert_or_update_expr"}, <<"PoolHandle", S, P, P, P>>, R)
    \cup F({"repo_delete_where_returning", "repo_insert_changeset"}, <<"PoolHandle", S, "Ptr">>, "Ptr")
    \cup F({"repo_update_changeset"}, <<"PoolHandle", S, S, "Ptr">>, "Ptr")
    \cup F({"repo_preload"}, <<"PoolHandle", "Ptr", "Ptr", "Ptr">>, "Ptr")

ChangesetModule ==
         F({"changeset_cast"}, <<P, P, P>>, "Ptr")
    \cup F({"changeset_cast_with_types"}, <<P, P, P, P>>, "Ptr")
    \cup F({"changeset_validate_required"}, <<"Ptr", P>>, "Ptr")
    \cup F({"changeset_validate_length"}, <<"Ptr", S, I, I>>, "Ptr")
    \cup F({"changeset_validate_format"}, <<"Ptr", S, S>>, "Ptr")
    \cup F({"changeset_validate_inclusion"}, <<"Ptr", S, P>>, "Ptr")
    \cup F({"changeset_validate_number"}, <<"Ptr", S, I, I, I, I>>, "Ptr")
    \cup F({"changeset_valid"}, <<"Ptr">>, B)
    \cup F({"changeset_errors", "changeset_changes"}, <<"Ptr">>, P)
    \cup F({"changeset_get_change", "changeset_get_error"}, <<"Ptr", S>>, S)

MigrationModule ==
         F({"migration_create_table", "migration_drop_index"}, <<"PoolHandle", S, P>>, R)
    \cup F({"migration_drop_table", "migration_execute"}, <<"PoolHandle", S>>, R)
    \cup F({"migration_add_column", "migration_drop_column"}, <<"PoolHandle", S, S>>, R)
    \cup F({"migration_rename_column"}, <<"PoolHandle", S, S, S>>, R)
    \cup F({"migration_create_index"}, <<"PoolHandle", S, P, S>>, R)

Library == StringModule \cup SystemModules \cup CodecModules \cup TimeModule \cup ClientModule \cup FileModules
           \cup ListModule \cup ListCallbacks \cup MapModule \cup SetModules \cup SequenceModules
           \cup JsonModules \cup HttpModule \cup RequestModules \cup MathModules \cup DatabaseModules
           \cup PgModule \cup PgExprs \cup PoolModule \cup ActorModules \cup WorkModules
           \cup IterModule \cup IterEnds \cup OrmModule \cup ExprModule \cup QueryModule
           \cup QueryRaw \cup RepoModule \cup RepoWrites \cup ChangesetModule \cup MigrationModule

BareOperators ==
         F({"println", "print"}, <<S>>, U)
    \cup F({"default"}, <<>>, A)
    \cup F({"compare"}, <<A, A>>, "Ordering")
    \cup F({"string_length"}, <<S>>, I)
    \cup F({"string_slice"}, <<S, I, I>>, S)
    \cup F({"string_contains", "string_starts_with", "string_ends_with"}, <<S, S>>, B)
    \cup F({"string_trim"}, <<S>>, S)

BareStrings ==
         F({"string_to_upper", "string_to_lower"}, <<S>>, S)
    \cup F({"string_replace"}, <<S, S, S>>, S)
    \cup F({"string_split"}, <<S, S>>, P)
    \cup F({"string_join"}, <<P, S>>, S)
    \cup F({"string_to_int", "string_to_float"}, <<S>>, O)
    \cup F({"file_read", "file_delete", "regex_compile"}, <<S>>, R)
    \cup F({"file_write", "file_append"}, <<S, S>>, R)
    \cup F({"file_exists"}, <<S>>, B)
    \cup F({"io_read_line"}, <<>>, R)
    \cup F({"io_eprintln"}, <<S>>, U)
    \cup F({"env_get_with_default"}, <<S, S>>, S)
    \cup F({"env_get_int"}, <<S, I>>, I)
    \cup F({"env_args"}, <<>>, P)
    \cup F({"regex_is_match"}, <<"Regex", S>>, B)
    \cup F({"regex_captures"}, <<"Regex", S>>, O)
    \cup F({"regex_replace"}, <<"Regex", S, S>>, S)
    \cup F({"regex_split"}, <<"Regex", S>>, P)

BareTime ==
         F({"crypto_sha256", "crypto_sha512", "base64_encode", "base64_encode_url", "hex_encode"}, <<S>>,
               S)
    \cup F({"crypto_hmac_sha256", "crypto_hmac_sha512"}, <<S, S>>, S)
    \cup F({"crypto_secure_compare"}, <<S, S>>, B)
    \cup F({"crypto_uuid4"}, <<>>, S)
    \cup F({"base64_decode", "base64_decode_url", "hex_decode", "datetime_from_iso8601"}, <<S>>, R)
    \cup F({"datetime_utc_now"}, <<>>, "DateTime")
    \cup F({"datetime_to_iso8601"}, <<"DateTime">>, S)
    \cup F({"datetime_from_unix_ms", "datetime_from_unix_secs"}, <<I>>, R)
    \cup F({"datetime_to_unix_ms", "datetime_to_unix_secs"}, <<"DateTime">>, I)
    \cup F({"datetime_add"}, <<"DateTime", I, S>>, "DateTime")
    \cup F({"datetime_diff"}, <<"DateTime", "DateTime", S>>, D)
    \cup F({"datetime_is_before", "datetime_is_after"}, <<"DateTime", "DateTime">>, B)

BareClient ==
         F({"http_build"}, <<S, S>>, I)
    \cup F({"http_header", "http_query"}, <<I, S, S>>, I)
    \cup F({"http_body", "http_json"}, <<I, S>>, I)
    \cup F({"http_timeout"}, <<I, I>>, I)
    \cup F({"http_send"}, <<I>>, R)
    \cup F({"http_stream", "http_stream_bytes"}, <<I, L>>, I)
    \cup F({"http_cancel", "http_client_close"}, <<I>>, U)
    \cup F({"http_client"}, <<>>, I)
    \cup F({"http_send_with"}, <<I, I>>, R)
    \cup F({"continuity_submit"}, <<S, S, S, S, S, I, B, B>>, R)
    \cup F({"continuity_submit_declared_work"}, <<S, S, S, I>>, R)

BareCollections ==
         F({"continuity_status"}, <<S>>, R)
    \cup F({"continuity_authority_status"}, <<>>, R)
    \cup F({"continuity_mark_completed"}, <<S, S, S>>, R)
    \cup F({"continuity_acknowledge_replica"}, <<S, S>>, R)
    \cup F({"map", "filter", "list_map", "list_filter"}, <<P, L>>, P)
    \cup F({"reduce", "list_reduce"}, <<P, A, L>>, A)
    \cup F({"head", "list_head"}, <<P>>, A)
    \cup F({"tail", "list_tail"}, <<P>>, P)

BareLists ==
         F({"list_new"}, <<>>, P)
    \cup F({"list_length"}, <<P>>, I)
    \cup F({"list_append"}, <<P, A>>, P)
    \cup F({"list_get"}, <<P, I>>, A)
    \cup F({"list_concat", "list_zip"}, <<P, P>>, P)
    \cup F({"list_reverse", "list_flatten", "list_enumerate"}, <<P>>, P)
    \cup F({"list_sort", "list_flat_map"}, <<P, L>>, P)
    \cup F({"list_find"}, <<P, L>>, O)
    \cup F({"list_any", "list_all"}, <<P, L>>, B)
    \cup F({"list_contains"}, <<P, A>>, B)
    \cup F({"list_take", "list_drop"}, <<P, I>>, P)
    \cup F({"list_last"}, <<P>>, A)

BareMaps ==
         F({"list_nth"}, <<P, I>>, A)
    \cup F({"map_new", "set_new"}, <<>>, P)
    \cup F({"map_put"}, <<P, A, A>>, P)
    \cup F({"map_get"}, <<P, A>>, A)
    \cup F({"map_has_key"}, <<P, A>>, B)
    \cup F({"map_delete"}, <<P, A>>, P)
    \cup F({"map_size", "set_size"}, <<P>>, I)
    \cup F({"map_keys", "map_values", "map_to_list", "map_from_list", "set_to_list"}, <<P>>, P)
    \cup F({"map_merge", "set_union", "set_intersection", "set_difference"}, <<P, P>>, P)
    \cup F({"set_add", "set_remove"}, <<P, I>>, P)
    \cup F({"set_contains"}, <<P, I>>, B)

BareJson ==
         F({"set_from_list", "range_to_list"}, <<P>>, P)
    \cup F({"tuple_nth"}, <<"Tuple", I>>, I)
    \cup F({"tuple_first", "tuple_second", "tuple_size"}, <<"Tuple">>, I)
    \cup F({"range_new"}, <<I, I>>, P)
    \cup F({"range_map", "range_filter"}, <<P, L>>, P)
    \cup F({"range_length", "queue_peek", "queue_size"}, <<P>>, I)
    \cup F({"queue_new"}, <<>>, P)
    \cup F({"queue_push"}, <<P, I>>, P)
    \cup F({"queue_pop"}, <<P>>, "Tuple")
    \cup F({"queue_is_empty"}, <<P>>, B)
    \cup F({"json_parse"}, <<S>>, R)
    \cup F({"json_encode"}, <<"Json">>, S)
    \cup F({"json_encode_string"}, <<S>>, S)
    \cup F({"json_encode_int"}, <<I>>, S)
    \cup F({"json_encode_bool"}, <<B>>, S)
    \cup F({"json_encode_map", "json_encode_list"}, <<P>>, S)
    \cup F({"http_router"}, <<>>, "Router")

BareHttp ==
         F({"http_route", "http_on_get", "http_on_post", "http_on_put", "http_on_delete"}, <<"Router", S,
               L>>, "Router")
    \cup F({"http_serve"}, <<"Router", I>>, U)
    \cup F({"http_serve_tls"}, <<"Router", I, S, S>>, U)
    \cup F({"http_response"}, <<I, S>>, "Response")
    \cup F({"http_response_with_headers"}, <<I, S, P>>, "Response")
    \cup F({"http_get", "sqlite_open"}, <<S>>, R)
    \cup F({"http_post"}, <<S, S>>, R)
    \cup F({"http_use"}, <<"Router", L>>, "Router")

BareDatabases ==
         F({"sqlite_close"}, <<"SqliteConn">>, U)
    \cup F({"sqlite_execute", "sqlite_query"}, <<"SqliteConn", S, P>>, R)
    \cup F({"pg_connect"}, <<S>>, R)
    \cup F({"pg_close"}, <<"PgConn">>, U)
    \cup F({"pg_execute", "pg_query"}, <<"PgConn", S, P>>, R)
    \cup F({"pg_begin", "pg_commit", "pg_rollback"}, <<"PgConn">>, R)
    \cup F({"pg_transaction"}, <<"PgConn", L>>, R)
    \cup F({"sqlite_begin", "sqlite_commit", "sqlite_rollback"}, <<"SqliteConn">>, R)
    \cup F({"pool_open"}, <<S, I, I, I>>, R)
    \cup F({"pool_close"}, <<"PoolHandle">>, U)

BareTests ==
         F({"pool_checkout"}, <<"PoolHandle">>, R)
    \cup F({"pool_checkin"}, <<"PoolHandle", "PgConn">>, U)
    \cup F({"pool_query", "pool_execute"}, <<"PoolHandle", S, P>>, R)
    \cup F({"request_method", "request_path", "request_body"}, <<"Request">>, S)
    \cup F({"request_header", "request_query", "request_param"}, <<"Request", S>>, O)
    \cup F({"assert"}, <<B>>, U)
    \cup F({"assert_eq", "assert_ne"}, <<S, S>>, U)
    \cup F({"assert_raises", "setup", "teardown"}, <<L>>, U)
    \cup F({"test", "describe"}, <<S, L>>, U)
    \cup F({"test_fail_msg"}, <<S>>, U)

BareHarness ==
         F({"test_run_body"}, <<L>>, U)
    \cup F({"test_begin"}, <<S>>, U)
    \cup F({"test_summary"}, <<I, I, I>>, U)
    \cup F({"test_cleanup_actors"}, <<>>, U)
    \cup F({"test_pass_count", "test_fail_count"}, <<>>, I)
    \cup F({"assert_receive"}, <<I>>, U)

Bare == BareOperators \cup BareStrings \cup BareTime \cup BareClient \cup BareCollections \cup BareLists
        \cup BareMaps \cup BareJson \cup BareHttp \cup BareDatabases \cup BareTests \cup BareHarness
=============================================================================
