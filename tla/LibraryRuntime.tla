-------------------------- MODULE LibraryRuntime ---------------------------
(* The runtime functions behind the library, without their prefix mesh_: the*)
(* names lowering maps to (lower.rs, map_builtin_name), the types it knows *)
(* (lower_source_file, known_functions), the declarations in the LLVM      *)
(* module (intrinsics.rs) and the addresses the REPL registers (jit.rs).   *)
EXTENDS LibraryTypes

W == "i32"

MappedStrings ==
    {"println", "print", "string_length", "string_slice", "string_contains", "string_starts_with",
          "string_ends_with", "string_trim", "string_to_upper", "string_to_lower", "string_replace",
          "string_split", "string_join", "string_to_int", "string_to_float", "file_read", "file_write",
          "file_append", "file_exists", "file_delete", "io_read_line", "io_eprintln",
          "env_get_with_default", "env_get_int", "env_args", "regex_from_literal", "regex_compile",
          "regex_captures", "regex_replace", "regex_split", "crypto_sha256", "crypto_sha512",
          "crypto_hmac_sha256", "crypto_hmac_sha512", "crypto_secure_compare", "crypto_uuid4",
          "base64_encode", "base64_decode", "base64_encode_url", "base64_decode_url", "hex_encode",
          "hex_decode", "datetime_utc_now", "datetime_from_iso8601", "datetime_to_iso8601",
          "datetime_from_unix_ms", "datetime_to_unix_ms", "datetime_from_unix_secs",
          "datetime_to_unix_secs", "datetime_add", "datetime_diff", "http_build", "http_header",
          "http_body", "http_timeout", "http_query", "http_json", "http_send", "http_stream",
          "http_stream_bytes", "http_cancel", "http_client", "http_send_with", "http_client_close",
          "test_assert", "test_assert_eq", "test_assert_ne", "test_assert_raises", "test_begin",
          "test_pass", "test_fail_msg", "test_summary", "test_cleanup_actors", "test_run_body",
          "test_mock_actor", "test_pass_count", "test_fail_count", "list_new", "list_length",
          "list_append", "list_head", "list_tail", "list_get", "list_concat", "list_reverse", "list_map",
          "list_filter", "list_reduce", "list_sort", "list_find", "list_any", "list_all", "list_contains",
          "list_zip", "list_flat_map"}

MappedData ==
    {"list_flatten", "list_enumerate", "list_take", "list_drop", "list_last", "list_nth", "map_new",
          "map_put", "map_get", "map_has_key", "map_delete", "map_size", "map_keys", "map_values",
          "map_merge", "map_to_list", "map_from_list", "set_new", "set_add", "set_remove", "set_contains",
          "set_size", "set_union", "set_intersection", "set_difference", "set_to_list", "set_from_list",
          "tuple_nth", "tuple_first", "tuple_second", "tuple_size", "range_new", "range_to_list",
          "range_map", "range_filter", "range_length", "queue_new", "queue_push", "queue_pop",
          "queue_peek", "queue_size", "queue_is_empty", "json_parse", "json_encode", "json_encode_string",
          "json_encode_int", "json_encode_bool", "json_encode_map", "json_encode_list", "json_from_int",
          "json_from_float", "json_from_bool", "json_from_string", "json_get", "json_get_nested",
          "http_router", "http_route", "http_serve", "http_serve_tls", "http_response_with_headers",
          "http_get", "http_post", "sqlite_open", "sqlite_close", "sqlite_execute", "sqlite_query",
          "pg_connect", "pg_close", "pg_execute", "pg_query", "pg_begin", "pg_commit", "pg_rollback",
          "pg_transaction", "pg_cast", "pg_jsonb", "pg_int", "pg_text", "pg_uuid", "pg_timestamptz",
          "pg_gen_salt", "pg_crypt", "pg_to_tsvector", "pg_plainto_tsquery", "pg_ts_rank",
          "pg_tsvector_matches", "pg_jsonb_contains"}

MappedQueries ==
    {"pg_create_extension", "pg_create_range_partitioned_table", "pg_create_gin_index",
          "pg_create_daily_partitions_ahead", "pg_list_daily_partitions_before", "pg_drop_partition",
          "sqlite_begin", "sqlite_commit", "sqlite_rollback", "pool_open", "pool_close", "pool_checkout",
          "pool_checkin", "pool_query", "pool_execute", "pg_query_as", "pool_query_as",
          "orm_build_select", "orm_build_insert", "orm_build_update", "orm_build_delete", "expr_column",
          "expr_value", "expr_null", "expr_call", "expr_add", "expr_sub", "expr_mul", "expr_div",
          "expr_eq", "expr_neq", "expr_lt", "expr_lte", "expr_gt", "expr_gte", "expr_case",
          "expr_coalesce", "expr_excluded", "expr_alias", "query_from", "query_where", "query_where_op",
          "query_where_in", "query_where_null", "query_where_not_null", "query_where_not_in",
          "query_where_between", "query_where_or", "query_where_expr", "query_select",
          "query_select_expr", "query_select_exprs", "query_order_by", "query_limit", "query_offset",
          "query_join", "query_join_as", "query_group_by", "query_having", "query_fragment",
          "query_select_count", "query_select_count_field", "query_select_sum", "query_select_avg",
          "query_select_min", "query_select_max", "query_select_raw", "query_where_raw",
          "query_order_by_raw", "query_group_by_raw", "query_where_sub", "repo_all", "repo_one",
          "repo_get", "repo_get_by", "repo_count", "repo_exists", "repo_insert", "repo_insert_expr",
          "repo_update", "repo_delete", "repo_transaction", "repo_update_where", "repo_update_where_expr",
          "repo_delete_where", "repo_query_raw", "repo_execute_raw", "repo_insert_or_update",
          "repo_insert_or_update_expr", "repo_delete_where_returning", "repo_preload",
          "repo_insert_changeset", "repo_update_changeset", "changeset_cast", "changeset_cast_with_types",
          "changeset_validate_required", "changeset_validate_length", "changeset_validate_format",
          "changeset_validate_inclusion", "changeset_validate_number", "changeset_valid",
          "changeset_errors", "changeset_changes", "changeset_get_change", "changeset_get_error",
          "migration_create_table", "migration_drop_table", "migration_add_column",
          "migration_drop_column", "migration_rename_column", "migration_create_index",
          "migration_drop_index", "migration_execute", "job_async", "job_await"}

MappedActors ==
    {"job_await_timeout", "job_map", "math_abs", "math_min", "math_max", "math_pi", "math_pow",
          "math_sqrt", "math_floor", "math_ceil", "math_round", "int_to_float", "int_to_string",
          "float_to_int", "string_from", "timer_sleep", "timer_send_after", "ws_serve", "ws_send",
          "ws_send_binary", "ws_serve_tls", "ws_join", "ws_leave", "ws_broadcast", "ws_broadcast_except",
          "node_start", "node_start_from_env", "node_connect", "node_self", "node_list", "node_monitor",
          "node_spawn", "node_spawn_link", "process_monitor", "process_demonitor", "process_register",
          "process_whereis", "global_register", "global_whereis", "global_unregister",
          "continuity_submit_declared_work", "continuity_status", "continuity_authority_status",
          "continuity_mark_completed", "continuity_acknowledge_replica", "iter_from", "iter_map",
          "iter_filter", "iter_take", "iter_skip", "iter_enumerate", "iter_zip", "iter_count", "iter_sum",
          "iter_any", "iter_all", "iter_find", "iter_reduce", "list_collect", "map_collect",
          "set_collect", "string_collect"}

(* The runtime function under another name than mesh_<name>.              *)
Renamed ==
    {<<"env_get", "env_get_with_default">>, <<"regex_is_match", "regex_match">>, <<"datetime_is_before", "datetime_before">>,
     <<"datetime_is_after", "datetime_after">>, <<"compile", "regex_compile">>, <<"length", "string_length">>,
     <<"trim", "string_trim">>, <<"contains", "string_contains">>, <<"starts_with", "string_starts_with">>,
     <<"ends_with", "string_ends_with">>, <<"to_upper", "string_to_upper">>, <<"to_lower", "string_to_lower">>,
     <<"replace", "string_replace">>, <<"slice", "string_slice">>, <<"split", "string_split">>,
     <<"join", "string_join">>, <<"read_line", "io_read_line">>, <<"eprintln", "io_eprintln">>,
     <<"read", "file_read">>, <<"write", "file_write">>, <<"append", "file_append">>,
     <<"exists", "file_exists">>, <<"delete", "file_delete">>, <<"map", "list_map">>,
     <<"filter", "list_filter">>, <<"reduce", "list_reduce">>, <<"head", "list_head">>,
     <<"tail", "list_tail">>, <<"zip", "list_zip">>, <<"flat_map", "list_flat_map">>,
     <<"flatten", "list_flatten">>, <<"enumerate", "list_enumerate">>, <<"last", "list_last">>,
     <<"nth", "list_nth">>, <<"merge", "map_merge">>, <<"difference", "set_difference">>,
     <<"parse", "json_parse">>, <<"encode", "json_encode">>, <<"encode_string", "json_encode_string">>,
     <<"encode_int", "json_encode_int">>, <<"encode_bool", "json_encode_bool">>, <<"encode_map", "json_encode_map">>,
     <<"encode_list", "json_encode_list">>, <<"http_response", "http_response_new">>, <<"request_method", "http_request_method">>,
     <<"request_path", "http_request_path">>, <<"request_body", "http_request_body">>, <<"request_header", "http_request_header">>,
     <<"request_query", "http_request_query">>, <<"request_param", "http_request_param">>, <<"http_on_get", "http_route_get">>,
     <<"http_on_post", "http_route_post">>, <<"http_on_put", "http_route_put">>, <<"http_on_delete", "http_route_delete">>,
     <<"http_use", "http_use_middleware">>, <<"expr_fn_call", "expr_call">>, <<"expr_case_when", "expr_case">>,
     <<"expr_label", "expr_alias">>, <<"float_from", "int_to_float">>, <<"continuity_submit", "continuity_submit_with_durability">>}

KnownStrings ==
         F({"println", "print", "io_eprintln"}, <<S>>, U)
    \cup F({"string_length"}, <<S>>, I)
    \cup F({"string_slice"}, <<S, I, I>>, S)
    \cup F({"string_contains", "string_starts_with", "string_ends_with"}, <<S, S>>, B)
    \cup F({"string_trim", "string_to_upper", "string_to_lower"}, <<S>>, S)
    \cup F({"string_replace"}, <<S, S, S>>, S)
    \cup F({"string_split", "string_join"}, <<P, P>>, P)
    \cup F({"string_to_int", "string_to_float"}, <<P>>, P)
    \cup F({"file_read", "file_delete", "env_get"}, <<S>>, P)
    \cup F({"file_write", "file_append"}, <<S, S>>, P)
    \cup F({"file_exists"}, <<S>>, B)
    \cup F({"io_read_line", "env_args"}, <<>>, P)
    \cup F({"env_get_with_default"}, <<S, S>>, S)

KnownCodecs ==
         F({"env_get_int"}, <<S, I>>, I)
    \cup F({"regex_from_literal"}, <<S, I>>, P)
    \cup F({"regex_compile", "base64_decode", "base64_decode_url", "hex_decode", "datetime_from_iso8601"},
               <<S>>, P)
    \cup F({"regex_match"}, <<P, S>>, B)
    \cup F({"regex_captures", "regex_split"}, <<P, S>>, P)
    \cup F({"regex_replace"}, <<P, S, S>>, S)
    \cup F({"crypto_sha256", "crypto_sha512", "base64_encode", "base64_encode_url", "hex_encode"}, <<S>>,
               S)
    \cup F({"crypto_hmac_sha256", "crypto_hmac_sha512"}, <<S, S>>, S)
    \cup F({"crypto_secure_compare"}, <<S, S>>, B)
    \cup F({"crypto_uuid4"}, <<>>, S)
    \cup F({"datetime_utc_now"}, <<>>, I)
    \cup F({"datetime_to_iso8601"}, <<I>>, S)
    \cup F({"datetime_from_unix_ms", "datetime_from_unix_secs"}, <<I>>, P)
    \cup F({"datetime_to_unix_ms", "datetime_to_unix_secs"}, <<I>>, I)

KnownClient ==
         F({"datetime_add"}, <<I, I, S>>, I)
    \cup F({"datetime_diff"}, <<I, I, S>>, D)
    \cup F({"datetime_before", "datetime_after"}, <<I, I>>, B)
    \cup F({"http_build"}, <<S, S>>, I)
    \cup F({"http_header", "http_query"}, <<I, S, S>>, I)
    \cup F({"http_body", "http_json"}, <<I, S>>, I)
    \cup F({"http_timeout"}, <<I, I>>, I)
    \cup F({"http_send"}, <<I>>, P)
    \cup F({"http_stream", "http_stream_bytes"}, <<I, P, P>>, I)
    \cup F({"http_cancel", "http_client_close"}, <<I>>, U)
    \cup F({"http_client"}, <<>>, I)
    \cup F({"http_send_with"}, <<I, I>>, P)
    \cup F({"test_begin", "test_fail_msg"}, <<P>>, U)
    \cup F({"test_pass"}, <<>>, U)
    \cup F({"test_assert"}, <<B, P, P, I, I>>, U)

KnownTests ==
         F({"test_assert_eq", "test_assert_ne"}, <<P, P, P, P, I, I>>, U)
    \cup F({"test_assert_raises"}, <<P, P, P, I, I>>, U)
    \cup F({"test_summary"}, <<I, I, I>>, U)
    \cup F({"test_cleanup_actors"}, <<>>, U)
    \cup F({"test_run_body"}, <<P, P>>, U)
    \cup F({"test_mock_actor"}, <<P, P>>, I)
    \cup F({"test_pass_count", "test_fail_count"}, <<>>, I)
    \cup F({"list_new"}, <<>>, P)
    \cup F({"list_length"}, <<P>>, I)
    \cup F({"list_append", "list_get"}, <<P, I>>, P)
    \cup F({"list_head", "list_tail", "list_reverse"}, <<P>>, P)
    \cup F({"list_concat"}, <<P, P>>, P)
    \cup F({"list_map", "list_filter"}, <<P, P, P>>, P)
    \cup F({"list_reduce"}, <<P, I, P, P>>, P)

KnownLists ==
         F({"list_from_array", "list_take", "list_drop", "list_nth", "map_delete"}, <<P, I>>, P)
    \cup F({"list_sort", "list_find", "list_flat_map"}, <<P, P, P>>, P)
    \cup F({"list_any", "list_all"}, <<P, P, P>>, B)
    \cup F({"list_contains", "map_has_key"}, <<P, I>>, B)
    \cup F({"list_zip", "map_merge"}, <<P, P>>, P)
    \cup F({"list_flatten", "list_enumerate", "list_last", "map_tag_string", "map_keys", "map_values",
               "map_to_list", "map_from_list"}, <<P>>, P)
    \cup F({"map_new"}, <<>>, P)
    \cup F({"map_new_typed"}, <<I>>, P)
    \cup F({"map_put"}, <<P, I, I>>, P)
    \cup F({"map_get"}, <<P, I>>, I)
    \cup F({"map_size"}, <<P>>, I)

KnownSets ==
         F({"set_new", "queue_new"}, <<>>, P)
    \cup F({"set_add", "set_remove", "queue_push"}, <<P, I>>, P)
    \cup F({"set_contains"}, <<P, I>>, B)
    \cup F({"set_size", "tuple_first", "tuple_second", "tuple_size", "range_length"}, <<P>>, I)
    \cup F({"set_union", "set_intersection", "set_difference", "list_to_string", "set_to_string"}, <<P,
               P>>, P)
    \cup F({"set_to_list", "set_from_list", "range_to_list", "queue_pop"}, <<P>>, P)
    \cup F({"map_to_string", "range_map", "range_filter"}, <<P, P, P>>, P)
    \cup F({"string_to_string"}, <<I>>, P)
    \cup F({"list_eq"}, <<P, P, P>>, B)
    \cup F({"list_compare"}, <<P, P, P>>, I)
    \cup F({"tuple_nth"}, <<P, I>>, I)
    \cup F({"range_new"}, <<I, I>>, P)

KnownJson ==
         F({"queue_peek", "queue_size"}, <<P>>, I)
    \cup F({"queue_is_empty"}, <<P>>, B)
    \cup F({"json_parse", "json_from_string", "json_parse_raw"}, <<S>>, P)
    \cup F({"json_encode", "json_encode_map", "json_encode_list"}, <<P>>, S)
    \cup F({"json_encode_string"}, <<S>>, S)
    \cup F({"json_encode_int"}, <<I>>, S)
    \cup F({"json_encode_bool"}, <<B>>, S)
    \cup F({"json_from_int"}, <<I>>, P)
    \cup F({"json_from_float"}, <<D>>, P)
    \cup F({"json_from_bool"}, <<B>>, P)
    \cup F({"json_get", "json_object_get", "json_array_push", "json_from_list"}, <<P, P>>, P)
    \cup F({"json_get_nested", "json_object_put"}, <<P, P, P>>, P)
    \cup F({"json_object_new", "json_array_new", "json_null"}, <<>>, P)
    \cup F({"json_array_get"}, <<P, I>>, P)
    \cup F({"json_as_int", "json_as_float", "json_as_string", "json_as_bool"}, <<P>>, P)

KnownHttp ==
         F({"json_from_map", "json_to_list", "json_to_map", "http_use_middleware"}, <<P, P>>, P)
    \cup F({"alloc_result"}, <<I, P>>, P)
    \cup F({"result_is_ok"}, <<P>>, I)
    \cup F({"result_unwrap"}, <<P>>, P)
    \cup F({"http_router"}, <<>>, P)
    \cup F({"http_route", "http_route_get", "http_route_post", "http_route_put", "http_route_delete"}, <<P,
               S, P>>, P)
    \cup F({"http_serve"}, <<P, I>>, U)
    \cup F({"http_serve_tls"}, <<P, I, S, S>>, U)
    \cup F({"http_response_new"}, <<I, S>>, P)
    \cup F({"http_response_with_headers"}, <<I, S, P>>, P)
    \cup F({"http_get"}, <<S>>, P)
    \cup F({"http_post"}, <<S, S>>, P)
    \cup F({"http_request_method", "http_request_path", "http_request_body"}, <<P>>, S)
    \cup F({"http_request_header", "http_request_query", "http_request_param"}, <<P, S>>, P)
    \cup F({"ws_serve"}, <<P, P, P, P, P, P, I>>, U)

KnownSockets ==
         F({"ws_send", "ws_join", "ws_leave", "ws_broadcast"}, <<P, P>>, I)
    \cup F({"ws_send_binary"}, <<P, P, I>>, I)
    \cup F({"ws_serve_tls"}, <<P, P, P, P, P, P, I, P, P>>, U)
    \cup F({"ws_broadcast_except"}, <<P, P, P>>, I)
    \cup F({"sqlite_open", "pg_connect", "pg_int", "pg_jsonb", "pg_text", "pg_timestamptz", "pg_uuid"},
               <<P>>, P)
    \cup F({"sqlite_close", "pg_close"}, <<I>>, U)
    \cup F({"sqlite_execute", "sqlite_query", "pg_execute", "pg_query", "pg_transaction"}, <<I, P, P>>, P)
    \cup F({"pg_begin", "pg_commit", "pg_rollback"}, <<I>>, P)
    \cup F({"pg_cast"}, <<P, P>>, P)

KnownPools ==
         F({"pg_gen_salt"}, <<P, I>>, P)
    \cup F({"pg_crypt", "pg_jsonb_contains", "pg_ts_rank", "pg_tsvector_matches", "pg_plainto_tsquery",
               "pg_to_tsvector", "row_from_row_get"}, <<P, P>>, P)
    \cup F({"pg_create_extension", "pg_drop_partition"}, <<I, P>>, P)
    \cup F({"pg_create_range_partitioned_table", "pg_query_as"}, <<I, P, P, P>>, P)
    \cup F({"pg_create_gin_index"}, <<I, P, P, P, P>>, P)
    \cup F({"pg_create_daily_partitions_ahead", "pg_list_daily_partitions_before"}, <<I, P, I>>, P)
    \cup F({"sqlite_begin", "sqlite_commit", "sqlite_rollback", "pool_checkout"}, <<I>>, P)
    \cup F({"pool_open"}, <<P, I, I, I>>, P)
    \cup F({"pool_close"}, <<I>>, U)
    \cup F({"pool_checkin"}, <<I, I>>, U)
    \cup F({"pool_query", "pool_execute"}, <<I, P, P>>, P)
    \cup F({"row_parse_int", "row_parse_float", "row_parse_bool"}, <<P>>, P)

KnownExprs ==
         F({"pool_query_as"}, <<I, P, P, P>>, P)
    \cup F({"orm_build_select"}, <<P, P, P, P, I, I>>, P)
    \cup F({"orm_build_insert", "orm_build_delete", "expr_case", "query_where"}, <<P, P, P>>, P)
    \cup F({"orm_build_update"}, <<P, P, P, P>>, P)
    \cup F({"expr_column", "expr_value", "expr_coalesce", "expr_excluded", "query_from"}, <<P>>, P)
    \cup F({"expr_null"}, <<>>, P)
    \cup F({"expr_call", "expr_add", "expr_sub", "expr_mul", "expr_div", "expr_eq", "expr_neq", "expr_lt",
               "expr_lte", "expr_gt", "expr_gte", "expr_alias"}, <<P, P>>, P)

KnownQueries ==
         F({"query_where_op", "query_where_between", "query_join"}, <<P, P, P, P>>, P)
    \cup F({"query_where_in", "query_where_not_in", "query_where_or", "query_order_by", "query_having"},
               <<P, P, P>>, P)
    \cup F({"query_where_null", "query_where_not_null", "query_where_expr", "query_select",
               "query_select_expr", "query_select_exprs", "query_group_by", "query_select_count_field"},
               <<P, P>>, P)
    \cup F({"query_limit", "query_offset"}, <<P, I>>, P)
    \cup F({"query_join_as"}, <<P, P, P, P, P>>, P)
    \cup F({"query_select_count"}, <<P>>, P)

KnownFilters ==
         F({"query_select_sum", "query_select_avg", "query_select_min", "query_select_max",
               "query_order_by_raw", "query_group_by_raw", "query_select_raw"}, <<P, P>>, P)
    \cup F({"query_fragment", "query_where_raw", "query_where_sub"}, <<P, P, P>>, P)
    \cup F({"repo_all", "repo_one", "repo_count", "repo_exists"}, <<I, P>>, P)
    \cup F({"repo_get", "repo_insert", "repo_insert_expr", "repo_delete"}, <<I, P, P>>, P)
    \cup F({"repo_get_by", "repo_update"}, <<I, P, P, P>>, P)

KnownRepo ==
         F({"repo_transaction", "repo_delete_where", "repo_query_raw", "repo_execute_raw",
               "repo_delete_where_returning", "repo_insert_changeset"}, <<I, P, P>>, P)
    \cup F({"repo_update_where", "repo_update_where_expr", "repo_update_changeset", "repo_preload"}, <<I,
               P, P, P>>, P)
    \cup F({"repo_insert_or_update", "repo_insert_or_update_expr"}, <<I, P, P, P, P>>, P)
    \cup F({"changeset_cast"}, <<P, P, P>>, P)
    \cup F({"changeset_cast_with_types"}, <<P, P, P, P>>, P)
    \cup F({"changeset_validate_required"}, <<P, P>>, P)

KnownChangesets ==
         F({"changeset_validate_length"}, <<P, P, P, P>>, P)
    \cup F({"changeset_validate_format", "changeset_validate_inclusion"}, <<P, P, P>>, P)
    \cup F({"changeset_validate_number"}, <<P, P, P, P, P, P>>, P)
    \cup F({"changeset_valid", "changeset_errors", "changeset_changes"}, <<P>>, P)
    \cup F({"changeset_get_change", "changeset_get_error"}, <<P, P>>, P)
    \cup F({"migration_create_table", "migration_add_column", "migration_drop_column",
               "migration_drop_index"}, <<I, P, P>>, P)
    \cup F({"migration_drop_table", "migration_execute"}, <<I, P>>, P)
    \cup F({"migration_rename_column", "migration_create_index"}, <<I, P, P, P>>, P)
    \cup F({"job_async"}, <<P, P>>, I)
    \cup F({"job_await"}, <<I>>, P)

KnownActors_NoSize ==
         F({"timer_sleep"}, <<I>>, U)
    \cup F({"timer_send_after"}, <<I, I, P>>, U)
KnownActors ==
         F({"job_await_timeout"}, <<I, I>>, P)
    \cup F({"job_map"}, <<P, P, P>>, P)
    \cup F({"timer_sleep"}, <<I>>, U)
    \cup F({"timer_send_after"}, <<I, I, P, I>>, U)
    \cup F({"service_call"}, <<I, I, P, I>>, P)
    \cup F({"service_reply", "actor_send"}, <<I, P, I>>, U)

Known == KnownStrings \cup KnownCodecs \cup KnownClient \cup KnownTests \cup KnownLists \cup KnownSets
         \cup KnownJson \cup KnownHttp \cup KnownSockets \cup KnownPools \cup KnownExprs
         \cup KnownQueries \cup KnownFilters \cup KnownRepo \cup KnownChangesets \cup KnownActors

DeclaredCore ==
         F({"rt_init", "reduction_check"}, <<>>, U)
    \cup F({"gc_alloc_actor"}, <<I, I>>, P)
    \cup F({"string_new"}, <<P, I>>, P)
    \cup F({"string_concat"}, <<P, P>>, P)
    \cup F({"int_to_string", "actor_receive"}, <<I>>, P)
    \cup F({"float_to_string"}, <<D>>, P)
    \cup F({"bool_to_string"}, <<B>>, P)
    \cup F({"print", "println"}, <<P>>, U)
    \cup F({"rt_init_actor"}, <<W>>, U)
    \cup F({"actor_spawn"}, <<P, P, I, B>>, I)
    \cup F({"actor_send"}, <<I, P, I>>, U)
    \cup F({"actor_self"}, <<>>, I)
    \cup F({"actor_link"}, <<I>>, U)

DeclaredStrings ==
         F({"actor_set_terminate"}, <<I, P>>, U)
    \cup F({"rt_run_scheduler", "actor_trap_exit"}, <<>>, U)
    \cup F({"supervisor_start"}, <<P, I>>, I)
    \cup F({"supervisor_start_child"}, <<I, P, I>>, I)
    \cup F({"supervisor_terminate_child"}, <<I, I>>, I)
    \cup F({"supervisor_count_children"}, <<I>>, I)
    \cup F({"actor_exit"}, <<I, B>>, U)
    \cup F({"string_length"}, <<P>>, I)
    \cup F({"string_slice"}, <<P, I, I>>, P)
    \cup F({"string_contains", "string_starts_with", "string_ends_with"}, <<P, P>>, B)
    \cup F({"string_trim", "string_to_upper", "string_to_lower"}, <<P>>, P)

DeclaredSystem ==
         F({"string_replace"}, <<P, P, P>>, P)
    \cup F({"string_eq"}, <<P, P>>, B)
    \cup F({"string_split", "string_join", "file_write", "file_append", "env_get_with_default"}, <<P, P>>,
               P)
    \cup F({"string_to_int", "string_to_float", "file_read", "file_delete", "env_get"}, <<P>>, P)
    \cup F({"file_exists"}, <<P>>, B)
    \cup F({"io_read_line", "env_args"}, <<>>, P)
    \cup F({"io_eprintln"}, <<P>>, U)

DeclaredCodecs ==
         F({"env_get_int"}, <<P, I>>, I)
    \cup F({"regex_from_literal"}, <<P, I>>, P)
    \cup F({"regex_compile", "crypto_sha256", "crypto_sha512", "base64_encode", "base64_decode",
               "base64_encode_url"}, <<P>>, P)
    \cup F({"regex_match", "crypto_secure_compare"}, <<P, P>>, B)
    \cup F({"regex_captures", "regex_split", "crypto_hmac_sha256", "crypto_hmac_sha512"}, <<P, P>>, P)
    \cup F({"regex_replace"}, <<P, P, P>>, P)
    \cup F({"crypto_uuid4"}, <<>>, P)

DeclaredTime ==
         F({"base64_decode_url", "hex_encode", "hex_decode", "datetime_from_iso8601"}, <<P>>, P)
    \cup F({"datetime_utc_now"}, <<>>, I)
    \cup F({"datetime_to_iso8601", "datetime_from_unix_ms", "datetime_from_unix_secs"}, <<I>>, P)
    \cup F({"datetime_to_unix_ms", "datetime_to_unix_secs"}, <<I>>, I)
    \cup F({"datetime_add"}, <<I, I, P>>, I)
    \cup F({"datetime_diff"}, <<I, I, P>>, D)
    \cup F({"datetime_before", "datetime_after"}, <<I, I>>, B)
    \cup F({"http_build"}, <<P, P>>, I)
    \cup F({"http_header"}, <<I, P, P>>, I)
    \cup F({"http_body"}, <<I, P>>, I)

DeclaredClient ==
         F({"http_timeout"}, <<I, I>>, I)
    \cup F({"http_query", "http_stream", "http_stream_bytes"}, <<I, P, P>>, I)
    \cup F({"http_json"}, <<I, P>>, I)
    \cup F({"http_send"}, <<I>>, P)
    \cup F({"http_cancel", "http_client_close"}, <<I>>, U)
    \cup F({"http_client"}, <<>>, I)
    \cup F({"http_send_with"}, <<I, I>>, P)
    \cup F({"test_begin", "test_fail_msg"}, <<P>>, U)
    \cup F({"test_pass"}, <<>>, U)
    \cup F({"test_assert"}, <<B, P, P, I, I>>, U)
    \cup F({"test_assert_eq"}, <<P, P, P, P, I, I>>, U)

DeclaredTests ==
         F({"test_assert_ne"}, <<P, P, P, P, I, I>>, U)
    \cup F({"test_assert_raises"}, <<P, P, P, I, I>>, U)
    \cup F({"test_summary"}, <<I, I, I>>, U)
    \cup F({"test_cleanup_actors"}, <<>>, U)
    \cup F({"test_run_body"}, <<P, P>>, U)
    \cup F({"test_mock_actor"}, <<P, P>>, I)
    \cup F({"test_pass_count", "test_fail_count"}, <<>>, I)
    \cup F({"list_new"}, <<>>, P)
    \cup F({"list_length", "list_head"}, <<P>>, I)
    \cup F({"list_append"}, <<P, I>>, P)
    \cup F({"list_tail", "list_reverse"}, <<P>>, P)
    \cup F({"list_get"}, <<P, I>>, I)
    \cup F({"list_concat"}, <<P, P>>, P)
    \cup F({"list_map", "list_filter"}, <<P, P, P>>, P)
    \cup F({"list_reduce"}, <<P, I, P, P>>, I)

DeclaredLists ==
         F({"list_from_array", "list_take", "list_drop", "map_delete"}, <<P, I>>, P)
    \cup F({"list_builder_new", "map_new_typed"}, <<I>>, P)
    \cup F({"list_builder_push"}, <<P, I>>, U)
    \cup F({"list_sort", "list_find", "list_flat_map"}, <<P, P, P>>, P)
    \cup F({"list_any", "list_all"}, <<P, P, P>>, B)
    \cup F({"list_contains", "map_has_key"}, <<P, I>>, B)
    \cup F({"list_contains_str"}, <<P, P>>, B)
    \cup F({"list_zip"}, <<P, P>>, P)
    \cup F({"list_flatten", "list_enumerate", "map_tag_string"}, <<P>>, P)
    \cup F({"list_last", "map_size"}, <<P>>, I)
    \cup F({"list_nth", "map_get"}, <<P, I>>, I)
    \cup F({"map_new"}, <<>>, P)
    \cup F({"map_put"}, <<P, I, I>>, P)

DeclaredSets ==
         F({"map_keys", "map_values", "map_to_list", "map_from_list", "set_to_list", "set_from_list",
               "range_to_list"}, <<P>>, P)
    \cup F({"map_merge", "set_union", "set_intersection", "set_difference"}, <<P, P>>, P)
    \cup F({"map_entry_key", "map_entry_value", "set_element_at", "tuple_nth"}, <<P, I>>, I)
    \cup F({"set_new"}, <<>>, P)
    \cup F({"set_add", "set_remove"}, <<P, I>>, P)
    \cup F({"set_contains"}, <<P, I>>, B)
    \cup F({"set_size", "tuple_first", "tuple_second", "tuple_size"}, <<P>>, I)
    \cup F({"range_new"}, <<I, I>>, P)
    \cup F({"range_map", "range_filter"}, <<P, P, P>>, P)

DeclaredJson ==
         F({"range_length", "queue_peek", "queue_size"}, <<P>>, I)
    \cup F({"queue_new"}, <<>>, P)
    \cup F({"queue_push"}, <<P, I>>, P)
    \cup F({"queue_pop", "json_parse", "json_parse_raw", "json_encode", "json_encode_string",
               "json_encode_map", "json_encode_list", "json_from_string"}, <<P>>, P)
    \cup F({"queue_is_empty"}, <<P>>, B)
    \cup F({"json_encode_int", "json_from_int"}, <<I>>, P)
    \cup F({"json_encode_bool", "json_from_bool"}, <<B>>, P)
    \cup F({"json_from_float"}, <<D>>, P)
    \cup F({"json_get"}, <<P, P>>, P)
    \cup F({"json_get_nested"}, <<P, P, P>>, P)

DeclaredResults ==
         F({"json_object_new", "json_array_new", "json_null", "http_router"}, <<>>, P)
    \cup F({"json_object_put", "http_route"}, <<P, P, P>>, P)
    \cup F({"json_object_get", "json_array_push", "json_from_list", "json_from_map", "json_to_list",
               "json_to_map"}, <<P, P>>, P)
    \cup F({"json_array_get"}, <<P, I>>, P)
    \cup F({"json_as_int", "json_as_float", "json_as_string", "json_as_bool", "result_unwrap"}, <<P>>, P)
    \cup F({"alloc_result"}, <<I, P>>, P)
    \cup F({"result_is_ok"}, <<P>>, I)
    \cup F({"http_serve"}, <<P, I>>, U)
    \cup F({"http_serve_tls"}, <<P, I, P, P>>, U)

DeclaredHttp ==
         F({"ws_serve"}, <<P, P, P, P, P, P, I>>, U)
    \cup F({"ws_send", "ws_join", "ws_leave", "ws_broadcast"}, <<P, P>>, I)
    \cup F({"ws_send_binary"}, <<P, P, I>>, I)
    \cup F({"ws_serve_tls"}, <<P, P, P, P, P, P, I, P, P>>, U)
    \cup F({"ws_broadcast_except"}, <<P, P, P>>, I)
    \cup F({"http_response_new"}, <<I, P>>, P)
    \cup F({"http_response_with_headers"}, <<I, P, P>>, P)
    \cup F({"http_get", "http_request_method", "http_request_path", "http_request_body"}, <<P>>, P)
    \cup F({"http_post", "http_request_header"}, <<P, P>>, P)

DeclaredSqlite ==
         F({"http_request_query", "http_request_param", "http_use_middleware"}, <<P, P>>, P)
    \cup F({"http_route_get", "http_route_post", "http_route_put", "http_route_delete"}, <<P, P, P>>, P)
    \cup F({"sqlite_open", "pg_connect"}, <<P>>, P)
    \cup F({"sqlite_close", "pg_close"}, <<I>>, U)
    \cup F({"sqlite_execute", "sqlite_query", "pg_execute", "pg_query"}, <<I, P, P>>, P)
    \cup F({"pg_begin", "pg_commit", "pg_rollback"}, <<I>>, P)

DeclaredPg ==
         F({"pg_transaction"}, <<I, P, P>>, P)
    \cup F({"pg_cast", "pg_crypt", "pg_jsonb_contains", "pg_ts_rank", "pg_tsvector_matches",
               "pg_plainto_tsquery", "pg_to_tsvector"}, <<P, P>>, P)
    \cup F({"pg_int", "pg_jsonb", "pg_text", "pg_timestamptz", "pg_uuid"}, <<P>>, P)
    \cup F({"pg_gen_salt"}, <<P, I>>, P)
    \cup F({"pg_create_extension", "pg_drop_partition"}, <<I, P>>, P)
    \cup F({"pg_create_range_partitioned_table"}, <<I, P, P, P>>, P)
    \cup F({"pg_create_gin_index"}, <<I, P, P, P, P>>, P)
    \cup F({"pg_create_daily_partitions_ahead", "pg_list_daily_partitions_before"}, <<I, P, I>>, P)
    \cup F({"sqlite_begin", "sqlite_commit"}, <<I>>, P)

DeclaredPools ==
         F({"sqlite_rollback", "pool_checkout"}, <<I>>, P)
    \cup F({"pool_open"}, <<P, I, I, I>>, P)
    \cup F({"pool_close"}, <<I>>, U)
    \cup F({"pool_checkin"}, <<I, I>>, U)
    \cup F({"pool_query", "pool_execute"}, <<I, P, P>>, P)
    \cup F({"row_from_row_get"}, <<P, P>>, P)
    \cup F({"row_parse_int", "row_parse_float", "row_parse_bool"}, <<P>>, P)
    \cup F({"pg_query_as", "pool_query_as"}, <<I, P, P, P>>, P)
    \cup F({"hash_int"}, <<I>>, I)
    \cup F({"hash_float"}, <<D>>, I)

DeclaredJobs ==
         F({"hash_bool"}, <<B>>, I)
    \cup F({"hash_string"}, <<P>>, I)
    \cup F({"hash_combine"}, <<I, I>>, I)
    \cup F({"list_to_string", "set_to_string"}, <<P, P>>, P)
    \cup F({"map_to_string", "job_map"}, <<P, P, P>>, P)
    \cup F({"string_to_string", "job_await"}, <<I>>, P)
    \cup F({"list_eq"}, <<P, P, P>>, B)
    \cup F({"list_compare"}, <<P, P, P>>, I)
    \cup F({"service_call"}, <<I, I, P, I>>, P)
    \cup F({"service_reply"}, <<I, P, I>>, U)
    \cup F({"job_async"}, <<P, P>>, I)
    \cup F({"job_await_timeout"}, <<I, I>>, P)
    \cup F({"timer_sleep"}, <<I>>, U)

DeclaredNodes ==
         F({"timer_send_after"}, <<I, I, P, I>>, U)
    \cup F({"panic"}, <<P, I, P, I, W>>, U)
    \cup F({"node_start"}, <<P, I, P, I>>, I)
    \cup F({"node_connect", "node_monitor"}, <<P, I>>, I)
    \cup F({"node_self", "node_list"}, <<>>, P)
    \cup F({"node_spawn"}, <<P, I, P, I, P, I, P, I, B>>, I)
    \cup F({"register_function"}, <<P, I, P>>, U)
    \cup F({"register_declared_handler"}, <<P, I, P, I, I, P>>, U)
    \cup F({"register_startup_work"}, <<P, I>>, U)
    \cup F({"trigger_startup_work"}, <<>>, U)

DeclaredProcesses ==
         F({"process_monitor", "process_demonitor"}, <<I>>, I)
    \cup F({"process_register"}, <<P, I>>, I)
    \cup F({"process_whereis"}, <<P>>, I)
    \cup F({"actor_send_named"}, <<P, I, P, I, P, I>>, U)
    \cup F({"list_iter_new", "list_iter_next", "map_iter_new", "map_iter_next", "set_iter_new",
               "set_iter_next", "range_iter_next", "iter_from", "iter_enumerate"}, <<P>>, P)
    \cup F({"range_iter_new"}, <<I, I>>, P)
    \cup F({"iter_map", "iter_filter"}, <<P, P, P>>, P)
    \cup F({"iter_take", "iter_skip"}, <<P, I>>, P)
    \cup F({"iter_zip"}, <<P, P>>, P)

DeclaredIterators ==
         F({"iter_count", "iter_sum"}, <<P>>, I)
    \cup F({"iter_any", "iter_all"}, <<P, P, P>>, B)
    \cup F({"iter_find"}, <<P, P, P>>, P)
    \cup F({"iter_reduce"}, <<P, I, P, P>>, I)
    \cup F({"iter_generic_next", "iter_map_next", "iter_filter_next", "iter_take_next", "iter_skip_next",
               "iter_enumerate_next", "iter_zip_next", "list_collect", "map_collect",
               "map_collect_string_keys", "set_collect", "string_collect"}, <<P>>, P)
    \cup F({"orm_build_select"}, <<P, P, P, P, I, I>>, P)

DeclaredExprs ==
         F({"orm_build_insert", "orm_build_delete", "expr_case", "query_where"}, <<P, P, P>>, P)
    \cup F({"orm_build_update"}, <<P, P, P, P>>, P)
    \cup F({"expr_column", "expr_value", "expr_coalesce", "expr_excluded", "query_from"}, <<P>>, P)
    \cup F({"expr_null"}, <<>>, P)
    \cup F({"expr_call", "expr_add", "expr_sub", "expr_mul", "expr_div", "expr_eq", "expr_neq", "expr_lt",
               "expr_lte", "expr_gt", "expr_gte", "expr_alias"}, <<P, P>>, P)

DeclaredQueries ==
         F({"query_where_op", "query_where_between", "query_join"}, <<P, P, P, P>>, P)
    \cup F({"query_where_in", "query_where_not_in", "query_where_or", "query_order_by"}, <<P, P, P>>, P)
    \cup F({"query_where_null", "query_where_not_null", "query_where_expr", "query_select",
               "query_select_expr", "query_select_exprs"}, <<P, P>>, P)
    \cup F({"query_limit", "query_offset"}, <<P, I>>, P)
    \cup F({"query_join_as"}, <<P, P, P, P, P>>, P)

DeclaredFilters ==
         F({"query_group_by", "query_select_count_field", "query_select_sum", "query_select_avg",
               "query_select_min", "query_select_max", "query_select_raw", "query_order_by_raw",
               "query_group_by_raw"}, <<P, P>>, P)
    \cup F({"query_having", "query_fragment", "query_where_raw", "query_where_sub"}, <<P, P, P>>, P)
    \cup F({"query_select_count"}, <<P>>, P)
    \cup F({"repo_all", "repo_one"}, <<I, P>>, P)
    \cup F({"repo_get"}, <<I, P, P>>, P)
    \cup F({"repo_get_by"}, <<I, P, P, P>>, P)

DeclaredRepo ==
         F({"repo_count", "repo_exists"}, <<I, P>>, P)
    \cup F({"repo_insert", "repo_insert_expr", "repo_delete", "repo_transaction", "repo_delete_where",
               "repo_query_raw", "repo_execute_raw"}, <<I, P, P>>, P)
    \cup F({"repo_update", "repo_update_where", "repo_update_where_expr"}, <<I, P, P, P>>, P)
    \cup F({"repo_insert_or_update", "repo_insert_or_update_expr"}, <<I, P, P, P, P>>, P)

DeclaredChangesets ==
         F({"repo_delete_where_returning", "repo_insert_changeset"}, <<I, P, P>>, P)
    \cup F({"repo_preload", "repo_update_changeset"}, <<I, P, P, P>>, P)
    \cup F({"changeset_cast", "changeset_validate_format", "changeset_validate_inclusion"}, <<P, P, P>>, P)
    \cup F({"changeset_cast_with_types", "changeset_validate_length"}, <<P, P, P, P>>, P)
    \cup F({"changeset_validate_required"}, <<P, P>>, P)
    \cup F({"changeset_validate_number"}, <<P, P, P, P, P, P>>, P)
    \cup F({"changeset_valid", "changeset_errors"}, <<P>>, P)

DeclaredMigrations ==
         F({"changeset_changes"}, <<P>>, P)
    \cup F({"changeset_get_change", "changeset_get_error"}, <<P, P>>, P)
    \cup F({"migration_create_table", "migration_add_column", "migration_drop_column",
               "migration_drop_index"}, <<I, P, P>>, P)
    \cup F({"migration_drop_table", "migration_execute"}, <<I, P>>, P)
    \cup F({"migration_rename_column", "migration_create_index"}, <<I, P, P, P>>, P)
    \cup F({"global_register"}, <<P, I, I>>, I)
    \cup F({"global_whereis", "global_unregister"}, <<P, I>>, I)
    \cup F({"node_start_from_env"}, <<>>, P)
    \cup F({"continuity_submit_with_durability"}, <<P, P, P, P, P, I, B, B>>, P)

DeclaredWork ==
         F({"continuity_submit_declared_work"}, <<P, P, P, I>>, P)
    \cup F({"continuity_submit"}, <<P, P, P, P, P, B, B>>, P)
    \cup F({"continuity_status"}, <<P>>, P)
    \cup F({"continuity_authority_status"}, <<>>, P)
    \cup F({"continuity_mark_completed"}, <<P, P, P>>, P)
    \cup F({"continuity_complete_declared_work", "continuity_acknowledge_replica"}, <<P, P>>, P)

Declared == DeclaredCore \cup DeclaredStrings \cup DeclaredSystem \cup DeclaredCodecs \cup DeclaredTime
            \cup DeclaredClient \cup DeclaredTests \cup DeclaredLists \cup DeclaredSets \cup DeclaredJson
            \cup DeclaredResults \cup DeclaredHttp \cup DeclaredSqlite \cup DeclaredPg \cup DeclaredPools
            \cup DeclaredJobs \cup DeclaredNodes \cup DeclaredProcesses \cup DeclaredIterators \cup DeclaredExprs
            \cup DeclaredQueries \cup DeclaredFilters \cup DeclaredRepo \cup DeclaredChangesets \cup DeclaredMigrations
            \cup DeclaredWork

RegisteredCore ==
    {"rt_init", "gc_alloc", "gc_alloc_actor", "print", "println", "io_read_line", "io_eprintln",
          "string_new", "string_concat", "string_length", "string_eq", "string_contains", "string_slice",
          "string_replace", "string_starts_with", "string_ends_with", "string_trim", "string_to_upper",
          "string_to_lower", "int_to_string", "bool_to_string", "float_to_string", "string_split",
          "string_join", "string_to_int", "string_to_float", "panic", "rt_init_actor", "rt_run_scheduler",
          "actor_spawn", "actor_send", "actor_receive", "actor_self", "actor_link", "actor_set_terminate",
          "actor_register", "actor_whereis", "reduction_check", "service_call", "service_reply",
          "list_new", "list_from_array", "list_get", "list_head", "list_tail", "list_length",
          "list_append", "list_concat", "list_map", "list_filter", "list_reduce", "list_reverse",
          "list_sort", "list_find", "list_any", "list_all", "list_contains"}

RegisteredCollections ==
    {"list_contains_str", "list_zip", "list_flat_map", "list_flatten", "list_enumerate", "list_take",
          "list_drop", "list_nth", "list_last", "map_new", "map_put", "map_get", "map_delete",
          "map_has_key", "map_size", "map_keys", "map_values", "map_merge", "map_to_list",
          "map_from_list", "set_new", "set_add", "set_remove", "set_contains", "set_size", "set_union",
          "set_intersection", "set_difference", "set_to_list", "set_from_list", "queue_new", "queue_push",
          "queue_pop", "queue_peek", "queue_size", "queue_is_empty", "range_new", "range_to_list",
          "range_length", "range_map", "range_filter", "iter_generic_next", "iter_map", "iter_filter",
          "iter_take", "iter_skip", "iter_enumerate", "iter_zip", "iter_map_next", "iter_filter_next",
          "iter_take_next", "iter_skip_next", "iter_enumerate_next", "iter_zip_next", "iter_count",
          "iter_sum", "iter_any", "iter_all", "iter_find", "iter_reduce", "list_collect", "map_collect",
          "map_collect_string_keys", "set_collect", "string_collect"}

RegisteredJson ==
    {"list_iter_new", "list_iter_next", "map_iter_new", "map_iter_next", "set_iter_new", "set_iter_next",
          "range_iter_new", "range_iter_next", "iter_from", "hash_int", "hash_float", "hash_string",
          "hash_bool", "hash_combine", "timer_sleep", "timer_send_after", "process_monitor",
          "process_demonitor", "tuple_first", "tuple_second", "tuple_nth", "tuple_size", "file_read",
          "file_write", "file_append", "file_exists", "file_delete", "env_get", "env_args",
          "env_get_with_default", "env_get_int", "regex_from_literal", "regex_compile", "regex_match",
          "regex_captures", "regex_replace", "regex_split", "json_get", "json_get_nested", "json_parse",
          "json_encode", "json_from_string", "json_from_int", "json_from_float", "json_from_bool",
          "json_encode_string", "json_encode_int", "json_encode_bool", "json_encode_list"}

RegisteredQueries ==
    {"json_encode_map", "orm_build_select", "orm_build_insert", "orm_build_update", "orm_build_delete",
          "query_from", "query_where", "query_where_op", "query_where_in", "query_where_null",
          "query_where_not_null", "query_where_not_in", "query_where_between", "query_where_or",
          "query_select", "query_order_by", "query_limit", "query_offset", "query_join", "query_join_as",
          "query_group_by", "query_having", "query_fragment", "query_select_count",
          "query_select_count_field", "query_select_sum", "query_select_avg", "query_select_min",
          "query_select_max", "query_select_raw", "query_where_raw", "query_order_by_raw",
          "query_group_by_raw", "query_where_sub", "repo_all", "repo_one", "repo_get", "repo_get_by",
          "repo_count", "repo_exists", "repo_insert", "repo_update", "repo_delete", "repo_transaction"}

RegisteredRepo ==
    {"repo_update_where", "repo_delete_where", "repo_query_raw", "repo_execute_raw",
          "repo_insert_or_update", "repo_delete_where_returning", "repo_preload", "repo_insert_changeset",
          "repo_update_changeset", "migration_create_table", "migration_drop_table",
          "migration_add_column", "migration_drop_column", "migration_rename_column",
          "migration_create_index", "migration_drop_index", "migration_execute", "pg_create_extension",
          "pg_create_range_partitioned_table", "pg_create_gin_index", "pg_create_daily_partitions_ahead",
          "pg_list_daily_partitions_before", "pg_drop_partition", "changeset_cast",
          "changeset_cast_with_types", "changeset_validate_required", "changeset_validate_length",
          "changeset_validate_format", "changeset_validate_inclusion", "changeset_validate_number",
          "changeset_valid", "changeset_errors", "changeset_changes"}

RegisteredHttp ==
    {"changeset_get_change", "changeset_get_error", "http_get", "http_post", "http_router", "http_route",
          "http_serve", "http_request_method", "http_request_path", "http_request_body",
          "http_request_header", "http_request_query", "http_response_new"}

Registered == RegisteredCore \cup RegisteredCollections \cup RegisteredJson \cup RegisteredQueries \cup RegisteredRepo \cup RegisteredHttp
=============================================================================
