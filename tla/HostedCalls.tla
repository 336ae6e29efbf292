----------------------------- MODULE HostedCalls -----------------------------
(***************************************************************************)
(* The hosted functions: for each, the arguments it is given (every        *)
(* reference in them is the host's to release), what it gives back, and    *)
(* what it does with the references on each of its paths.                  *)
(*                                                                         *)
(* A path is the sequence of the steps that touch a reference: Use(S)      *)
(* reads the arguments S (their text, their bytes, the resource a handle   *)
(* names), Drop(i) releases argument i, Keep(i) moves it into a queue or   *)
(* a task that outlives the call, Fill(i, keep) puts received bytes into   *)
(* the list i and gives it back. Arguments have the positions of the       *)
(* source, from 1. Take and Share give back a closure the host stores.     *)
(* Functions whose arguments and results own nothing are left out; the     *)
(* argument list main hands to roc_main is here as a function of none.     *)
(***************************************************************************)
EXTENDS RocTypes

(* `as` is the plan a list's elements are released by. *)
Step(op, args, keep, as) == [op |-> op, args |-> args, keep |-> keep, as |-> as]
Use(args) == <<Step("use", args, FALSE, {})>>
Drop(i) == <<Step("drop", {i}, FALSE, {})>>
DropList(i, decref) == <<Step("drop", {i}, FALSE, decref)>>
Keep(i) == <<Step("keep", {i}, FALSE, {})>>
Fill(i, keep) == <<Step("fill", {i}, keep, {})>>
Take == <<Step("take", {}, FALSE, {})>>
Share == <<Step("share", {}, FALSE, {})>>

(* The wrappers the hosted functions are written with. *)
with_str(i, inner) == inner \o Drop(i)
take_str(i) == with_str(i, Use({i}))
take_path(i) == Use({i}) \o Drop(i)
take_strs(i) == Use({i}) \o DropList(i, decref_list_of_str)
take_certs(i) == Use({i}) \o DropList(i, decref_list_of_tls_cert)

(* Mutant: the handle is released before the work on its socket. *)
ReleaseThenWork(i, inner) == Drop(i) \o Use({i}) \o inner

with_socket(i, inner) == Use({i}) \o inner \o Use({i}) \o Drop(i)
with_end(i, inner) == Use({i}) \o inner \o Drop(i)
with_obj(i, inner) == Use({i}) \o inner \o Drop(i)
with_lists1(i) == Use({i}) \o Drop(i)
with_lists2(i, j) == Use({i, j}) \o Drop(i) \o Drop(j)
with_lists3(i, j, k) == Use({i, j, k}) \o Drop(i) \o Drop(j) \o Drop(k)

(* A function is its arguments' types, its paths (what each does and what  *)
(* it can return) and the plan its result is released by.                  *)
Path(does, gives) == [does |-> does, gives |-> gives]
Only(type, tags) == {s \in type : s.path # <<>> /\ Head(s.path) \in tags}
Hosted(takes, paths, decref) == [takes |-> takes, paths |-> paths, decref |-> decref]
Handed(takes, does, gives, decref) == Hosted(takes, {Path(does, gives)}, decref)

(* A function of one handle and plain arguments, through with_socket. *)
OnSocket(gives, decref) == Handed(<<RocBox>>, with_socket(1, <<>>), gives, decref)

-----------------------------------------------------------------------------
(* Standard streams, log, environment, random bytes (lib.rs, log.rs,       *)
(* files.rs, random.rs, signals.rs).                                       *)

roc_stderr_line ==
  Handed(<<RocStr>>, Use({1}) \o Drop(1), HostStderrLineResult, decref_HostStderrLineResult)
roc_stdout_line ==
  Handed(<<RocStr>>, Use({1}) \o Drop(1), HostStdoutLineResult, decref_HostStdoutLineResult)
roc_stdin_line == Handed(<<>>, <<>>, HostStdinLineResult, decref_HostStdinLineResult)
roc_stdin_read_line ==
  Handed(<<>>, <<>>, EndOrFailedOrLineOrTooLong, decref_EndOrFailedOrLineOrTooLong)
roc_stdin_try_line ==
  Handed(<<>>, <<>>, EndOrFailedOrLineOrNotReadyOrTooLong,
         decref_EndOrFailedOrLineOrNotReadyOrTooLong)
roc_log_write ==
  Handed(<<Plain, RocStr, RocList(RocLogField)>>,
         Use({2, 3}) \o Drop(2) \o DropList(3, decref_log_fields), Plain, {})
roc_signal_catch ==
  Handed(<<Bytes>>, Use({1}) \o Drop(1), HostSignalCatchResult, decref_HostSignalCatchResult)
roc_signal_try_next == Handed(<<>>, <<>>, GotOrNotReady, {})
roc_signal_next == Handed(<<>>, <<>>, CancelledOrGot, {})
roc_env_var ==
  Handed(<<RocStr>>, Use({1}) \o Drop(1), FoundOrMissingOrNotUtf8,
         decref_FoundOrMissingOrNotUtf8)
build_args_list == Handed(<<>>, <<>>, RocList(RocStr), decref_list_of_str)
roc_random_bytes ==
  Handed(<<Plain>>, <<>>, BytesOrOutOfMemory, decref_BytesOrOutOfMemory)

(* Files (files.rs). *)
roc_file_read ==
  Handed(<<RocStr>>, take_path(1), HostFileReadResult, decref_HostFileReadResult)
roc_file_write ==
  Handed(<<RocStr, Bytes, Plain, Plain>>, take_path(1) \o Use({2}) \o Drop(2),
         HostSignalCatchResult, decref_HostSignalCatchResult)
roc_file_rename ==
  Handed(<<RocStr, RocStr>>, take_path(1) \o take_path(2),
         HostSignalCatchResult, decref_HostSignalCatchResult)
roc_file_delete ==
  Handed(<<RocStr>>, take_path(1), HostSignalCatchResult, decref_HostSignalCatchResult)
roc_file_exists ==
  Handed(<<RocStr>>, take_path(1), HostFileExistsResult, decref_HostFileExistsResult)

(* Cryptography (crypto.rs). *)
roc_x25519_public_key == Handed(<<Bytes>>, with_lists1(1), Bytes, Bytes)
roc_x25519_shared ==
  Handed(<<Bytes, Bytes>>, with_lists2(1, 2), LowOrderOrShared, decref_LowOrderOrShared)
roc_aead_seal ==
  Handed(<<Plain, Bytes, Bytes, Bytes, Bytes>>,
         Use({2, 3, 4, 5}) \o Drop(2) \o Drop(3) \o Drop(4) \o Drop(5), Bytes, Bytes)
roc_aead_open ==
  Handed(<<Plain, Bytes, Bytes, Bytes, Bytes>>,
         Use({2, 3, 4, 5}) \o Drop(2) \o Drop(3) \o Drop(4) \o Drop(5),
         InvalidOrOpened, decref_InvalidOrOpened)
roc_ed25519_public_key == Handed(<<Bytes>>, with_lists1(1), Bytes, Bytes)
roc_ed25519_sign == Handed(<<Bytes, Bytes>>, with_lists2(1, 2), Bytes, Bytes)
roc_ed25519_verify == Handed(<<Bytes, Bytes, Bytes>>, with_lists3(1, 2, 3), Plain, {})
roc_constant_time_eq == Handed(<<Bytes, Bytes>>, with_lists2(1, 2), Plain, {})

-----------------------------------------------------------------------------
(* Tasks, scopes, channels and Select (tasks.rs, channels.rs, select.rs).  *)

(* The closure goes to the new task, or is released when there is no slot, *)
(* no handle or no stack for one.                                          *)
roc_task_spawn ==
  Hosted(<<RocErasedCallable>>,
         {Path(Keep(1), Only(HostTaskSpawnResult, {"Ok"})),
          Path(Drop(1), Only(HostTaskSpawnResult, {"Err"}))},
         decref_HostTaskSpawnResult)
(* Outside a task (never for Roc code) the result is released. *)
roc_task_finish ==
  Hosted(<<RocErasedCallable>>, {Path(Keep(1), Plain), Path(Drop(1), Plain)}, {})
roc_task_join ==
  Hosted(<<RocBox>>,
         {Path(with_obj(1, Share), Only(HostTaskJoinResult, {"Ok"})),
          Path(with_obj(1, <<>>), Only(HostTaskJoinResult, {"Err"}))},
         decref_HostTaskJoinResult)
roc_task_cancel == Handed(<<RocBox>>, with_obj(1, <<>>), Plain, {})
roc_task_is_finished == Handed(<<RocBox>>, with_obj(1, <<>>), Plain, {})
roc_group_new == Handed(<<>>, <<>>, HostGroupNewResult, decref_HostGroupNewResult)
roc_group_add ==
  Handed(<<RocBox, RocBox>>, with_obj(2, <<>>) \o with_obj(1, <<>>), Plain, {})
roc_group_cancel == Handed(<<RocBox>>, with_obj(1, <<>>), Plain, {})
roc_group_close == Handed(<<RocBox, Plain>>, with_obj(1, <<>>), Plain, {})
roc_channel_new ==
  Handed(<<Plain>>, <<>>, HostChannelNewResult, decref_HostChannelNewResult)
roc_channel_send ==
  Hosted(<<RocBox, RocErasedCallable, Plain>>,
         {Path(with_end(1, Keep(2)), Only(CancelledOrClosedOrFullOrSent, {"Sent"})),
          Path(with_end(1, Drop(2)),
               Only(CancelledOrClosedOrFullOrSent, {"Cancelled", "Closed", "Full"}))},
         {})
roc_channel_receive ==
  Hosted(<<RocBox, Plain>>,
         {Path(with_end(1, Take), Only(HostChannelReceiveResult, {"Ok"})),
          Path(with_end(1, <<>>), Only(HostChannelReceiveResult, {"Err"}))},
         decref_HostChannelReceiveResult)
roc_channel_close == Handed(<<RocBox>>, with_end(1, <<>>), Plain, {})
(* The sources are read again when the watchers are taken out. *)
roc_select_wait ==
  Handed(<<RocList(Source), Plain>>,
         Use({1}) \o Use({1}) \o DropList(1, decref_sources), Outcome, {})

-----------------------------------------------------------------------------
(* Sockets (net.rs, sockopts.rs).                                          *)

roc_tcp_listen ==
  Handed(<<RocStr>>, with_str(1, Use({1})), HostSocketAcceptResult, decref_HostSocketAcceptResult)
roc_tcp_connect ==
  Handed(<<RocStr, Plain, RocStr, RocStr>>,
         with_str(3, with_str(4, Use({3, 4}))) \o with_str(1, Use({1})),
         HostSocketAcceptResult, decref_HostSocketAcceptResult)
roc_unix_listen ==
  Handed(<<RocStr>>, with_str(1, Use({1})), HostSocketAcceptResult, decref_HostSocketAcceptResult)
roc_unix_connect ==
  Handed(<<RocStr>>, with_str(1, Use({1})), HostSocketAcceptResult, decref_HostSocketAcceptResult)
roc_udp_bind ==
  Handed(<<RocStr>>, with_str(1, Use({1})), HostSocketAcceptResult, decref_HostSocketAcceptResult)
roc_listener_close == OnSocket(HostSignalCatchResult, decref_HostSignalCatchResult)
roc_socket_accept == OnSocket(HostSocketAcceptResult, decref_HostSocketAcceptResult)
roc_socket_try_accept == OnSocket(AcceptedOrFailedOrNotReady, decref_AcceptedOrFailedOrNotReady)
roc_socket_try_read == OnSocket(DataOrFailedOrNotReady, decref_DataOrFailedOrNotReady)
roc_socket_read == OnSocket(HostFileReadResult, decref_HostFileReadResult)

(* The list is moved into the result when something was read; after an     *)
(* error it is still the function's, and released after the handle.        *)
read_to_list(keep) ==
  Hosted(<<RocBox, Bytes, Plain>>,
         {Path(with_socket(1, Fill(2, keep)), Only(HostFileReadResult, {"Ok"})),
          Path(with_socket(1, <<>>) \o Drop(2), Only(HostFileReadResult, {"Err"}))},
         decref_HostFileReadResult)
roc_socket_read_into == read_to_list(FALSE)
roc_socket_read_append == read_to_list(TRUE)
roc_socket_write ==
  Handed(<<RocBox, Bytes>>, with_socket(1, Use({2})) \o Drop(2),
         HostSignalCatchResult, decref_HostSignalCatchResult)
roc_socket_shutdown == OnSocket(HostSignalCatchResult, decref_HostSignalCatchResult)
roc_stream_copy_both ==
  Handed(<<RocBox, RocBox>>, with_socket(1, with_socket(2, <<>>)), CopyResult, decref_CopyResult)
roc_stream_copy_to ==
  Handed(<<RocBox, RocBox, Bytes, CopyLimit>>,
         with_socket(1, with_socket(2, Use({3}))) \o Drop(3), CopyToResult, decref_CopyToResult)
roc_socket_abort == OnSocket(Plain, {})
roc_socket_set_timeout == OnSocket(HostSignalCatchResult, decref_HostSignalCatchResult)
roc_socket_local_addr == OnSocket(HostSocketLocalAddrResult, decref_HostSocketLocalAddrResult)
roc_socket_peer_addr == OnSocket(HostSocketLocalAddrResult, decref_HostSocketLocalAddrResult)
roc_tcp_set_nodelay == OnSocket(HostSignalCatchResult, decref_HostSignalCatchResult)
roc_socket_set_keepalive == OnSocket(HostSignalCatchResult, decref_HostSignalCatchResult)
roc_socket_set_buffer_size == OnSocket(HostSignalCatchResult, decref_HostSignalCatchResult)
roc_socket_buffer_size == OnSocket(HostSocketBufferSizeResult, decref_HostSocketBufferSizeResult)
roc_unix_peer_credentials ==
  OnSocket(HostUnixPeerCredentialsResult, decref_HostUnixPeerCredentialsResult)

(* A datagram socket and an address or a group. *)
OnUdp == Handed(<<RocBox, RocStr>>, with_str(2, with_socket(1, Use({2}))),
                HostSignalCatchResult, decref_HostSignalCatchResult)
roc_udp_connect == OnUdp
roc_udp_join_multicast == OnUdp
roc_udp_leave_multicast == OnUdp
roc_udp_send_to ==
  Handed(<<RocBox, Bytes, RocStr>>, with_str(3, with_socket(1, Use({2, 3}))) \o Drop(2),
         HostSignalCatchResult, decref_HostSignalCatchResult)
roc_udp_recv_from == OnSocket(HostUdpRecvFromResult, decref_HostUdpRecvFromResult)
roc_udp_recv == OnSocket(HostUdpRecvResult, decref_HostUdpRecvResult)
roc_udp_set_broadcast == OnSocket(HostSignalCatchResult, decref_HostSignalCatchResult)
roc_dns_resolve ==
  Handed(<<RocStr>>, with_str(1, Use({1})), HostDnsResolveResult, decref_HostDnsResolveResult)

(* TLS and Noise (net.rs). *)
roc_tls_connect ==
  Handed(<<RocStr, RocStr, RocStr, RocList(RocStr), Plain, RocStr, RocStr>>,
         take_strs(4) \o take_str(6) \o take_str(7)
           \o with_str(1, with_str(2, with_str(3, Use({1, 2, 3})))),
         HostSocketAcceptResult, decref_HostSocketAcceptResult)
roc_tls_listen ==
  Handed(<<RocStr, RocList(RocTlsCert), RocList(RocStr), Plain, Plain, Plain, RocStr>>,
         take_certs(2) \o take_strs(3) \o take_str(7) \o with_str(1, Use({1})),
         HostSocketAcceptResult, decref_HostSocketAcceptResult)
roc_tls_wrap_client ==
  Handed(<<RocBox, RocStr, RocStr, RocList(RocStr), Plain, RocStr, RocStr>>,
         take_strs(4) \o take_str(6) \o take_str(7)
           \o with_str(2, with_str(3, with_socket(1, Use({2, 3})))),
         HostSocketAcceptResult, decref_HostSocketAcceptResult)
roc_tls_wrap_server ==
  Handed(<<RocBox, RocList(RocTlsCert), RocList(RocStr), Plain, RocStr>>,
         take_certs(2) \o take_strs(3) \o take_str(5) \o with_socket(1, <<>>),
         HostSocketAcceptResult, decref_HostSocketAcceptResult)
roc_tls_handshake == OnSocket(HostSignalCatchResult, decref_HostSignalCatchResult)
roc_tls_server_name == OnSocket(HostSocketLocalAddrResult, decref_HostSocketLocalAddrResult)
roc_tls_peer_certificates ==
  OnSocket(HostTlsPeerCertificatesResult, decref_HostTlsPeerCertificatesResult)
roc_tls_peer_certificate_valid_for ==
  Handed(<<RocBox, RocStr>>, with_str(2, with_socket(1, Use({2}))),
         HostFileExistsResult, decref_HostFileExistsResult)
roc_tls_alpn_protocol == OnSocket(HostSocketLocalAddrResult, decref_HostSocketLocalAddrResult)
roc_noise_wrap ==
  Handed(<<RocBox, Plain, Bytes, Plain, Bytes>>,
         with_socket(1, Use({3, 5})) \o Drop(3) \o Drop(5),
         HostSocketAcceptResult, decref_HostSocketAcceptResult)
roc_tls_ignore_unexpected_eof == OnSocket(HostSignalCatchResult, decref_HostSignalCatchResult)

-----------------------------------------------------------------------------
HostedFunctions ==
  {roc_stderr_line, roc_stdout_line, roc_stdin_line, roc_stdin_read_line, roc_stdin_try_line,
   roc_log_write, roc_signal_catch, roc_signal_try_next, roc_signal_next, roc_env_var,
   build_args_list, roc_random_bytes, roc_file_read, roc_file_write, roc_file_rename, roc_file_delete,
   roc_file_exists, roc_x25519_public_key, roc_x25519_shared, roc_aead_seal, roc_aead_open,
   roc_ed25519_public_key, roc_ed25519_sign, roc_ed25519_verify, roc_constant_time_eq,
   roc_task_spawn, roc_task_finish, roc_task_join, roc_task_cancel, roc_task_is_finished,
   roc_group_new, roc_group_add, roc_group_cancel, roc_group_close, roc_channel_new,
   roc_channel_send, roc_channel_receive, roc_channel_close, roc_select_wait,
   roc_tcp_listen, roc_tcp_connect, roc_unix_listen, roc_unix_connect, roc_udp_bind,
   roc_listener_close, roc_socket_accept, roc_socket_try_accept, roc_socket_try_read,
   roc_socket_read, roc_socket_read_into, roc_socket_read_append, roc_socket_write,
   roc_socket_shutdown, roc_stream_copy_both, roc_stream_copy_to, roc_socket_abort,
   roc_socket_set_timeout, roc_socket_local_addr, roc_socket_peer_addr, roc_tcp_set_nodelay,
   roc_socket_set_keepalive, roc_socket_set_buffer_size, roc_socket_buffer_size,
   roc_unix_peer_credentials, roc_udp_connect, roc_udp_join_multicast,
   roc_udp_leave_multicast, roc_udp_send_to, roc_udp_recv_from, roc_udp_recv,
   roc_udp_set_broadcast, roc_dns_resolve, roc_tls_connect, roc_tls_listen,
   roc_tls_wrap_client, roc_tls_wrap_server, roc_tls_handshake, roc_tls_server_name,
   roc_tls_peer_certificates, roc_tls_peer_certificate_valid_for, roc_tls_alpn_protocol,
   roc_noise_wrap, roc_tls_ignore_unexpected_eof}
=============================================================================
