------------------------------ MODULE RocTypes ------------------------------
(***************************************************************************)
(* The values that cross the boundary between compiled Roc code and the    *)
(* host, as the generated glue (roc_platform_abi.rs) lays them out, and    *)
(* the references its decref and incref functions walk.                    *)
(*                                                                         *)
(* A type is the set of the shapes its values can have. A shape is the     *)
(* tags that select it and the counted references a value of that shape    *)
(* owns, in the order of its fields; numbers, booleans and empty payloads  *)
(* own nothing. A release plan has the same form: the arms of the match in *)
(* decref (and incref). An empty arm releases nothing and is left out,     *)
(* unless the value is followed by others in a record.                     *)
(*                                                                         *)
(* The host calls the plans of its arguments. A result is released by the  *)
(* compiled Roc code it was returned to, along the same layout; the model  *)
(* has it do what the glue's decref of the type does, which is thereby     *)
(* checked to release every reference of every shape and no other.         *)
(***************************************************************************)
EXTENDS Sequences

Shape(path, holds) == [path |-> path, holds |-> holds]
Reference(leaf, of) == {Shape(<<>>, <<[leaf |-> leaf, of |-> of]>>)}

(* What a value can own: a string (inline when short), a list of plain     *)
(* elements, a boxed number that names a host resource, a boxed closure,   *)
(* and a list whose elements own references themselves. RocList is also    *)
(* release_with, which releases the elements by the plan it is given. What *)
(* a closure has captured is released by its own on_drop, compiled code    *)
(* that runs when the last reference goes; captures are left out, so a     *)
(* closure is one block.                                                   *)
Plain == {Shape(<<>>, <<>>)}
RocStr == Reference("str", {})
Bytes == Reference("bytes", {})
RocBox == Reference("box", {})
RocErasedCallable == Reference("callable", {})
RocList(elements) == Reference("list", elements)

Tag(name, payload) == {Shape(<<name>> \o a.path, a.holds) : a \in payload}
Tags(names) == UNION {Tag(name, Plain) : name \in names}
Both(first, second) ==
  {Shape(a.path \o b.path, a.holds \o b.holds) : a \in first, b \in second}

-----------------------------------------------------------------------------
(* The records and tag unions of the hosted functions' signatures. A       *)
(* record the glue names by a hash has the name the host gives it.         *)

RocTlsCert == Both(Both(RocStr, RocStr), RocStr)
IOErr ==
  Tags({"AddrInUse", "AddrNotAvailable", "AlreadyExists", "BrokenPipe", "Cancelled",
        "ConnectionAborted", "ConnectionRefused", "ConnectionReset", "Interrupted",
        "InvalidInput", "NotConnected", "NotFound", "PermissionDenied", "TimedOut",
        "TooManySockets", "UnexpectedEof", "Unsupported"})
    \cup Tag("Other", RocStr)
CopyToOutcome ==
  Tags({"Cancelled", "Done", "MessageTimedOut"}) \cup Tag("Read", IOErr)
    \cup Tag("Write", IOErr)
CopyToResult == CopyToOutcome
CopyOutcome ==
  Tags({"Cancelled", "Done", "TaskLimitReached"}) \cup Tag("ReadA", IOErr)
    \cup Tag("ReadB", IOErr) \cup Tag("WriteA", IOErr) \cup Tag("WriteB", IOErr)
CopyResult == CopyOutcome
RocRecvFrom == Both(Bytes, RocStr)
RocRecv == Bytes
RocCredentials == Plain
LogValue == Tags({"Bool", "F64", "I64", "U64"}) \cup Tag("Str", RocStr)
RocLogField == Both(LogValue, RocStr)
RocChannelEnds == Both(RocBox, RocBox)
HostStderrLineResult == Tags({"Ok"}) \cup Tag("Err", RocStr)
HostStdinLineResult == Tag("Err", RocStr) \cup Tag("Ok", RocStr)
HostIOErr ==
  Tags({"AddrInUse", "AddrNotAvailable", "AlreadyExists", "BrokenPipe", "Cancelled",
        "ConnectionAborted", "ConnectionRefused", "ConnectionReset", "Interrupted",
        "InvalidInput", "NotConnected", "NotFound", "PermissionDenied", "TimedOut",
        "TooManySockets", "UnexpectedEof", "Unsupported"})
    \cup Tag("Other", RocStr)
HostSignalCatchResult == Tags({"Ok"}) \cup Tag("Err", HostIOErr)
GotOrNotReady == Tags({"Got", "NotReady"})
CancelledOrGot == Tags({"Cancelled", "Got"})
EndOrFailedOrLineOrNotReadyOrTooLong ==
  Tags({"End", "NotReady", "TooLong"}) \cup Tag("Failed", RocStr) \cup Tag("Line", RocStr)
EndOrFailedOrLineOrTooLong ==
  Tags({"End", "TooLong"}) \cup Tag("Failed", RocStr) \cup Tag("Line", RocStr)
HostStdoutLineResult == Tags({"Ok"}) \cup Tag("Err", RocStr)
HostSocketAcceptResult == Tag("Err", IOErr) \cup Tag("Ok", RocBox)
HostSocketLocalAddrResult == Tag("Err", IOErr) \cup Tag("Ok", RocStr)
HostTlsPeerCertificatesResult == Tag("Err", IOErr) \cup Tag("Ok", RocList(Bytes))
HostFileExistsResult == Tags({"Ok"}) \cup Tag("Err", IOErr)
HostFileReadResult == Tag("Err", IOErr) \cup Tag("Ok", Bytes)
DataOrFailedOrNotReady ==
  Tags({"NotReady"}) \cup Tag("Data", Bytes) \cup Tag("Failed", IOErr)
AcceptedOrFailedOrNotReady ==
  Tags({"NotReady"}) \cup Tag("Accepted", RocBox) \cup Tag("Failed", IOErr)
CopyLimit == Tags({"Exactly", "UntilEnd"})
HostUdpRecvFromResult == Tag("Err", IOErr) \cup Tag("Ok", RocRecvFrom)
HostUdpRecvResult == Tag("Err", IOErr) \cup Tag("Ok", RocRecv)
HostSocketBufferSizeResult == Tags({"Ok"}) \cup Tag("Err", IOErr)
HostUnixPeerCredentialsResult == Tag("Err", IOErr) \cup Tag("Ok", RocCredentials)
HostDnsResolveResult == Tag("Err", IOErr) \cup Tag("Ok", RocList(RocStr))
FoundOrMissingOrNotUtf8 == Tags({"Missing", "NotUtf8"}) \cup Tag("Found", RocStr)
LowOrderOrShared == Tags({"LowOrder"}) \cup Tag("Shared", Bytes)
InvalidOrOpened == Tags({"Invalid"}) \cup Tag("Opened", Bytes)
BytesOrOutOfMemory == Tags({"OutOfMemory"}) \cup Tag("Bytes", Bytes)
HostChannelNewResult == Tags({"Err"}) \cup Tag("Ok", RocChannelEnds)
CancelledOrClosedOrFullOrSent == Tags({"Cancelled", "Closed", "Full", "Sent"})
CancelledOrClosedOrTimedOut == Tags({"Cancelled", "Closed", "TimedOut"})
HostChannelReceiveResult ==
  Tag("Err", CancelledOrClosedOrTimedOut) \cup Tag("Ok", RocErasedCallable)
Outcome == Tags({"Cancelled", "Ready", "SourceTimedOut", "TimedOut"})
Source ==
  Tags({"SignalCaught", "StdinLine"}) \cup Tag("Joinable", RocBox)
    \cup Tag("Readable", RocBox) \cup Tag("Receivable", RocBox) \cup Tag("Sendable", RocBox)
    \cup Tag("Writable", RocBox)
HostTaskSpawnResult == Tags({"Err"}) \cup Tag("Ok", RocBox)
HostTaskJoinResult == Tags({"Err"}) \cup Tag("Ok", RocErasedCallable)
HostGroupNewResult == Tags({"Err"}) \cup Tag("Ok", RocBox)

-----------------------------------------------------------------------------
(* What decref and incref of each type visit.                              *)

decref_list_of_str == RocList(RocStr)
decref_list_of_list_of_type41 == RocList(Bytes)
decref_RocTlsCert == Both(Both(RocStr, RocStr), RocStr)
decref_IOErr == Tag("Other", RocStr)
decref_CopyToOutcome == Tag("Read", decref_IOErr) \cup Tag("Write", decref_IOErr)
decref_CopyToResult == decref_CopyToOutcome
decref_CopyOutcome ==
  Tag("ReadA", decref_IOErr) \cup Tag("ReadB", decref_IOErr)
    \cup Tag("WriteA", decref_IOErr) \cup Tag("WriteB", decref_IOErr)
decref_CopyResult == decref_CopyOutcome
decref_RocRecvFrom == Both(Bytes, RocStr)
decref_RocRecv == Bytes
(* Four empty arms; the record's decref goes on to the name after them. *)
decref_LogValue == Tags({"Bool", "F64", "I64", "U64"}) \cup Tag("Str", RocStr)
decref_RocLogField == Both(decref_LogValue, RocStr)
decref_RocChannelEnds == Both(RocBox, RocBox)
decref_HostStderrLineResult == Tag("Err", RocStr)
decref_HostStdinLineResult == Tag("Err", RocStr) \cup Tag("Ok", RocStr)
decref_HostIOErr == Tag("Other", RocStr)
decref_HostSignalCatchResult == Tag("Err", decref_HostIOErr)
decref_EndOrFailedOrLineOrNotReadyOrTooLong ==
  Tag("Failed", RocStr) \cup Tag("Line", RocStr)
decref_EndOrFailedOrLineOrTooLong == Tag("Failed", RocStr) \cup Tag("Line", RocStr)
decref_HostStdoutLineResult == Tag("Err", RocStr)
decref_HostSocketAcceptResult == Tag("Err", decref_IOErr) \cup Tag("Ok", RocBox)
decref_HostSocketLocalAddrResult == Tag("Err", decref_IOErr) \cup Tag("Ok", RocStr)
decref_HostTlsPeerCertificatesResult ==
  Tag("Err", decref_IOErr) \cup Tag("Ok", decref_list_of_list_of_type41)
decref_HostFileExistsResult == Tag("Err", decref_IOErr)
decref_HostFileReadResult == Tag("Err", decref_IOErr) \cup Tag("Ok", Bytes)
decref_DataOrFailedOrNotReady == Tag("Data", Bytes) \cup Tag("Failed", decref_IOErr)
decref_AcceptedOrFailedOrNotReady ==
  Tag("Accepted", RocBox) \cup Tag("Failed", decref_IOErr)
decref_HostUdpRecvFromResult == Tag("Err", decref_IOErr) \cup Tag("Ok", decref_RocRecvFrom)
decref_HostUdpRecvResult == Tag("Err", decref_IOErr) \cup Tag("Ok", decref_RocRecv)
decref_HostSocketBufferSizeResult == Tag("Err", decref_IOErr)
decref_HostUnixPeerCredentialsResult == Tag("Err", decref_IOErr)
decref_HostDnsResolveResult == Tag("Err", decref_IOErr) \cup Tag("Ok", decref_list_of_str)
decref_FoundOrMissingOrNotUtf8 == Tag("Found", RocStr)
decref_LowOrderOrShared == Tag("Shared", Bytes)
decref_InvalidOrOpened == Tag("Opened", Bytes)
decref_BytesOrOutOfMemory == Tag("Bytes", Bytes)
decref_HostChannelNewResult == Tag("Ok", decref_RocChannelEnds)
decref_HostChannelReceiveResult == Tag("Ok", RocErasedCallable)
decref_Source ==
  Tag("Joinable", RocBox) \cup Tag("Readable", RocBox) \cup Tag("Receivable", RocBox)
    \cup Tag("Sendable", RocBox) \cup Tag("Writable", RocBox)
decref_HostTaskSpawnResult == Tag("Ok", RocBox)
decref_HostTaskJoinResult == Tag("Ok", RocErasedCallable)
decref_HostGroupNewResult == Tag("Ok", RocBox)
decref_list_of_tls_cert == RocList(decref_RocTlsCert)
decref_log_fields == RocList(decref_RocLogField)
decref_sources == RocList(decref_Source)
=============================================================================
