------------------------------ MODULE Nl80211 ------------------------------
(***************************************************************************)
(* The netlink exchanges of lib/usb/nl80211.c between one process and the   *)
(* kernel: a call resolves the nl80211 family id, which is cached for the   *)
(* life of the process, sends one request on a new socket and waits for the *)
(* answer, in nl80211_do_query for the getters and in nl80211_do_ack for    *)
(* the setters.  cfg80211 may be unloaded and loaded again meanwhile.       *)
(***************************************************************************)
EXTENDS Integers, Sequences

CONSTANTS
  MaxCalls,    \* bound: calls the process makes
  MaxReload    \* bound: times cfg80211 is unloaded

ASSUME Nl80211Assumption == MaxCalls \in Nat /\ MaxReload \in Nat

Getters == {"get_regdomain", "get_txpower"}
Setters == {"set_regdomain", "set_txpower", "set_power_save"}

GENL_ID_CTRL == 16
None == [to |-> 0, cmd |-> "none"]

VARIABLES
  family,    \* the id of the nl80211 family, 0 while cfg80211 is not loaded
  unloads,   \* how often cfg80211 has been unloaded
  cached,    \* family_id_cached
  since,     \* history: unloads when the kernel gave the cached id
  pc,        \* "idle", or where the process is in its call
  call,      \* the call it makes
  calls,     \* calls made so far
  req,       \* the request the kernel has not looked at yet
  inbox,     \* the answers on the socket of the current exchange
  applied,   \* history: the kernel has carried out the set of this call
  result     \* what the last call returned: "ok" or an errno

kernel == <<family, unloads>>
vars == <<family, unloads, cached, since, pc, call, calls, req, inbox, applied, result>>

Init ==
  /\ family \in {0, GENL_ID_CTRL + 1}
  /\ unloads = 0
  /\ cached = -1
  /\ since = 0
  /\ pc = "idle"
  /\ call \in Getters
  /\ calls = 0
  /\ req = None
  /\ inbox = <<>>
  /\ applied = FALSE
  /\ result = "none"

-----------------------------------------------------------------------------
Return(r) == pc' = "idle" /\ result' = r

(* The entry of the public functions and of nl80211_get_family_id. *)
Call(c) ==
  /\ pc = "idle"
  /\ calls < MaxCalls
  /\ calls' = calls + 1
  /\ call' = c
  /\ pc' = IF cached >= 0 THEN "send" ELSE "resolve"
  /\ applied' = FALSE
  /\ result' = "none"
  /\ UNCHANGED <<kernel, cached, since, req, inbox>>

(* A request goes out on a new socket, so earlier answers are gone. *)
SendOn(to, cmd, next) ==
  /\ req' = [to |-> to, cmd |-> cmd]
  /\ inbox' = <<>>
  /\ pc' = next
  /\ UNCHANGED <<kernel, cached, since, call, calls, applied, result>>

SendGetFamily == pc = "resolve" /\ SendOn(GENL_ID_CTRL, "getfamily", "resolving")

(* None of the builders sets NLM_F_ACK. *)
Send ==
  /\ pc = "send"
  /\ SendOn(cached, call, IF call \in Setters THEN "ack" ELSE "query")

(* socket, bind or sendto fails. *)
SendFails ==
  /\ pc \in {"resolve", "send"}
  /\ Return("sendto")
  /\ UNCHANGED <<kernel, cached, since, call, calls, req, inbox, applied>>

(* nl80211_recv_all fails, for want of memory or because recvfrom does; the *)
(* kernel has handled the request by then.                                  *)
RecvFails ==
  /\ pc \in {"resolving", "ack", "query"} /\ req = None
  /\ Return("recvfrom")
  /\ UNCHANGED <<kernel, cached, since, call, calls, req, inbox, applied>>

(* nl80211__parse_ack: the kernel's codes are negative, and every one of    *)
(* them comes out as EINVAL.                                                *)
parse_ack(code) == IF code > 0 THEN "errno" ELSE "EINVAL"

(* The answer to CTRL_CMD_GETFAMILY. *)
RecvFamily_type ==
  /\ pc = "resolving" /\ inbox # <<>>
  /\ \/ Head(inbox).kind = "error" /\ Return(parse_ack(Head(inbox).code))
        /\ UNCHANGED <<cached, since>>
     \/ /\ Head(inbox).kind = "family"
        /\ cached' = GENL_ID_CTRL /\ since' = Head(inbox).at
        /\ pc' = "send" /\ UNCHANGED result
  /\ UNCHANGED <<kernel, call, calls, req, inbox, applied>>

RecvFamily ==
  /\ pc = "resolving" /\ inbox # <<>>
  /\ \/ /\ Head(inbox).kind = "error"
        /\ Return(parse_ack(Head(inbox).code))
        /\ UNCHANGED <<cached, since>>
     \/ /\ Head(inbox).kind = "family"
        /\ cached' = Head(inbox).id /\ since' = Head(inbox).at
        /\ pc' = "send"
        /\ UNCHANGED result
  /\ UNCHANGED <<kernel, call, calls, req, inbox, applied>>

(* nl80211_do_ack reads once.  An error code of 0 is the acknowledgement,   *)
(* any other one fails; an answer that is no error message fails with EIO.  *)
AckResult(m) ==
  CASE m.kind = "error" /\ m.code = 0 -> "ok"
    [] m.kind = "error" /\ m.code # 0 -> parse_ack(m.code)
    [] OTHER                          -> "EIO"

RecvAck_dontwait ==
  /\ pc = "ack"
  /\ Return(IF inbox = <<>> THEN "EAGAIN" ELSE AckResult(Head(inbox)))
  /\ UNCHANGED <<kernel, cached, since, call, calls, req, inbox, applied>>

RecvAck_again ==
  /\ pc = "ack" /\ inbox # <<>>
  /\ \/ AckResult(Head(inbox)) = "ok" /\ Return("ok")
     \/ AckResult(Head(inbox)) # "ok" /\ UNCHANGED <<pc, result>>
  /\ inbox' = Tail(inbox)
  /\ UNCHANGED <<kernel, cached, since, call, calls, req, applied>>

RecvAck ==
  /\ pc = "ack" /\ inbox # <<>>
  /\ Return(AckResult(Head(inbox)))
  /\ UNCHANGED <<kernel, cached, since, call, calls, req, inbox, applied>>

(* nl80211_do_query reads until the callback finds its attribute, the       *)
(* answer ends (NLMSG_DONE, or an error code of 0), or a message is not     *)
(* part of a multipart answer.                                              *)
QueryResult_nomulti(m) ==
  CASE m.kind = "error"           -> parse_ack(m.code)
    [] m.kind = "done"            -> "ENOENT"
    [] m.kind = "data" /\ m.attr  -> "ok"
    [] OTHER                      -> "more"

QueryResult(m) ==
  CASE m.kind = "error" /\ m.code # 0           -> parse_ack(m.code)
    [] m.kind = "data" /\ m.attr                -> "ok"
    [] m.kind = "data" /\ ~m.attr /\ m.multi    -> "more"
    [] OTHER                                    -> "ENOENT"

RecvQuery ==
  /\ pc = "query" /\ inbox # <<>>
  /\ \/ QueryResult(Head(inbox)) = "more" /\ UNCHANGED <<pc, result>>
     \/ QueryResult(Head(inbox)) # "more" /\ Return(QueryResult(Head(inbox)))
  /\ inbox' = Tail(inbox)
  /\ UNCHANGED <<kernel, cached, since, call, calls, req, applied>>

-----------------------------------------------------------------------------
(* External, the kernel's side. *)
Error(code) == [kind |-> "error", code |-> code]
Family == [kind |-> "family", id |-> family, at |-> unloads]
Data(attr, multi) == [kind |-> "data", attr |-> attr, multi |-> multi]
ENOENT == -2
EPERM == -1

Answer(ms) == inbox' = inbox \o ms /\ req' = None

(* A getter's answer: one message, or several and NLMSG_DONE. *)
Answers ==
  {<<Data(a, FALSE)>> : a \in BOOLEAN} \cup
  {<<Data(a[1], TRUE), Data(a[2], TRUE), [kind |-> "done"]>> : a \in BOOLEAN \X BOOLEAN}

(* The kernel handles a request.  A request without NLM_F_ACK is answered   *)
(* only if it has data to return or fails.                                  *)
KernelHandles ==
  /\ req # None
  /\ \/ /\ req.to = GENL_ID_CTRL
        /\ Answer(IF req.cmd = "getfamily" /\ family # 0
                  THEN <<Family>> ELSE <<Error(ENOENT)>>)
        /\ UNCHANGED applied
     \/ /\ req.to \notin {GENL_ID_CTRL, family}
        /\ Answer(<<Error(ENOENT)>>)
        /\ UNCHANGED applied
     \/ /\ req.to = family
        /\ Answer(<<Error(EPERM)>>)
        /\ UNCHANGED applied
     \/ /\ req.to = family /\ req.cmd \in Getters
        /\ \E ms \in Answers : Answer(ms)
        /\ UNCHANGED applied
     \/ /\ req.to = family /\ req.cmd \in Setters
        /\ Answer(<<>>)
        /\ applied' = TRUE
  /\ UNCHANGED <<kernel, cached, since, pc, call, calls, result>>

(* cfg80211 goes; when it comes back its family has another id. *)
Unload ==
  /\ family # 0 /\ unloads < MaxReload
  /\ family' = 0 /\ unloads' = unloads + 1
  /\ UNCHANGED <<cached, since, pc, call, calls, req, inbox, applied, result>>

Load ==
  /\ family = 0
  /\ family' = GENL_ID_CTRL + 1 + unloads
  /\ UNCHANGED <<unloads, cached, since, pc, call, calls, req, inbox, applied, result>>

Process == SendGetFamily \/ RecvFamily \/ Send \/ RecvAck \/ RecvQuery

Next ==
  \/ \E c \in Getters \cup Setters : Call(c)
  \/ Process \/ SendFails \/ RecvFails
  \/ KernelHandles
  \/ Unload \/ Load

(* The process runs, and the kernel handles what it is sent: netlink does   *)
(* so before sendto returns.  Nobody has to load cfg80211.                  *)
Spec == Init /\ [][Next]_vars /\ WF_vars(Process) /\ WF_vars(KernelHandles)

-----------------------------------------------------------------------------
(* Every getter returns: nl80211_do_query is never left waiting for a       *)
(* message that the kernel does not send.                                   *)
QueriesReturn ==
  \A c \in Getters : (pc # "idle" /\ call = c) ~> (pc = "idle")

(* A setter that is left waiting has been carried out: the kernel answers   *)
(* only what it refuses.                                                    *)
HungMeansApplied == pc = "ack" /\ req = None /\ inbox = <<>> => applied

(* A setter that returns an error has changed nothing, unless it is the     *)
(* reading of the answer that failed.                                       *)
FailureMeansNotApplied ==
  pc = "idle" /\ result \notin {"none", "ok", "recvfrom"} => ~applied

(* The cached family id is wrong only if cfg80211 was unloaded after    *)
(* the kernel gave it: without that, a request is never sent to a family    *)
(* that is not nl80211's.                                                   *)
StaleOnlyAfterUnload ==
  req # None /\ req.cmd \in Getters \cup Setters /\ since = unloads =>
    req.to = family

(* The comment of nl80211_do_ack: "wait for the single ack reply".  A       *)
(* setter returns.                                                          *)
SettersReturn ==
  \A c \in Setters : (pc # "idle" /\ call = c) ~> (pc = "idle")

-----------------------------------------------------------------------------
Message ==
  [kind : {"error"}, code : Int] \cup [kind : {"family"}, id : Int, at : Nat] \cup
  [kind : {"data"}, attr : BOOLEAN, multi : BOOLEAN] \cup [kind : {"done"}]

(* The state is well formed. *)
TypeOK ==
  /\ family \in Nat /\ unloads \in 0..MaxReload
  /\ cached \in Int /\ since \in Nat
  /\ pc \in {"idle", "resolve", "resolving", "send", "ack", "query"}
  /\ call \in Getters \cup Setters /\ calls \in 0..MaxCalls
  /\ req \in {None} \cup [to : Int, cmd : {"getfamily"} \cup Getters \cup Setters]
  /\ inbox \in Seq(Message)
  /\ applied \in BOOLEAN
  /\ result \in {"none", "ok", "sendto", "recvfrom", "errno", "EINVAL", "EIO", "ENOENT"}

(* A request that the kernel has not looked at is the one that the process  *)
(* waits for, and nothing has come back for it.                             *)
OneExchange ==
  /\ pc = "send" => cached # -1
  /\ pc = "ack" => call \in Setters
  /\ pc = "query" => call \in Getters
  /\ req # None =>
       /\ inbox = <<>>
       /\ \/ pc = "resolving" /\ req = [to |-> GENL_ID_CTRL, cmd |-> "getfamily"]
          \/ pc \in {"ack", "query"} /\ req = [to |-> cached, cmd |-> call] /\ cached # -1

(* What the kernel has carried out is not answered: the setter waits, or    *)
(* has failed to read.                                                      *)
AppliedUnanswered ==
  applied => \/ pc = "ack" /\ req = None /\ inbox = <<>>
             \/ pc = "idle" /\ result = "recvfrom"

(* An id that the kernel gave after so many unloads is the family's until   *)
(* the next.                                                                *)
GoodId(id, at) == id > GENL_ID_CTRL /\ at \in 0..unloads /\ (at = unloads => family = id)

IdsHold ==
  /\ family \in {0, GENL_ID_CTRL + 1 + unloads}
  /\ cached # -1 => GoodId(cached, since)
  /\ pc = "resolving" /\ inbox # <<>> /\ Head(inbox).kind = "family"
       => GoodId(Head(inbox).id, Head(inbox).at)

(* The inductive invariant of the proofs. *)
IInv == TypeOK /\ OneExchange /\ AppliedUnanswered /\ IdsHold /\ HungMeansApplied
=============================================================================
