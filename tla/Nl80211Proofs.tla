--------------------------- MODULE Nl80211Proofs ---------------------------
(***************************************************************************)
(* Proofs about Nl80211 for any number of calls and of unloads of cfg80211. *)
(***************************************************************************)
EXTENDS Nl80211, TLAPS

(* Every initial state satisfies the inductive invariant. *)
LEMMA InitIInv == Init => IInv
<1> SUFFICES ASSUME Init PROVE IInv
  OBVIOUS
<1>1. TypeOK
  <2>1. inbox \in Seq(Message)
    BY DEF Init
  <2>2. call \in Getters \cup Setters /\ applied \in BOOLEAN
    BY DEF Init
  <2> QED BY <2>1, <2>2, Nl80211Assumption DEF Init, TypeOK, GENL_ID_CTRL
<1>2. OneExchange /\ AppliedUnanswered /\ IdsHold /\ HungMeansApplied
  BY DEF Init, OneExchange, AppliedUnanswered, IdsHold, HungMeansApplied, GENL_ID_CTRL
<1> QED BY <1>1, <1>2 DEF IInv

(* What the kernel puts on the socket is a message. *)
LEMMA AnswersTyped ==
  ASSUME TypeOK
  PROVE  /\ \A code \in Int : Error(code) \in Message
         /\ Family \in Message
         /\ Answers \subseteq Seq(Message)
         /\ \A ms \in Answers : ms # <<>>
<1>1. \A code \in Int : Error(code) \in Message
  BY DEF Error, Message
<1>2. Family \in Message
  BY Nl80211Assumption DEF TypeOK, Family, Message
<1>3. \A a, m \in BOOLEAN : Data(a, m) \in Message
  BY Zenon DEF Data, Message
<1>4. [kind |-> "done"] \in Message
  BY DEF Message
<1>5. ASSUME NEW ms \in Answers PROVE ms \in Seq(Message) /\ ms # <<>>
  <2>1. CASE ms \in {<<Data(a, FALSE)>> : a \in BOOLEAN}
    <3>1. PICK a \in BOOLEAN : ms = <<Data(a, FALSE)>>
      BY <2>1
    <3>2. PICK m \in Message : ms = <<m>>
      BY <1>3, <3>1, Zenon
    <3> QED BY <3>2
  <2>2. CASE ms \in {<<Data(a[1], TRUE), Data(a[2], TRUE), [kind |-> "done"]>> :
                       a \in BOOLEAN \X BOOLEAN}
    <3>1. PICK a, b \in BOOLEAN : ms = <<Data(a, TRUE), Data(b, TRUE), [kind |-> "done"]>>
      BY <2>2
    <3>2. PICK l, m, n \in Message : ms = <<l, m, n>>
      BY <1>3, <1>4, <3>1, Zenon
    <3> QED BY <3>2
  <2> QED BY <2>1, <2>2 DEF Answers
<1> QED BY <1>1, <1>2, <1>5

(* The type of every variable is preserved by every step. *)
LEMMA NextTypeOK == TypeOK /\ [Next]_vars => TypeOK'
<1> SUFFICES ASSUME TypeOK, [Next]_vars PROVE TypeOK'
  OBVIOUS
<1> USE Nl80211Assumption DEF TypeOK, kernel, Return, GENL_ID_CTRL
<1>1. ASSUME NEW c \in Getters \cup Setters, Call(c) PROVE TypeOK'
  <2>1. calls' \in 0..MaxCalls /\ call' \in Getters \cup Setters
    BY <1>1 DEF Call
  <2>2. pc' \in {"resolve", "send"} /\ applied' \in BOOLEAN
    BY <1>1 DEF Call
  <2> QED BY <1>1, <2>1, <2>2 DEF Call
<1>2. CASE SendGetFamily
  BY <1>2 DEF SendGetFamily, SendOn
<1>3. CASE Send
  BY <1>3 DEF Send, SendOn
<1>4. CASE SendFails
  BY <1>4 DEF SendFails
<1>5. CASE RecvFails
  BY <1>5 DEF RecvFails
<1>6. CASE RecvFamily
  <2>1. Head(inbox) \in Message
    BY <1>6 DEF RecvFamily
  <2>2. Head(inbox).kind = "family" => Head(inbox).id \in Int /\ Head(inbox).at \in Nat
    BY <2>1 DEF Message
  <2> QED BY <1>6, <2>2 DEF RecvFamily, parse_ack
<1>7. CASE RecvAck
  BY <1>7 DEF RecvAck, AckResult, parse_ack
<1>8. CASE RecvQuery
  BY <1>8 DEF RecvQuery, QueryResult, parse_ack
<1>9. CASE KernelHandles
  <2>1. ASSUME NEW ms \in Seq(Message), Answer(ms) PROVE inbox' \in Seq(Message) /\ req' = None
    BY <2>1 DEF Answer
  <2>2. <<Family>> \in Seq(Message) /\ <<Error(ENOENT)>> \in Seq(Message)
        /\ <<Error(EPERM)>> \in Seq(Message) /\ <<>> \in Seq(Message)
    BY AnswersTyped DEF ENOENT, EPERM
  <2>3. inbox' \in Seq(Message) /\ req' = None
    BY <1>9, <2>1, <2>2, AnswersTyped DEF KernelHandles
  <2> QED BY <1>9, <2>3 DEF KernelHandles
<1>10. CASE Unload
  BY <1>10 DEF Unload
<1>11. CASE Load
  BY <1>11 DEF Load
<1>12. CASE UNCHANGED vars
  BY <1>12 DEF vars
<1> QED
  BY <1>1, <1>2, <1>3, <1>4, <1>5, <1>6, <1>7, <1>8, <1>9, <1>10, <1>11, <1>12
  DEF Next, Process

(* Every step preserves the inductive invariant. *)
LEMMA NextIInv == IInv /\ [Next]_vars => IInv'
<1> SUFFICES ASSUME IInv, [Next]_vars PROVE IInv'
  OBVIOUS
<1>0. TypeOK /\ TypeOK'
  BY NextTypeOK DEF IInv
<1> DEFINE Inv == OneExchange /\ AppliedUnanswered /\ IdsHold /\ HungMeansApplied
<1> USE <1>0, Nl80211Assumption
    DEF IInv, TypeOK, OneExchange, AppliedUnanswered, IdsHold, GoodId, HungMeansApplied,
        kernel, Return, GENL_ID_CTRL
<1>1. ASSUME NEW c \in Getters \cup Setters, Call(c) PROVE Inv'
  BY <1>1 DEF Call
<1>2. ASSUME SendGetFamily PROVE Inv'
  BY <1>2 DEF SendGetFamily, SendOn, None
<1>3. ASSUME Send PROVE Inv'
  BY <1>3 DEF Send, SendOn, None
<1>4. ASSUME SendFails PROVE Inv'
  BY <1>4 DEF SendFails
<1>5. ASSUME RecvFails PROVE Inv'
  BY <1>5 DEF RecvFails
<1>6. ASSUME RecvFamily PROVE Inv'
  BY <1>6 DEF RecvFamily
<1>7. ASSUME RecvAck PROVE Inv'
  BY <1>7 DEF RecvAck
<1>8. ASSUME RecvQuery PROVE Inv'
  BY <1>8 DEF RecvQuery
<1>9. ASSUME KernelHandles PROVE Inv'
  <2>1. /\ req # None /\ inbox = <<>> /\ ~applied
        /\ UNCHANGED <<family, unloads, cached, since, pc, call, calls, result>>
    BY <1>9 DEF KernelHandles
  <2>2. ASSUME NEW ms \in Seq(Message), Answer(ms) PROVE inbox' = ms /\ req' = None
    BY <2>1, <2>2 DEF Answer
  <2>a. /\ <<Family>> \in Seq(Message) /\ <<Error(ENOENT)>> \in Seq(Message)
        /\ <<Error(EPERM)>> \in Seq(Message) /\ <<>> \in Seq(Message)
        /\ \A ms \in Answers : ms \in Seq(Message) /\ ms # <<>>
    BY AnswersTyped DEF ENOENT, EPERM
  <2>3. CASE pc = "resolving"
    <3>1. req.to = GENL_ID_CTRL /\ req.cmd = "getfamily" /\ req.to # family
      BY <2>1, <2>3
    <3>2. Answer(IF family # 0 THEN <<Family>> ELSE <<Error(ENOENT)>>) /\ UNCHANGED applied
      BY <1>9, <3>1 DEF KernelHandles, Getters, Setters
    <3>3. inbox' = (IF family # 0 THEN <<Family>> ELSE <<Error(ENOENT)>>) /\ req' = None
      BY <2>2, <2>a, <3>2
    <3>4. IdsHold'
      BY <2>1, <3>3 DEF Family, Error
    <3> QED BY <2>1, <2>3, <3>2, <3>3, <3>4
  <2>4. CASE pc # "resolving"
    <3>1. pc \in {"ack", "query"} /\ req.cmd = call
      BY <2>1, <2>4
    <3>2. /\ req' = None
          /\ \/ inbox' # <<>> /\ applied' = applied
             \/ req.cmd \in Setters /\ inbox' = <<>> /\ applied'
      <4>1. CASE \E ms \in Seq(Message) : ms # <<>> /\ Answer(ms) /\ applied' = applied
        BY <2>2, <4>1
      <4>2. CASE req.cmd \in Setters /\ Answer(<<>>) /\ applied' = TRUE
        BY <2>2, <2>a, <4>2
      <4>3. <<Family>> # <<>> /\ <<Error(ENOENT)>> # <<>> /\ <<Error(EPERM)>> # <<>>
        OBVIOUS
      <4>4. CASE req.to = GENL_ID_CTRL /\ UNCHANGED applied
                 /\ Answer(IF req.cmd = "getfamily" /\ family # 0
                           THEN <<Family>> ELSE <<Error(ENOENT)>>)
        BY <2>a, <4>1, <4>3, <4>4
      <4> QED
        BY <1>9, <2>a, <4>1, <4>2, <4>3, <4>4 DEF KernelHandles
    <3>3. req.cmd \in Setters => pc = "ack"
      BY <3>1 DEF Getters, Setters
    <3> QED BY <2>1, <3>1, <3>2, <3>3
  <2> QED BY <2>3, <2>4
<1>10. ASSUME Unload PROVE Inv'
  BY <1>10 DEF Unload
<1>11. ASSUME Load PROVE Inv'
  BY <1>11 DEF Load
<1>12. ASSUME UNCHANGED vars PROVE Inv'
  BY <1>12 DEF vars
<1> QED
  BY <1>1, <1>2, <1>3, <1>4, <1>5, <1>6, <1>7, <1>8, <1>9, <1>10, <1>11, <1>12
  DEF Next, Process

(* The inductive invariant holds of every behaviour of process and kernel. *)
THEOREM InductiveInvariant == Spec => []IInv
BY InitIInv, NextIInv, PTL DEF Spec

(* A setter left waiting in nl80211_do_ack has been carried out. *)
THEOREM HungSetterApplied == Spec => []HungMeansApplied
<1>1. IInv => HungMeansApplied
  BY DEF IInv
<1> QED BY <1>1, InductiveInvariant, PTL

(* A setter that returns an error other than that of the read has changed   *)
(* nothing.                                                                 *)
THEOREM FailureIsHarmless == Spec => []FailureMeansNotApplied
<1>1. IInv => FailureMeansNotApplied
  BY DEF IInv, AppliedUnanswered, FailureMeansNotApplied
<1> QED BY <1>1, InductiveInvariant, PTL

(* Until cfg80211 is unloaded again, every request goes to the family that  *)
(* nl80211 has.                                                             *)
THEOREM CachedIdGood == Spec => []StaleOnlyAfterUnload
<1>1. IInv => StaleOnlyAfterUnload
  BY DEF IInv, OneExchange, IdsHold, GoodId, StaleOnlyAfterUnload, Getters, Setters
<1> QED BY <1>1, InductiveInvariant, PTL
============================================================================
