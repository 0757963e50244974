--------------------------- MODULE ServicesProofs ---------------------------
(***************************************************************************)
(* The smaller parts of the server with any parameters: the voice session, *)
(* the circuit breaker, the persist stage, and all parts side by side.     *)
(***************************************************************************)
EXTENDS MCServices, RealtimeCallProofs, WebhookRetryProofs, FiniteSetTheorems,
        WellFoundedInduction

-----------------------------------------------------------------------------
(* The voice session: any number of connections that serve it.             *)

(* The inductive invariant: from the moment the session is marked, whoever *)
(* marked it holds the port that stays bound, and closes it.               *)

Holds(x) == closer[x].pc \in {"cancelling", "detaching", "closingPort"}
PortHeld ==
  ended => \E x \in Closer : /\ closer[x].port = port
                             /\ Holds(x) \/ (closer[x].pc = "done" /\ port \notin portOpen)

SessionInv == SessionTypeOK /\ PortHeld

\* A program counter that is set leaves the closers well typed.
LEMMA CloserGoesTyped ==
  ASSUME SessionTypeOK, NEW x \in Closer,
         NEW pc \in {"idle", "removed", "cancelling", "detaching", "closingPort", "done"},
         CloserGoes(x, pc)
  PROVE  /\ closer' \in [Closer -> [pc : {"idle", "removed", "cancelling", "detaching",
                                          "closingPort", "done"},
                                    engine : Conns \cup {None}, port : Conns \cup {None}]]
         /\ closer'[x].pc = pc /\ closer'[x].port = closer[x].port
         /\ \A y \in Closer : y # x => closer'[y] = closer[y]
BY DEF SessionTypeOK, CloserGoes

\* The same for the connections.
LEMMA ConnGoesTyped ==
  ASSUME SessionTypeOK, NEW c \in Conns,
         NEW pc \in {"out", "found", "bound", "starting", "storing", "serving", "leaving", "gone"},
         ConnGoes(c, pc)
  PROVE  conn' \in [Conns -> [pc : {"out", "found", "bound", "starting", "storing", "serving",
                                    "leaving", "gone"}, took : Conns \cup {None}]]
BY DEF SessionTypeOK, ConnGoes

\* What leaves the closers, the port and the mark alone keeps the port held.
LEMMA StillHeld ==
  ASSUME PortHeld, UNCHANGED <<ended, port, closer, portOpen>>
  PROVE  PortHeld'
BY DEF PortHeld, Holds

-----------------------------------------------------------------------------
(* The steps.                                                              *)

\* The invariant holds initially.
LEMMA SessionInitInv == SessionInit => SessionInv
<1> SUFFICES ASSUME SessionInit PROVE SessionInv
  OBVIOUS
<1> DEFINE out == [pc |-> "out", took |-> None]
           idle == [pc |-> "idle", engine |-> None, port |-> None]
<1>1. /\ out \in [pc : {"out", "found", "bound", "starting", "storing", "serving", "leaving",
                      "gone"}, took : Conns \cup {None}]
      /\ idle \in [pc : {"idle", "removed", "cancelling", "detaching", "closingPort", "done"},
                   engine : Conns \cup {None}, port : Conns \cup {None}]
  OBVIOUS
<1>2. conn = [c \in Conns |-> out] /\ closer = [x \in Closer |-> idle]
  BY DEF SessionInit
<1> HIDE DEF out, idle
<1>3. SessionTypeOK
  BY <1>1, <1>2 DEF SessionInit, SessionTypeOK
<1> QED BY <1>3 DEF SessionInit, SessionInv, PortHeld

\* No step of a connection breaks it.
LEMMA ServeInv == ASSUME SessionInv, NEW c \in Conns, ServeSteps(c) PROVE SessionInv'
<1> USE DEF SessionInv
<1>1. CASE Find(c)
  BY <1>1, ConnGoesTyped, StillHeld DEF Find, SessionTypeOK, engines
<1>2. CASE BindPort(c)
  <2>1. SessionTypeOK'
    BY <1>2, ConnGoesTyped DEF BindPort, SessionTypeOK, engines
  <2>2. CASE ended
    BY <1>2, <2>1, <2>2, StillHeld DEF BindPort, engines
  <2>3. CASE ~ended
    BY <1>2, <2>1, <2>3 DEF BindPort, PortHeld
  <2> QED BY <2>2, <2>3, <2>1 DEF SessionTypeOK
<1>3. CASE StartEngine(c)
  <2>1. conn' \in [Conns -> [pc : {"out", "found", "bound", "starting", "storing", "serving",
                                   "leaving", "gone"}, took : Conns \cup {None}]]
    <3>1. PICK w \in [pc : {"leaving", "serving", "starting"}, took : Conns \cup {None}] :
            conn' = [conn EXCEPT ![c] = w]
      BY <1>3 DEF StartEngine, SessionTypeOK
    <3> QED BY <3>1 DEF SessionTypeOK
  <2> QED BY <1>3, <2>1, StillHeld DEF StartEngine, SessionTypeOK, engines
<1>4. CASE Attach(c)
  BY <1>4, ConnGoesTyped, StillHeld DEF Attach, SessionTypeOK
<1>5. CASE Store(c)
  BY <1>5, ConnGoesTyped, StillHeld DEF Store, SessionTypeOK, engines
<1>6. CASE ClientLeaves(c)
  BY <1>6, ConnGoesTyped, StillHeld DEF ClientLeaves, SessionTypeOK, engines
<1>7. CASE RunCancel(c)
  BY <1>7, ConnGoesTyped, StillHeld DEF RunCancel, SessionTypeOK, engines
<1> QED BY <1>1, <1>2, <1>3, <1>4, <1>5, <1>6, <1>7 DEF ServeSteps

\* No step of an End breaks it.
LEMMA EndInv == ASSUME SessionInv, NEW x \in Closer, EndSteps(x) PROVE SessionInv'
<1> USE DEF SessionInv
<1>1. CASE Remove(x)
  <2>1. SessionTypeOK'
    BY <1>1, CloserGoesTyped DEF Remove, SessionTypeOK, engines
  <2>2. \A y \in Closer : (Holds(y) \/ closer[y].pc = "done") => closer'[y] = closer[y]
    BY <1>1, CloserGoesTyped DEF Remove, Holds
  <2> QED BY <1>1, <2>1, <2>2 DEF Remove, PortHeld, Holds, engines
<1>2. CASE MarkEnded(x)
  <2>1. closer'[x] = [pc |-> "cancelling", engine |-> detach, port |-> port]
    BY <1>2 DEF MarkEnded, SessionTypeOK
  <2>2. SessionTypeOK'
    BY <1>2 DEF MarkEnded, SessionTypeOK, engines
  <2> QED BY <1>2, <2>1, <2>2 DEF MarkEnded, PortHeld, Holds
<1>3. CASE CancelEngine(x)
  <2>1. SessionTypeOK'
    BY <1>3, CloserGoesTyped DEF CancelEngine, SessionTypeOK, engines
  <2>2. closer'[x].pc = "detaching" /\ closer'[x].port = closer[x].port
        /\ \A y \in Closer : y # x => closer'[y] = closer[y]
    BY <1>3, CloserGoesTyped DEF CancelEngine
  <2> QED BY <1>3, <2>1, <2>2 DEF CancelEngine, PortHeld, Holds, engines
<1>4. CASE Detached(x)
  <2>1. SessionTypeOK'
    BY <1>4, CloserGoesTyped DEF Detached, SessionTypeOK, engines
  <2>2. closer'[x].pc = "closingPort" /\ closer'[x].port = closer[x].port
        /\ \A y \in Closer : y # x => closer'[y] = closer[y]
    BY <1>4, CloserGoesTyped DEF Detached
  <2> QED BY <1>4, <2>1, <2>2 DEF Detached, PortHeld, Holds, engines
<1>5. CASE ClosePort(x)
  <2>1. SessionTypeOK'
    BY <1>5, CloserGoesTyped DEF ClosePort, SessionTypeOK
  <2>2. closer'[x].pc = "done" /\ closer'[x].port = closer[x].port
        /\ \A y \in Closer : y # x => closer'[y] = closer[y]
    BY <1>5, CloserGoesTyped DEF ClosePort
  <2> QED BY <1>5, <2>1, <2>2 DEF ClosePort, PortHeld, Holds
<1> QED BY <1>1, <1>2, <1>3, <1>4, <1>5 DEF EndSteps

\* No step breaks it.
LEMMA SessionStepInv == SessionInv /\ [SessionNext]_sessionVars => SessionInv'
<1> SUFFICES ASSUME SessionInv, [SessionNext]_sessionVars PROVE SessionInv'
  OBVIOUS
<1>1. ASSUME NEW c \in Conns, EngineStops(c) PROVE SessionInv'
  <2>1. SessionTypeOK'
    BY <1>1 DEF EngineStops, SessionInv, SessionTypeOK
  <2> QED BY <1>1, <2>1, StillHeld DEF EngineStops, SessionInv
<1>2. CASE UNCHANGED sessionVars
  BY <1>2, StillHeld DEF sessionVars, SessionInv, SessionTypeOK
<1> QED BY <1>1, <1>2, ServeInv, EndInv DEF SessionNext

-----------------------------------------------------------------------------
(* The theorems.                                                           *)

\* The inductive invariant holds whoever serves and ends the session.
THEOREM SessionInvariance == SessionSpec => []SessionInv
BY SessionInitInv, SessionStepInv, PTL DEF SessionSpec

\* When every End is over, each engine on the session's port is stopped or told
\* to, also one that was attached while the session ended.
THEOREM SessionEndBringsDown == SessionSpec => []EndBringsDown
<1>1. ASSUME SessionInv PROVE EndBringsDown
  <2> SUFFICES ASSUME ended, Settled, NEW c \in Conns, enginePort[c] = port PROVE Stopping(c)
    BY DEF EndBringsDown
  <2>1. port \notin portOpen
    BY <1>1 DEF SessionInv, PortHeld, Settled, Holds
  <2> QED BY <2>1 DEF Stopping
<1> QED BY <1>1, SessionInvariance, PTL

-----------------------------------------------------------------------------
(* The circuit breaker: any number of requests and any thresholds.         *)

(* The inductive invariant: the count is exact, so that a half-open breaker *)
(* whose count is zero has nobody inside.                                   *)

BreakerInv == /\ BreakerTypeOK /\ SlotsAccounted /\ OneProbe
              /\ \A r \in Inside : request[r] <= period
              /\ state = "halfOpen" => successCount < SuccessThreshold

\* Who is inside is finite.
LEMMA InsideFinite == IsFiniteSet(Inside) /\ Cardinality(Inside) \in Nat
<1>1. Inside \subseteq Requests
  BY DEF Inside
<1> QED BY <1>1, FS_Subset, FS_CardinalityType, BreakerAssumption

\* A count of zero means that nobody is inside.
LEMMA NobodyInside ==
  ASSUME BreakerTypeOK, SlotsAccounted, concurrentCount < 1
  PROVE  Inside = {}
<1>1. Cardinality(Inside) = 0
  BY InsideFinite, BreakerAssumption DEF BreakerTypeOK, SlotsAccounted
<1> QED BY <1>1, InsideFinite, FS_EmptySet

\* Entering takes one slot.
LEMMA EnterCounts ==
  ASSUME BreakerInv, NEW r \in Requests, NEW n \in 0..MaxPeriods, Enter(r, n), UNCHANGED forgotten
  PROVE  /\ request' \in [Requests -> 0..MaxPeriods \cup {Outside}]
         /\ concurrentCount' \in Nat /\ SlotsAccounted'
         /\ Inside' = Inside \cup {r} /\ r \notin Inside
<1> USE DEF BreakerInv, BreakerTypeOK
<1>1. request' \in [Requests -> 0..MaxPeriods \cup {Outside}]
  BY DEF Enter
<1>2. n # Outside
  BY BreakerAssumption DEF Outside
<1>3. Inside' = Inside \cup {r} /\ r \notin Inside
  BY <1>2 DEF Enter, Inside
<1>4. Cardinality(Inside') = Cardinality(Inside) + 1
  BY <1>3, InsideFinite, FS_AddElement
<1>5. concurrentCount' = concurrentCount + 1
  BY DEF Enter
<1> QED BY <1>1, <1>3, <1>4, <1>5, InsideFinite, BreakerAssumption DEF SlotsAccounted

\* Whoever leaves is no longer inside.
LEMMA LeaveCounts ==
  ASSUME BreakerInv, NEW r \in Requests, request[r] # Outside,
         request' = [request EXCEPT ![r] = Outside]
  PROVE  /\ request' \in [Requests -> 0..MaxPeriods \cup {Outside}]
         /\ Inside' = Inside \ {r}
         /\ \A q \in Inside' : request'[q] = request[q]
         /\ Cardinality(Inside') = Cardinality(Inside) - 1 /\ Cardinality(Inside) > 0
<1> USE DEF BreakerInv, BreakerTypeOK
<1>1. request' \in [Requests -> 0..MaxPeriods \cup {Outside}]
  OBVIOUS
<1>2. r \in Inside /\ Inside' = Inside \ {r} /\ \A q \in Inside' : request'[q] = request[q]
  BY DEF Inside
<1>3. Cardinality(Inside') = Cardinality(Inside) - 1
  BY <1>2, InsideFinite, FS_RemoveElement
<1>4. Cardinality(Inside) > 0
  BY <1>2, InsideFinite, FS_EmptySet
<1> QED BY <1>1, <1>2, <1>3, <1>4

\* A request that leaves with a verdict gives its slot back.
LEMMA LeaveFrees ==
  ASSUME BreakerInv, NEW r \in Requests, Leave(r), UNCHANGED <<forgotten, period>>
  PROVE  /\ request' \in [Requests -> 0..MaxPeriods \cup {Outside}]
         /\ concurrentCount' \in Nat /\ SlotsAccounted'
         /\ Inside' = Inside \ {r}
         /\ \A q \in Inside' : request'[q] = request[q]
<1>1. /\ request' \in [Requests -> 0..MaxPeriods \cup {Outside}]
      /\ Inside' = Inside \ {r} /\ \A q \in Inside' : request'[q] = request[q]
      /\ Cardinality(Inside') = Cardinality(Inside) - 1 /\ Cardinality(Inside) > 0
  BY LeaveCounts DEF Leave
<1>2. concurrentCount = Cardinality(Inside) + forgotten /\ forgotten \in Nat
  BY BreakerAssumption DEF BreakerInv, BreakerTypeOK, SlotsAccounted
<1>3. concurrentCount' = concurrentCount - 1
  BY <1>1, <1>2, InsideFinite DEF Leave
<1> QED BY <1>1, <1>2, <1>3, InsideFinite DEF SlotsAccounted

-----------------------------------------------------------------------------
(* The steps.                                                              *)

\* The invariant holds initially.
LEMMA BreakerInitInv == BreakerInit => BreakerInv
<1> SUFFICES ASSUME BreakerInit PROVE BreakerInv
  OBVIOUS
<1>1. Inside = {}
  BY DEF BreakerInit, Inside
<1>2. SlotsAccounted
  BY <1>1, FS_EmptySet DEF BreakerInit, SlotsAccounted
<1>3. request \in [Requests -> 0..MaxPeriods \cup {Outside}]
  BY DEF BreakerInit
<1>4. /\ 0 \in 0..FailureThreshold /\ 0 \in 0..SuccessThreshold
      /\ 0 \in 0..MaxPeriods /\ 0 \in 0..MaxForgotten
  BY BreakerAssumption
<1>5. BreakerTypeOK
  BY <1>3, <1>4 DEF BreakerInit, BreakerTypeOK
<1> QED BY <1>1, <1>2, <1>5 DEF BreakerInv, OneProbe, BreakerInit

\* No step breaks it.
LEMMA BreakerStepInv == BreakerInv /\ [BreakerNext]_breakerVars => BreakerInv'
<1> SUFFICES ASSUME BreakerInv, [BreakerNext]_breakerVars PROVE BreakerInv'
  OBVIOUS
<1> USE BreakerAssumption DEF BreakerInv
<1>1. ASSUME NEW r \in Requests, AllowClosed(r) PROVE BreakerInv'
  <2>1. period \in 0..MaxPeriods
    BY DEF BreakerTypeOK
  <2>2. /\ request' \in [Requests -> 0..MaxPeriods \cup {Outside}] /\ concurrentCount' \in Nat
        /\ SlotsAccounted' /\ Inside' = Inside \cup {r}
    BY <1>1, <2>1, EnterCounts DEF AllowClosed
  <2>3. \A q \in Inside' : request'[q] <= period'
    BY <1>1, <2>1, <2>2 DEF AllowClosed, Enter, BreakerTypeOK, Inside
  <2>4. BreakerTypeOK' /\ OneProbe'
    BY <1>1, <2>2 DEF AllowClosed, BreakerTypeOK, OneProbe
  <2> QED BY <1>1, <2>2, <2>3, <2>4 DEF AllowClosed
<1>2. ASSUME NEW r \in Requests, AllowOpen(r) PROVE BreakerInv'
  <2>1. period + 1 \in 0..MaxPeriods
    BY <1>2 DEF AllowOpen, BreakerTypeOK
  <2>2. /\ request' \in [Requests -> 0..MaxPeriods \cup {Outside}] /\ concurrentCount' \in Nat
        /\ SlotsAccounted' /\ Inside' = Inside \cup {r}
    BY <1>2, <2>1, EnterCounts DEF AllowOpen
  <2>3. ASSUME NEW q \in Inside' PROVE request'[q] <= period' /\ (request'[q] = period' => q = r)
    <3>1. CASE q = r
      BY <1>2, <2>1, <3>1 DEF AllowOpen, Enter, BreakerTypeOK
    <3>2. CASE q # r
      <4>1. q \in Inside /\ request'[q] = request[q] /\ request[q] <= period
        BY <1>2, <2>2, <3>2 DEF AllowOpen, Enter, BreakerTypeOK, Inside
      <4>2. request[q] \in Int /\ period \in Int /\ period' = period + 1
        BY <1>2, <4>1 DEF AllowOpen, BreakerTypeOK, Inside, Outside
      <4> QED BY <3>2, <4>1, <4>2
    <3> QED BY <3>1, <3>2
  <2>4. BreakerTypeOK'
    BY <1>2, <2>1, <2>2 DEF AllowOpen, BreakerTypeOK
  <2> QED BY <1>2, <2>2, <2>3, <2>4 DEF AllowOpen, OneProbe
<1>3. ASSUME NEW r \in Requests, AllowHalfOpen(r) PROVE BreakerInv'
  <2>1. period \in 0..MaxPeriods
    BY DEF BreakerTypeOK
  <2>2. /\ request' \in [Requests -> 0..MaxPeriods \cup {Outside}] /\ concurrentCount' \in Nat
        /\ SlotsAccounted' /\ Inside' = Inside \cup {r}
    BY <1>3, <2>1, EnterCounts DEF AllowHalfOpen
  <2>3. Inside = {}
    BY <1>3, NobodyInside DEF AllowHalfOpen
  <2>4. Inside' = {r} /\ request'[r] = period /\ period' = period
    BY <1>3, <2>2, <2>3 DEF AllowHalfOpen, Enter, BreakerTypeOK
  <2>5. BreakerTypeOK'
    BY <1>3, <2>2 DEF AllowHalfOpen, BreakerTypeOK
  <2> QED BY <1>3, <2>1, <2>2, <2>4, <2>5 DEF AllowHalfOpen, OneProbe
<1>4. CASE WaitEnds
  <2>1. BreakerTypeOK'
    BY <1>4 DEF WaitEnds, BreakerTypeOK
  <2>2. Inside' = Inside
    BY <1>4 DEF WaitEnds, Inside
  <2> QED BY <1>4, <2>1, <2>2 DEF WaitEnds, SlotsAccounted, OneProbe
<1>5. ASSUME NEW r \in Requests, RecordSuccess(r) PROVE BreakerInv'
  <2>1. /\ request' \in [Requests -> 0..MaxPeriods \cup {Outside}]
        /\ concurrentCount' \in Nat /\ SlotsAccounted'
        /\ Inside' = Inside \ {r} /\ \A q \in Inside' : request'[q] = request[q]
    BY <1>5, LeaveFrees DEF RecordSuccess
  <2>2. state' \in {state, "closed"} /\ period' = period
    BY <1>5 DEF RecordSuccess, BreakerTypeOK
  <2>3. /\ failureCount' \in 0..FailureThreshold /\ successCount' \in 0..SuccessThreshold
        /\ state' = "halfOpen" => successCount' < SuccessThreshold
    BY <1>5 DEF RecordSuccess, BreakerTypeOK
  <2>4. BreakerTypeOK'
    BY <1>5, <2>1, <2>2, <2>3 DEF RecordSuccess, BreakerTypeOK
  <2> QED BY <2>1, <2>2, <2>3, <2>4 DEF OneProbe
<1>6. ASSUME NEW r \in Requests, RecordFailure(r) PROVE BreakerInv'
  <2>1. /\ request' \in [Requests -> 0..MaxPeriods \cup {Outside}]
        /\ concurrentCount' \in Nat /\ SlotsAccounted'
        /\ Inside' = Inside \ {r} /\ \A q \in Inside' : request'[q] = request[q]
    BY <1>6, LeaveFrees DEF RecordFailure
  <2>2. state' \in {state, "open"} /\ period' = period
    BY <1>6 DEF RecordFailure
  <2>3. BreakerTypeOK'
    BY <1>6, <2>1, <2>2 DEF RecordFailure, BreakerTypeOK
  <2> QED BY <1>6, <2>1, <2>2, <2>3 DEF RecordFailure, OneProbe
<1>7. ASSUME NEW r \in Requests, NoVerdict(r) PROVE BreakerInv'
  <2>1. /\ request' \in [Requests -> 0..MaxPeriods \cup {Outside}]
        /\ Inside' = Inside \ {r} /\ \A q \in Inside' : request'[q] = request[q]
        /\ Cardinality(Inside') = Cardinality(Inside) - 1
    BY <1>7, LeaveCounts DEF NoVerdict
  <2>2. SlotsAccounted'
    BY <1>7, <2>1, InsideFinite DEF NoVerdict, SlotsAccounted, BreakerTypeOK
  <2>3. BreakerTypeOK'
    BY <1>7, <2>1 DEF NoVerdict, BreakerTypeOK
  <2> QED BY <1>7, <2>1, <2>2, <2>3 DEF NoVerdict, OneProbe
<1>8. CASE UNCHANGED breakerVars
  BY <1>8 DEF breakerVars, BreakerTypeOK, SlotsAccounted, OneProbe, Inside
<1> QED BY <1>1, <1>2, <1>3, <1>4, <1>5, <1>6, <1>7, <1>8 DEF BreakerNext, RequestSteps, Allow

-----------------------------------------------------------------------------
(* The theorems.                                                           *)

\* The inductive invariant holds whatever requests come and go.
THEOREM BreakerInvariance == BreakerSpec => []BreakerInv
BY BreakerInitInv, BreakerStepInv, PTL DEF BreakerSpec

\* concurrentCount is exact through every change of state: it is the number of
\* requests inside and of those that left unrecorded, and never clipped.
THEOREM BreakerSlotsAccounted == BreakerSpec => []SlotsAccounted
<1>1. BreakerInv => SlotsAccounted
  BY DEF BreakerInv
<1> QED BY <1>1, BreakerInvariance, PTL

\* A half-open breaker has at most one request of its period inside.
THEOREM BreakerOneProbe == BreakerSpec => []OneProbe
<1>1. BreakerInv => OneProbe
  BY DEF BreakerInv
<1> QED BY <1>1, BreakerInvariance, PTL

-----------------------------------------------------------------------------
(* The persist stage: any pieces and any number of frames.                 *)

\* Induction over the naturals for a set: a least number outside S would have a
\* predecessor in S.
LEMMA Induction ==
  ASSUME NEW S, S \subseteq Nat, 0 \in S, \A n \in S : n + 1 \in S
  PROVE  S = Nat
<1> DEFINE Outsiders == Nat \ S
<1> SUFFICES ASSUME Outsiders # {} PROVE FALSE
  OBVIOUS
<1>1. IsWellFoundedOn(OpToRel(<, Nat), Nat) /\ Outsiders \in SUBSET Nat
  BY NatLessThanWellFounded
<1>2. PICK k \in Outsiders : \A m \in Outsiders : <<m, k>> \notin OpToRel(<, Nat)
  BY <1>1, WFMin
<1>3. k \in Nat /\ k - 1 \in Nat /\ k - 1 < k
  OBVIOUS
<1>4. k - 1 \notin Outsiders
  BY <1>2, <1>3 DEF OpToRel
<1>5. (k - 1) + 1 = k /\ k - 1 \in S
  BY <1>3, <1>4
<1> QED BY <1>5

\* The equation FlattenSeq's function solves, for the first n sequences of s.
Joins(f, s, n) == f = [i \in 1..n |-> IF i = 1 THEN s[i] ELSE f[i-1] \o s[i]]

\* What it says of each value.
LEMMA JoinsValue ==
  ASSUME NEW f, NEW s, NEW n, Joins(f, s, n), NEW i \in 1..n
  PROVE  f[i] = IF i = 1 THEN s[i] ELSE f[i-1] \o s[i]
<1> DEFINE h == [k \in 1..n |-> IF k = 1 THEN s[k] ELSE f[k-1] \o s[k]]
<1>1. f = h
  BY DEF Joins
<1>2. h[i] = IF i = 1 THEN s[i] ELSE f[i-1] \o s[i]
  OBVIOUS
<1> HIDE DEF h
<1> QED BY <1>1, <1>2

\* The value after the i-th.
LEMMA JoinsNext ==
  ASSUME NEW f, NEW s, NEW n \in Nat, Joins(f, s, n), NEW i \in Nat \ {0}, i + 1 <= n
  PROVE  f[i+1] = f[i] \o s[i+1]
<1>1. \A k \in 1..n : f[k] = IF k = 1 THEN s[k] ELSE f[k-1] \o s[k]
  BY JoinsValue
<1>2. i + 1 \in 1..n /\ i + 1 # 1 /\ (i + 1) - 1 = i
  OBVIOUS
<1> QED BY <1>1, <1>2

\* It has a solution,
LEMMA JoinsExists == ASSUME NEW s, NEW n \in Nat PROVE \E f : Joins(f, s, n)
<1> DEFINE S == {m \in Nat : \E f : Joins(f, s, m)}
<1>1. 0 \in S
  <2>1. Joins([i \in {} |-> {}], s, 0)
    BY DEF Joins
  <2> QED BY <2>1
<1>2. ASSUME NEW m \in S PROVE m + 1 \in S
  <2>1. PICK f : Joins(f, s, m)
    OBVIOUS
  <2> DEFINE g == [i \in 1..m+1 |-> IF i = m + 1 THEN IF i = 1 THEN s[i] ELSE f[m] \o s[i] ELSE f[i]]
  <2>2. ASSUME NEW i \in 1..m+1 PROVE g[i] = IF i = 1 THEN s[i] ELSE g[i-1] \o s[i]
    <3>1. CASE i = m + 1
      <4>1. m = 0 \/ g[i-1] = f[m]
        BY <3>1
      <4> QED BY <3>1, <4>1
    <3>2. CASE i \in 1..m
      <4>1. g[i] = f[i] /\ (i = 1 \/ g[i-1] = f[i-1])
        BY <3>2
      <4> QED BY <2>1, <3>2, <4>1, JoinsValue
    <3> QED BY <3>1, <3>2
  <2>3. g = [i \in 1..m+1 |-> g[i]]
    OBVIOUS
  <2> HIDE DEF g
  <2>4. Joins(g, s, m + 1)
    BY <2>2, <2>3 DEF Joins
  <2> QED BY <2>4
<1> HIDE DEF S
<1>3. S = Nat
  BY <1>1, <1>2, Induction DEF S
<1> QED BY <1>3 DEF S

\* and solutions for sequences that begin alike begin alike.
LEMMA JoinsAgree ==
  ASSUME NEW s, NEW t, NEW m \in Nat, NEW n \in Nat, m <= n, NEW f, NEW g,
         Joins(f, s, m), Joins(g, t, n), \A i \in 1..m : s[i] = t[i]
  PROVE  \A i \in 1..m : f[i] = g[i]
<1> DEFINE S == {i \in Nat : i \in 1..m => f[i] = g[i]}
<1>0. \A i \in 1..m : /\ f[i] = IF i = 1 THEN s[i] ELSE f[i-1] \o s[i]
                      /\ g[i] = IF i = 1 THEN s[i] ELSE g[i-1] \o s[i]
  <2>1. ASSUME NEW i \in 1..m
        PROVE  /\ f[i] = IF i = 1 THEN s[i] ELSE f[i-1] \o s[i]
               /\ g[i] = IF i = 1 THEN s[i] ELSE g[i-1] \o s[i]
    <3>1. f[i] = IF i = 1 THEN s[i] ELSE f[i-1] \o s[i]
      BY JoinsValue
    <3>2. i \in 1..n /\ s[i] = t[i]
      OBVIOUS
    <3>3. g[i] = IF i = 1 THEN t[i] ELSE g[i-1] \o t[i]
      BY <3>2, JoinsValue
    <3> QED BY <3>1, <3>2, <3>3
  <2> QED BY <2>1
<1>1. 0 \in S
  OBVIOUS
<1>2. ASSUME NEW i \in S PROVE i + 1 \in S
  <2>1. CASE i + 1 \in 1..m /\ i = 0
    BY <1>0, <2>1
  <2>2. CASE i + 1 \in 1..m /\ i # 0
    <3>1. i \in 1..m /\ (i + 1) - 1 = i /\ i + 1 # 1
      BY <2>2
    <3>2. f[i] = g[i]
      BY <3>1
    <3> QED BY <1>0, <2>2, <3>1, <3>2
  <2>3. CASE i + 1 \notin 1..m
    BY <2>3
  <2> QED BY <2>1, <2>2, <2>3
<1> HIDE DEF S
<1>3. S = Nat
  BY <1>1, <1>2, Induction DEF S
<1> QED BY <1>3 DEF S

Flat(s) == Seqs!FlattenSeq(s)

LEMMA FlatJoins ==
  ASSUME NEW s, Len(s) \in Nat \ {0}
  PROVE  \E f : Joins(f, s, Len(s)) /\ Flat(s) = f[Len(s)]
<1> DEFINE f == CHOOSE f : Joins(f, s, Len(s))
<1>1. Joins(f, s, Len(s))
  BY JoinsExists
<1>2. Flat(s) = f[Len(s)]
  BY DEF Flat, Seqs!FlattenSeq, Joins
<1> QED BY <1>1, <1>2

\* No sequences join to the empty one.
LEMMA FlatEmpty == Flat(<<>>) = <<>>
BY DEF Flat, Seqs!FlattenSeq

\* Sequences of L join to a sequence of L.
LEMMA FlatTyped ==
  ASSUME NEW L, NEW s \in Seq(Seq(L))
  PROVE  Flat(s) \in Seq(L)
<1>1. CASE Len(s) = 0
  <2>1. s = <<>> /\ <<>> \in Seq(L)
    BY <1>1, EmptySeq
  <2> QED BY <2>1, FlatEmpty
<1>2. CASE Len(s) # 0
  <2>0. Len(s) \in Nat \ {0} /\ \A i \in 1..Len(s) : s[i] \in Seq(L)
    BY <1>2, LenProperties, ElementOfSeq
  <2>1. PICK f : Joins(f, s, Len(s)) /\ Flat(s) = f[Len(s)]
    BY <2>0, FlatJoins
  <2> DEFINE S == {i \in Nat : i \in 1..Len(s) => f[i] \in Seq(L)}
  <2>2. 0 \in S
    OBVIOUS
  <2>3. ASSUME NEW i \in S PROVE i + 1 \in S
    <3>1. CASE i + 1 \in 1..Len(s) /\ i = 0
      BY <2>0, <2>1, <3>1, JoinsValue
    <3>2. CASE i + 1 \in 1..Len(s) /\ i # 0
      <4>1. i \in 1..Len(s) /\ (i + 1) - 1 = i /\ i + 1 # 1
        BY <2>0, <3>2
      <4>2. f[i] \in Seq(L) /\ s[i+1] \in Seq(L)
        BY <2>0, <3>2, <4>1
      <4>3. f[i+1] = f[i] \o s[i+1]
        <5>1. i \in Nat \ {0} /\ Len(s) \in Nat /\ i + 1 <= Len(s)
          BY <2>0, <3>2
        <5> QED BY <2>1, <5>1, JoinsNext
      <4>4. f[i+1] \in Seq(L)
        BY <4>2, <4>3, ConcatProperties
      <4> QED BY <4>4
    <3>3. CASE i + 1 \notin 1..Len(s)
      BY <3>3
    <3> QED BY <3>1, <3>2, <3>3
  <2> HIDE DEF S
  <2>4. S = Nat
    BY <2>2, <2>3, Induction DEF S
  <2>5. Len(s) \in S
    BY <2>0, <2>4
  <2> QED BY <2>0, <2>1, <2>5 DEF S
<1> QED BY <1>1, <1>2

\* One more sequence is joined at the end.
LEMMA FlatAppend ==
  ASSUME NEW L, NEW s \in Seq(Seq(L)), NEW x \in Seq(L)
  PROVE  Flat(Append(s, x)) = Flat(s) \o x
<1> DEFINE n == Len(s)
           t == Append(s, x)
<1>0. n \in Nat /\ Len(t) = n + 1 /\ t[n + 1] = x /\ \A i \in 1..n : s[i] = t[i]
  BY LenProperties, AppendProperties
<1> HIDE DEF t
<1>1. PICK g : Joins(g, t, n + 1) /\ Flat(t) = g[n + 1]
  BY <1>0, FlatJoins
<1>2. CASE n = 0
  <2>1. Flat(t) = x
    BY <1>0, <1>1, <1>2, JoinsValue
  <2>2. s = <<>> /\ Flat(s) = <<>>
    BY <1>2, EmptySeq, FlatEmpty
  <2> QED BY <2>1, <2>2, ConcatEmptySeq DEF t
<1>3. CASE n # 0
  <2>1. n \in Nat \ {0}
    BY <1>0, <1>3
  <2>2. PICK f : Joins(f, s, n) /\ Flat(s) = f[n]
    BY <2>1, FlatJoins
  <2>3. f[n] = g[n]
    <3> DEFINE p == n + 1
    <3>1. n \in 1..n /\ n \in Nat /\ p \in Nat /\ n <= p
      BY <2>1
    <3>3. Joins(g, t, p) /\ Joins(f, s, n) /\ \A i \in 1..n : s[i] = t[i]
      BY <1>0, <1>1, <2>2
    <3> HIDE DEF n, p
    <3>2. \A i \in 1..n : f[i] = g[i]
      BY <3>1, <3>3, JoinsAgree
    <3> QED BY <3>1, <3>2
  <2>5. g[n + 1] = g[n] \o t[n + 1]
    <3>1. n + 1 \in Nat /\ n + 1 <= n + 1
      BY <2>1
    <3> QED BY <1>1, <2>1, <3>1, JoinsNext
  <2> QED BY <1>0, <1>1, <2>2, <2>3, <2>5 DEF t
<1> QED BY <1>2, <1>3

-----------------------------------------------------------------------------

PersistInv == PersistTypeOK /\ EverythingRecorded

Entry == [user : Utterances, ai : Seq(Letters)]
Texts(r) == [i \in DOMAIN r |-> r[i].ai]

\* The texts of records are texts.
LEMMA TextsTyped ==
  ASSUME NEW r \in Seq(Entry)
  PROVE  Texts(r) \in Seq(Seq(Letters)) /\ Len(Texts(r)) = Len(r)
<1>1. \A i \in 1..Len(r) : r[i].ai \in Seq(Letters)
  <2>1. \A i \in 1..Len(r) : r[i] \in Entry
    BY ElementOfSeq
  <2> QED BY <2>1 DEF Entry
<1>2. Texts(r) = [i \in 1..Len(r) |-> r[i].ai] /\ Len(r) \in Nat
  BY LenProperties DEF Texts
<1> QED BY <1>1, <1>2

\* The texts of the records are those before, and the new one's.
LEMMA TextsAppend ==
  ASSUME NEW r \in Seq(Entry), NEW e \in Entry
  PROVE  /\ Texts(Append(r, e)) = Append(Texts(r), e.ai)
         /\ Append(r, e) \in Seq(Entry)
<1>1. \A i \in 1..Len(r) : r[i].ai \in Seq(Letters)
  <2>1. \A i \in 1..Len(r) : r[i] \in Entry
    BY ElementOfSeq
  <2> QED BY <2>1 DEF Entry
<1>2. Texts(r) = [i \in 1..Len(r) |-> r[i].ai] /\ Len(r) \in Nat
  BY LenProperties DEF Texts
<1>3. Texts(r) \in Seq(Seq(Letters)) /\ Len(Texts(r)) = Len(r)
  BY TextsTyped
<1>4. Append(r, e) \in Seq(Entry) /\ Len(Append(r, e)) = Len(r) + 1
      /\ Append(r, e)[Len(r) + 1] = e /\ \A i \in 1..Len(r) : Append(r, e)[i] = r[i]
  BY AppendProperties
<1>5. Texts(Append(r, e)) = [i \in 1..Len(r) + 1 |-> Append(r, e)[i].ai]
  BY <1>4, LenProperties DEF Texts
<1>6. e.ai \in Seq(Letters)
  BY DEF Entry
<1>7. /\ Append(Texts(r), e.ai) \in Seq(Seq(Letters))
      /\ Len(Append(Texts(r), e.ai)) = Len(r) + 1
      /\ Append(Texts(r), e.ai)[Len(r) + 1] = e.ai
      /\ \A i \in 1..Len(r) : Append(Texts(r), e.ai)[i] = Texts(r)[i]
  BY <1>3, <1>6, AppendProperties
<1>8. Texts(Append(r, e)) \in Seq(Seq(Letters)) /\ Len(Texts(Append(r, e))) = Len(r) + 1
  BY <1>1, <1>2, <1>4, <1>5, <1>6
<1>9. \A i \in 1..Len(r) + 1 : Texts(Append(r, e))[i] = Append(Texts(r), e.ai)[i]
  BY <1>2, <1>4, <1>5, <1>7
<1> QED BY <1>2, <1>3, <1>4, <1>7, <1>8, <1>9, SeqEqual

\* Flushing an accumulator in use moves its text to the records.
LEMMA FlushedRecorded ==
  ASSUME PersistTypeOK, records' = Flushed
  PROVE  Recorded' = Recorded \o acc.ai /\ records' \in Seq(Entry) /\ Recorded \in Seq(Letters)
<1>0. records \in Seq(Entry) /\ acc.ai \in Seq(Letters) /\ [user |-> acc.user, ai |-> acc.ai] \in Entry
  BY DEF PersistTypeOK, Entry
<1>1. Recorded = Flat(Texts(records)) /\ Recorded' = Flat(Texts(records'))
  BY DEF Recorded, Flat, Texts
<1>2. Texts(records) \in Seq(Seq(Letters)) /\ Recorded \in Seq(Letters)
  BY <1>0, <1>1, TextsTyped, FlatTyped
<1>3. CASE acc.active
  BY <1>0, <1>1, <1>2, <1>3, TextsAppend, FlatAppend DEF Flushed
<1>4. CASE ~acc.active
  <2>1. acc.ai = <<>> /\ records' = records
    BY <1>4 DEF Flushed, PersistTypeOK
  <2> QED BY <1>0, <1>1, <1>2, <2>1, ConcatEmptySeq
<1> QED BY <1>3, <1>4

\* Joined texts do not care where the next piece is put.
LEMMA ConcatAssoc ==
  ASSUME NEW L, NEW a \in Seq(L), NEW b \in Seq(L), NEW c \in Seq(L)
  PROVE  (a \o b) \o c = a \o (b \o c) /\ a \o b \in Seq(L)
BY ConcatAssociative, ConcatProperties

LEMMA PersistStepInv == PersistInv /\ [PersistNext]_persistVars => PersistInv'
<1> SUFFICES ASSUME PersistInv, [PersistNext]_persistVars PROVE PersistTypeOK' /\ EverythingRecorded'
  BY DEF PersistInv
<1>0. PersistTypeOK /\ EverythingRecorded
  BY DEF PersistInv
<1> DEFINE AccType == [active : BOOLEAN, user : Utterances, ai : Seq(Letters)]
<1>a. /\ acc \in AccType /\ records \in Seq(Entry) /\ taken \in 0..MaxFrames /\ MaxFrames \in Nat
      /\ left \in {"no", "closed", "cut"} /\ said \in Seq(Letters) /\ reply \in Seq(Letters) /\ merged \in BOOLEAN
      /\ acc.ai \in Seq(Letters) /\ acc.user \in Utterances /\ (~acc.active => acc.ai = <<>>)
  BY <1>0, PersistAssumption DEF PersistTypeOK, Entry
<1>b. Empty \in AccType /\ Empty.ai = <<>> /\ ~Empty.active /\ <<>> \in Seq(Letters)
  BY <1>a, EmptySeq DEF Empty, Utterances
<1>c. ASSUME acc' \in AccType, records' \in Seq(Entry), taken' \in 0..MaxFrames,
             left' \in {"no", "closed", "cut"}, said' \in Seq(Letters), reply' \in Seq(Letters),
             merged' \in BOOLEAN, ~acc'.active => acc'.ai = <<>>
      PROVE  PersistTypeOK'
  BY <1>c DEF PersistTypeOK, Entry
<1>d. Recorded \in Seq(Letters)
  <2>1. Recorded = Flat(Texts(records))
    BY DEF Recorded, Flat, Texts
  <2>2. Texts(records) \in Seq(Seq(Letters))
    BY <1>a, TextsTyped
  <2> QED BY <2>1, <2>2, FlatTyped
<1>e. TakeFrame => taken' \in 1..MaxFrames /\ left' = left
  BY <1>a DEF TakeFrame
<1>1. CASE TextFinal
  <2>1. acc' = [active |-> TRUE, user |-> taken', ai |-> <<>>] /\ taken' \in 1..MaxFrames /\ left' = left
        /\ UNCHANGED <<said, reply, merged>>
    BY <1>1, <1>e DEF TextFinal, Started
  <2>2. acc' \in AccType /\ acc'.ai = <<>> /\ acc'.active
    BY <1>a, <1>b, <2>1 DEF Utterances
  <2>3. records' \in Seq(Entry) /\ Recorded' = Recorded \o acc.ai
    <3>1. CASE acc.active /\ acc.ai = <<>>
      <4>1. records' = records
        BY <1>1, <3>1 DEF TextFinal
      <4>2. Recorded' = Recorded
        BY <4>1 DEF Recorded
      <4> QED BY <1>a, <1>d, <3>1, <4>1, <4>2, ConcatEmptySeq
    <3>2. CASE ~(acc.active /\ acc.ai = <<>>)
      BY <1>0, <1>1, <3>2, FlushedRecorded DEF TextFinal
    <3> QED BY <3>1, <3>2
  <2>4. Recorded' \o acc'.ai = Recorded \o acc.ai
    BY <1>a, <1>d, <2>2, <2>3, ConcatAssoc, ConcatEmptySeq
  <2>5. PersistTypeOK'
    BY <1>a, <1>c, <2>1, <2>2, <2>3
  <2> QED BY <1>0, <2>1, <2>4, <2>5 DEF EverythingRecorded
<1>2. ASSUME NEW piece \in Seq(Letters), AIText(piece)
      PROVE  /\ acc' \in AccType /\ acc'.active /\ records' = records /\ Recorded' = Recorded
             /\ taken' \in 0..MaxFrames /\ left' = left
  <2>1. Merge(acc.ai, piece) \in Seq(Letters)
    <3>1. Merge(acc.ai, piece) \in {piece, acc.ai, acc.ai \o piece}
      BY DEF Merge
    <3>2. acc.ai \o piece \in Seq(Letters)
      BY <1>a, ConcatProperties
    <3> QED BY <1>a, <3>1, <3>2
  <2>2. acc' = [active |-> TRUE, user |-> acc.user, ai |-> Merge(acc.ai, piece)]
    BY <1>2, <1>a DEF AIText
  <2>3. records' = records /\ taken' \in 0..MaxFrames /\ left' = left
    BY <1>2, <1>a, <1>e DEF AIText
  <2>4. Recorded' = Recorded
    BY <2>3 DEF Recorded
  <2> QED BY <1>a, <2>1, <2>2, <2>3, <2>4
<1>3. ASSUME NEW piece \in Pieces, Says(piece) PROVE PersistTypeOK' /\ EverythingRecorded'
  <2>1. piece \in Seq(Letters)
    BY PersistAssumption
  <2>2. AIText(piece) /\ said' = said \o piece /\ reply' = reply \o piece
        /\ merged' = (merged \/ acc'.ai # acc.ai \o piece)
    BY <1>3 DEF Says
  <2>3. said' \in Seq(Letters) /\ reply' \in Seq(Letters) /\ merged' \in BOOLEAN
    BY <1>a, <2>1, <2>2, ConcatProperties
  <2>4. PersistTypeOK'
    BY <1>2, <1>a, <1>c, <2>1, <2>2, <2>3
  <2>5. ASSUME ~merged' PROVE Recorded' \o acc'.ai = said'
    <3>1. ~merged /\ acc'.ai = acc.ai \o piece
      BY <2>2, <2>5
    <3>2. Recorded \o acc.ai = said
      BY <1>0, <3>1 DEF EverythingRecorded
    <3>3. Recorded' = Recorded
      BY <1>2, <2>1, <2>2
    <3>4. (Recorded \o acc.ai) \o piece = Recorded \o (acc.ai \o piece)
      <4>1. Recorded \in Seq(Letters) /\ acc.ai \in Seq(Letters) /\ piece \in Seq(Letters)
        BY <1>a, <1>d, <2>1
      <4>2. \A a, b, c \in Seq(Letters) : (a \o b) \o c = a \o (b \o c)
        BY ConcatAssoc
      <4> HIDE DEF AccType
      <4> QED BY <4>1, <4>2, Zenon
    <3> QED BY <2>2, <3>1, <3>2, <3>3, <3>4
  <2> QED BY <2>4, <2>5 DEF EverythingRecorded
<1>4. CASE Repeats
  <2>1. AIText(reply) /\ UNCHANGED <<said, reply>> /\ merged' = (merged \/ acc'.ai # acc.ai)
    BY <1>4 DEF Repeats
  <2>2. merged' \in BOOLEAN
    BY <1>a, <2>1
  <2>3. PersistTypeOK'
    BY <1>2, <1>a, <1>c, <2>1, <2>2
  <2>4. ~merged' => Recorded' \o acc'.ai = said'
    BY <1>0, <1>2, <1>a, <2>1 DEF EverythingRecorded
  <2> QED BY <2>3, <2>4 DEF EverythingRecorded
<1>5. ASSUME records' = Flushed, acc' = Empty, UNCHANGED <<said, merged>>, taken' \in 0..MaxFrames,
             left' \in {"no", "closed", "cut"}, reply' \in Seq(Letters)
      PROVE  PersistTypeOK' /\ EverythingRecorded'
  <2>1. Recorded' = Recorded \o acc.ai /\ records' \in Seq(Entry)
    BY <1>0, <1>5, FlushedRecorded
  <2>2. Recorded' \o acc'.ai = Recorded \o acc.ai
    BY <1>5, <1>a, <1>b, <1>d, <2>1, ConcatAssoc, ConcatEmptySeq
  <2>3. PersistTypeOK'
    BY <1>5, <1>a, <1>b, <1>c, <2>1
  <2> QED BY <1>0, <1>5, <2>2, <2>3 DEF EverythingRecorded
<1>6. CASE AITextDone
  BY <1>5, <1>6, <1>a, <1>b, <1>e DEF AITextDone
<1>7. ASSUME UNCHANGED <<acc, records, taken, said, reply, merged>>, left' \in {"no", "closed", "cut"}
      PROVE  PersistTypeOK' /\ EverythingRecorded'
  BY <1>0, <1>7 DEF PersistTypeOK, EverythingRecorded, Recorded
<1>8. CASE InputEnds
  BY <1>5, <1>7, <1>8, <1>a DEF InputEnds
<1>9. CASE CutOff
  BY <1>7, <1>9 DEF CutOff
<1>10. CASE UNCHANGED persistVars
  BY <1>7, <1>10, <1>a DEF persistVars
<1> QED BY <1>1, <1>3, <1>4, <1>6, <1>8, <1>9, <1>10 DEF PersistNext

\* The invariant holds initially.
LEMMA PersistInitInv == PersistInit => PersistInv
<1> SUFFICES ASSUME PersistInit PROVE PersistTypeOK /\ EverythingRecorded
  BY DEF PersistInv
<1>1. PersistTypeOK
  <2>1. <<>> \in Seq(Letters) /\ <<>> \in Seq([user : Utterances, ai : Seq(Letters)])
    BY EmptySeq
  <2>2. 0 \in 0..MaxFrames /\ 0 \in Utterances
    BY PersistAssumption DEF Utterances
  <2>3. acc \in [active : BOOLEAN, user : Utterances, ai : Seq(Letters)] /\ acc.ai = <<>>
    BY <2>1, <2>2 DEF PersistInit, Empty
  <2> QED BY <2>1, <2>2, <2>3 DEF PersistInit, PersistTypeOK
<1>2. records = <<>> /\ acc.ai = <<>> /\ said = <<>>
  BY DEF PersistInit, Empty
<1>3. Recorded = <<>>
  <2>1. Texts(records) = <<>>
    BY <1>2, EmptySeq DEF Texts
  <2> QED BY <2>1, FlatEmpty DEF Recorded, Flat, Texts
<1> QED BY <1>1, <1>2, <1>3, EmptySeq, ConcatEmptySeq DEF EverythingRecorded

\* Every reachable state satisfies the invariant.
THEOREM PersistInvariance == PersistSpec => []PersistInv
BY PersistInitInv, PersistStepInv, PTL DEF PersistSpec

\* Nothing a reply said is missing from the records and the accumulator, or
\* there twice, however many frames there are and whatever the pieces.
THEOREM PersistEverythingRecorded == PersistSpec => []EverythingRecorded
<1>1. PersistInv => EverythingRecorded
  BY DEF PersistInv
<1> QED BY <1>1, PersistInvariance, PTL

-----------------------------------------------------------------------------
(* The parts side by side: what runs is a behaviour of each part.          *)

\* A step of the whole is a step of each part, or leaves it as it was.
LEMMA PartStep ==
  ASSUME [ServicesNext]_serviceVars
  PROVE  /\ [RealtimeNext]_realtimeVars /\ [SessionNext]_sessionVars
         /\ [WebhookNext]_webhookVars /\ [BreakerNext]_breakerVars
         /\ [PersistNext]_persistVars
<1>1. CASE Realtime
  BY <1>1 DEF Realtime
<1>2. CASE Session
  BY <1>2 DEF Session
<1>3. CASE Webhook
  BY <1>3 DEF Webhook
<1>4. CASE Breaker
  BY <1>4 DEF Breaker
<1>5. CASE Persist
  BY <1>5 DEF Persist
<1>6. CASE UNCHANGED serviceVars
  BY <1>6 DEF serviceVars
<1> QED BY <1>1, <1>2, <1>3, <1>4, <1>5, <1>6 DEF ServicesNext

\* Each part keeps its own invariant when the others share the state space.
THEOREM ServicesInvariance ==
  ServicesSpec => [](RealtimeInv /\ SessionInv /\ WebhookInv /\ BreakerInv /\ PersistInv)
<1> DEFINE Inv == RealtimeInv /\ SessionInv /\ WebhookInv /\ BreakerInv /\ PersistInv
<1>1. ServicesInit => Inv
  BY RealtimeInitInv, SessionInitInv, WebhookInitInv, BreakerInitInv, PersistInitInv DEF ServicesInit
<1>2. Inv /\ [ServicesNext]_serviceVars => Inv'
  BY PartStep, RealtimeStepInv, SessionStepInv, WebhookStepInv, BreakerStepInv, PersistStepInv
<1> QED BY <1>1, <1>2, PTL DEF ServicesSpec

\* Every state of every part is well typed: the channels of a realtime call stay
\* in their capacity, the breaker's count in the number of its requests, a
\* webhook's row in its attempts.
THEOREM ServicesTypeCorrect == ServicesSpec => []ServicesTypeOK
<1>1. RealtimeInv /\ SessionInv /\ WebhookInv /\ BreakerInv /\ PersistInv => ServicesTypeOK
  BY DEF ServicesTypeOK, RealtimeInv, SessionInv, WebhookInv, BreakerInv, PersistInv
<1> QED BY <1>1, ServicesInvariance, PTL

\* What the server does is, for each part, a behaviour of that part alone: what
\* is proved of a part's specification holds of the server.
THEOREM ServicesImplementParts ==
  ServicesSpec => RealtimeSpec /\ SessionSpec /\ WebhookSpec /\ BreakerSpec /\ PersistSpec
<1>1. ServicesInit => RealtimeInit /\ SessionInit /\ WebhookInit /\ BreakerInit /\ PersistInit
  BY DEF ServicesInit
<1> QED BY <1>1, PartStep, PTL
        DEF ServicesSpec, RealtimeSpec, SessionSpec, WebhookSpec, BreakerSpec, PersistSpec

\* So each part's promise is kept beside the others: no send on a closed channel,
\* an ended session is torn down, the breaker counts its requests, the transcript
\* is recorded, interrupted audio is silent and a delivered webhook stays delivered.
THEOREM ServicesKeepPromises ==
  ServicesSpec =>
    /\ [](NeverSendsOnClosed /\ EndBringsDown /\ SlotsAccounted /\ OneProbe /\ EverythingRecorded)
    /\ InterruptedAudioIsSilent /\ SuccessIsKept
BY ServicesImplementParts, RealtimeNeverSendsOnClosed, SessionEndBringsDown, BreakerSlotsAccounted,
   BreakerOneProbe, PersistEverythingRecorded, RealtimeInterruptedAudioIsSilent,
   WebhookSuccessIsKept, PTL
=============================================================================
