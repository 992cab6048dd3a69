-------------------------- MODULE DecisionCycleProofs --------------------------
(***************************************************************************)
(* Theorems about DecisionCycle, for any number of drivers, any backends,    *)
(* retries and routings.                                                     *)
(***************************************************************************)
EXTENDS DecisionCycle, WellFoundedInduction, TLAPS

-------------------------------------------------------------------------------
(* The chain of backends. *)

LEMMA ChainOfBackends ==
  ASSUME NEW r \in Routes, NEW s \in Sides
  PROVE  /\ Chain(r, s) \in Seq(Backends)
         /\ Len(Chain(r, s)) \in 1..2
         /\ DOMAIN Chain(r, s) = 1..Len(Chain(r, s))
         /\ \A k \in DOMAIN Chain(r, s) : Chain(r, s)[k] \in Backends
<1>1. r[s].primary \in Backends /\ r[s].fallback \in Backends \cup {None}
  BY DEF Routes
<1>2. CASE r[s].fallback \in {None, r[s].primary}
  <2>1. Chain(r, s) = <<r[s].primary>>
    BY <1>2 DEF Chain
  <2>2. QED
    BY <1>1, <2>1
<1>3. CASE r[s].fallback \notin {None, r[s].primary}
  <2>1. Chain(r, s) = <<r[s].primary, r[s].fallback>>
    BY <1>3 DEF Chain
  <2>2. QED
    BY <1>1, <1>3, <2>1
<1>4. QED
  BY <1>2, <1>3

\* The types of what is asked, in a turn.
LEMMA AskedTypes ==
  ASSUME TypeOK, NEW d \in Drivers, pc[d] \in InCycle
  PROVE  /\ route[d] \in Routes /\ side[d] \in Sides /\ cycle[d] \in Cycles
         /\ Asked(d) \in Backends
         /\ call[d].link \in 1..Len(Chain(route[d], side[d]))
         /\ call[d] \in Asks
         /\ Retries[Asked(d)] \in Nat
<1>1. /\ route[d] \in Routes /\ side[d] \in Sides /\ cycle[d] \in Cycles
      /\ call[d].link \in 1..Len(Chain(route[d], side[d]))
  BY DEF TypeOK, MemoryTypes, TurnTypes, InCycle
<1>2. Asked(d) \in Backends
  BY <1>1, ChainOfBackends DEF Asked
<1>3. QED
  BY <1>1, <1>2, DecisionAssumption DEF TypeOK, MemoryTypes

\* A result is recorded with the types of the columns.
LEMMA EndedType ==
  ASSUME TypeOK, NEW d \in Drivers, pc[d] \in InCycle, NEW status \in Statuses
  PROVE  Ended(d, status) \in Entries
BY AskedTypes DEF Ended, Entries, Asks

LEMMA FailureIsAStatus ==
  ASSUME NEW raw PROVE FailureStatus(raw) \in Statuses \ {"succeeded"}
BY DEF FailureStatus, Statuses

\* A step of one driver leaves the turns of the others alone.
LEMMA OneTurn ==
  ASSUME TypeOK, NEW d \in Drivers,
         \A e \in Drivers : e # d =>
           /\ pc'[e] = pc[e] /\ route'[e] = route[e] /\ cycle'[e] = cycle[e]
           /\ side'[e] = side[e] /\ call'[e] = call[e]
           /\ heard'[e] = heard[e] /\ verdict'[e] = verdict[e],
         pc'[d] # "off" => route'[d] # None,
         pc'[d] \in {"judge", "note"} => call'[d].trace # <<>>,
         IF pc'[d] \in InCycle
         THEN cycle'[d] \in Cycles /\ call'[d].link \in 1..Len(Chain(route'[d], side'[d]))
         ELSE side'[d] = "red" /\ call'[d] = Fresh /\ heard'[d] = <<>> /\ verdict'[d] = 0
  PROVE  TurnTypes'
<1>1. \A e \in Drivers :
        /\ pc'[e] # "off" => route'[e] # None
        /\ pc'[e] \in {"judge", "note"} => call'[e].trace # <<>>
        /\ IF pc'[e] \in InCycle
           THEN cycle'[e] \in Cycles /\ call'[e].link \in 1..Len(Chain(route'[e], side'[e]))
           ELSE side'[e] = "red" /\ call'[e] = Fresh /\ heard'[e] = <<>> /\ verdict'[e] = 0
  BY DEF TypeOK, TurnTypes
<1>2. Fresh' = Fresh
  BY DEF Fresh
<1>3. QED
  BY <1>1, <1>2 DEF TurnTypes

\* Nothing asked yet is a way to ask.
LEMMA FreshType == Fresh \in Asks
BY DEF Fresh, Asks

\* A process that ends leaves the types as they are.
LEMMA ForgetKeepsTypes ==
  ASSUME TypeOK, NEW d \in Drivers, Forget(d), begun' \in Nat, deaths' \in Nat
  PROVE  MemoryTypes' /\ TurnTypes'
<1>1. Nobody \in [Sides -> Nat] /\ 1 \in 1..(MaxCycle + 1) /\ "red" \in Sides
  BY DecisionAssumption DEF Nobody, Sides
<1>2. MemoryTypes'
  BY <1>1, FreshType, SMTT(30) DEF Forget, TypeOK, MemoryTypes
<1>3. TurnTypes'
  BY <1>2, OneTurn, SMTT(30) DEF Forget, TypeOK, MemoryTypes, InCycle
<1>4. QED
  BY <1>2, <1>3

\* The steps between cycles, and a death, keep the types.
LEMMA IdleStepsKeepTypes ==
  ASSUME TypeOK, NEW d \in Drivers, Launch(d) \/ Begin(d) \/ Leave(d) \/ AlienReply(d) \/ Dies(d)
  PROVE  TypeOK'
<1>1. CASE Launch(d)
  <2>1. PICK r \in Routings, c \in Starts :
          /\ pc[d] = "off" /\ pc' = [pc EXCEPT ![d] = "top"]
          /\ route' = [route EXCEPT ![d] = r]
          /\ cycle' = [cycle EXCEPT ![d] = c]
          /\ UNCHANGED <<store, side, call, heard, verdict, picked, cited, done, counts>>
    BY <1>1 DEF Launch, Step
  <2>2. r \in Routes /\ r # None /\ c \in 1..(MaxCycle + 1)
    BY DecisionAssumption DEF Cycles
  <2>3. MemoryTypes'
    BY <2>1, <2>2 DEF TypeOK, MemoryTypes, counts
  <2>4. TurnTypes'
    <3>1. side[d] = "red" /\ call[d] = Fresh /\ heard[d] = <<>> /\ verdict[d] = 0
      BY <2>1 DEF TypeOK, TurnTypes, InCycle
    <3>2. /\ pc'[d] = "top" /\ route'[d] # None
          /\ \A e \in Drivers : e # d =>
               pc'[e] = pc[e] /\ route'[e] = route[e] /\ cycle'[e] = cycle[e]
      BY <2>1, <2>2 DEF TypeOK, MemoryTypes
    <3>3. QED
      BY <2>1, <3>1, <3>2, OneTurn DEF InCycle
  <2>5. StoreTypes'
    BY <2>1 DEF TypeOK, StoreTypes, store
  <2>6. QED
    BY <2>3, <2>4, <2>5 DEF TypeOK
<1>2. CASE Begin(d)
  <2>1. MemoryTypes'
    BY <1>2 DEF Begin, Step, TypeOK, MemoryTypes, locals, InCycle
  <2>2. /\ route[d] \in Routes /\ route[d] # None
        /\ cycle[d] \in Cycles /\ side[d] \in Sides /\ call[d] = Fresh
    BY <1>2 DEF Begin, Step, TypeOK, MemoryTypes, TurnTypes, InCycle
  <2>3. call[d].link \in 1..Len(Chain(route[d], side[d]))
    BY <2>2, ChainOfBackends, SMTT(30) DEF Fresh
  <2>4. TurnTypes'
    BY <1>2, <2>2, <2>3, OneTurn DEF Begin, Step, locals, TypeOK, MemoryTypes, InCycle
  <2>5. StoreTypes'
    BY <1>2 DEF Begin, store, TypeOK, StoreTypes
  <2>6. QED
    BY <2>1, <2>4, <2>5 DEF TypeOK
<1>3. CASE Leave(d)
  <2>1. begun' \in Nat /\ deaths' \in Nat
    BY <1>3 DEF Leave, counts, TypeOK, MemoryTypes
  <2>2. QED
    BY <1>3, <2>1, ForgetKeepsTypes DEF Leave, store, TypeOK, StoreTypes
<1>4. CASE AlienReply(d) \/ Dies(d)
  <2>1. begun' \in Nat /\ deaths' \in Nat
    BY <1>4 DEF AlienReply, Dies, TypeOK, MemoryTypes
  <2>2. QED
    BY <1>4, <2>1, ForgetKeepsTypes DEF AlienReply, Dies, store, TypeOK, StoreTypes
<1>5. QED
  BY <1>1, <1>2, <1>3, <1>4
\* Hearing a reply keeps the types of what it touches.
LEMMA HearsKeepsTypes ==
  ASSUME TypeOK, NEW d \in Drivers, pc[d] \in InCycle, NEW r, Hears(d, r)
  PROVE  /\ StoreTypes'
         /\ heard' \in [Drivers -> Seq(Heard)]
         /\ \A e \in Drivers : e # d => heard'[e] = heard[e]
         /\ heard'[d] = Append(heard[d], [backend |-> Asked(d), reply |-> r])
<1>1. heard \in [Drivers -> Seq(Heard)]
  BY DEF TypeOK, MemoryTypes
<1>2. r \in ReplyKinds
  BY AskedTypes, DecisionAssumption DEF Hears
<1>3. [backend |-> Asked(d), reply |-> r] \in Heard
  BY <1>2, AskedTypes DEF Heard
<1>4. Append(heard[d], [backend |-> Asked(d), reply |-> r]) \in Seq(Heard)
  BY <1>1, <1>3
<1>5. heard' = [heard EXCEPT ![d] = Append(heard[d], [backend |-> Asked(d), reply |-> r])]
  BY DEF Hears
<1>6. StoreTypes'
  BY DEF Hears, store, TypeOK, StoreTypes
<1>7. QED
  BY <1>1, <1>4, <1>5, <1>6

\* How far a driver has got is a record: the fields a step gives it, and no other.
LEMMA AskTrace ==
  ASSUME NEW a \in Asks, NEW t \in Seq(Entries)
  PROVE  /\ [a EXCEPT !.trace = t] \in Asks
         /\ [a EXCEPT !.trace = t].trace = t
         /\ [a EXCEPT !.trace = t].link = a.link
         /\ [a EXCEPT !.trace = t].attempt = a.attempt
         /\ [a EXCEPT !.trace = t].raw = a.raw
BY DEF Asks

LEMMA AskAttempt ==
  ASSUME NEW a \in Asks, NEW raw \in BOOLEAN
  PROVE  /\ [a EXCEPT !.attempt = a.attempt + 1, !.raw = raw] \in Asks
         /\ [a EXCEPT !.attempt = a.attempt + 1, !.raw = raw].link = a.link
         /\ [a EXCEPT !.attempt = a.attempt + 1, !.raw = raw].attempt = a.attempt + 1
         /\ [a EXCEPT !.attempt = a.attempt + 1, !.raw = raw].raw = raw
         /\ [a EXCEPT !.attempt = a.attempt + 1, !.raw = raw].trace = a.trace
<1> DEFINE n == a.attempt + 1
<1>1. n \in Nat \ {0}
  BY DEF Asks
<1> HIDE DEF n
<1>2. /\ [a EXCEPT !.attempt = n, !.raw = raw] \in Asks
      /\ [a EXCEPT !.attempt = n, !.raw = raw].link = a.link
      /\ [a EXCEPT !.attempt = n, !.raw = raw].attempt = n
      /\ [a EXCEPT !.attempt = n, !.raw = raw].raw = raw
      /\ [a EXCEPT !.attempt = n, !.raw = raw].trace = a.trace
  BY <1>1 DEF Asks
<1>3. QED
  BY <1>2 DEF n

LEMMA AskAnew ==
  ASSUME NEW t \in Seq(Entries), NEW l \in 1..2
  PROVE  /\ [Fresh EXCEPT !.link = l, !.trace = t] \in Asks
         /\ [Fresh EXCEPT !.link = l, !.trace = t].link = l
         /\ [Fresh EXCEPT !.link = l, !.trace = t].attempt = 1
         /\ [Fresh EXCEPT !.link = l, !.trace = t].raw = FALSE
         /\ [Fresh EXCEPT !.link = l, !.trace = t].trace = t
<1>1. Fresh \in Asks /\ Fresh.attempt = 1 /\ Fresh.raw = FALSE
  BY FreshType DEF Fresh
<1>2. QED
  BY <1>1 DEF Asks

\* What a step that asks does to pc and call.
AskedOnce(d, r, a) ==
  /\ Hears(d, r)
  /\ pc' = [pc EXCEPT ![d] = pc'[d]]
  /\ call' = [call EXCEPT ![d] = a]
  /\ a \in Asks /\ a.link \in 1..Len(Chain(route[d], side[d]))

LEMMA AskSteps ==
  ASSUME TypeOK, NEW d \in Drivers, Ask(d)
  PROVE  \/ /\ Answered(d) /\ pc'[d] = "judge"
            /\ AskedOnce(d, "good",
                 [call[d] EXCEPT !.trace = Append(call[d].trace, Ended(d, "succeeded"))])
         \/ \E r \in {"bad", "silent"} :
              \/ /\ Retry(d, r) /\ pc'[d] = "ask"
                 /\ AskedOnce(d, r, [call[d] EXCEPT !.attempt = call[d].attempt + 1, !.raw = Raw(d, r)])
              \/ /\ FailOver(d, r) /\ pc'[d] = "ask"
                 /\ AskedOnce(d, r, [Fresh EXCEPT !.link = call[d].link + 1, !.trace = Traced(d, r)])
              \/ /\ GiveUp(d, r) /\ pc'[d] = "note"
                 /\ AskedOnce(d, r, [call[d] EXCEPT !.trace = Traced(d, r)])
<1>0. pc[d] = "ask" /\ pc[d] \in InCycle
  BY DEF Ask, Answered, Retry, FailOver, GiveUp, InCycle
<1>1. /\ call[d] \in Asks /\ call \in [Drivers -> Asks] /\ pc \in [Drivers -> InCycle \cup {"off", "top"}]
      /\ call[d].attempt \in Nat \ {0} /\ call[d].link \in 1..2
      /\ call[d].trace \in Seq(Entries) /\ call[d].raw \in BOOLEAN
      /\ Len(Chain(route[d], side[d])) \in 1..2
      /\ call[d].link \in 1..Len(Chain(route[d], side[d]))
  BY <1>0, AskedTypes, ChainOfBackends DEF TypeOK, MemoryTypes, Asks
<1>2. \A q \in {"bad", "silent"} : Raw(d, q) \in BOOLEAN /\ Traced(d, q) \in Seq(Entries)
  <2>1. TAKE q \in {"bad", "silent"}
  <2>2. Ended(d, FailureStatus(Raw(d, q))) \in Entries
    BY <1>0, EndedType, FailureIsAStatus
  <2>3. QED
    BY <1>1, <2>2 DEF Raw, Traced
<1>3. CASE Answered(d)
  <2>1. Append(call[d].trace, Ended(d, "succeeded")) \in Seq(Entries)
    BY <1>0, <1>1, EndedType DEF Statuses
  <2> DEFINE a == [call[d] EXCEPT !.trace = Append(call[d].trace, Ended(d, "succeeded"))]
  <2>2. a \in Asks /\ a.link = call[d].link
    BY <1>1, <2>1, AskTrace
  <2>3. call' = [call EXCEPT ![d] = a] /\ pc' = [pc EXCEPT ![d] = "judge"] /\ Hears(d, "good")
    BY <1>3, <1>1 DEF Answered
  <2>4. QED
    BY <1>3, <1>1, <2>2, <2>3 DEF AskedOnce
<1>4. ASSUME NEW r \in {"bad", "silent"}, Retry(d, r)
      PROVE  pc'[d] = "ask" /\
        AskedOnce(d, r, [call[d] EXCEPT !.attempt = call[d].attempt + 1, !.raw = Raw(d, r)])
  <2> DEFINE a == [call[d] EXCEPT !.attempt = call[d].attempt + 1, !.raw = Raw(d, r)]
  <2>1. a \in Asks /\ a.link = call[d].link
    BY <1>1, <1>2, AskAttempt
  <2>2. call' = [call EXCEPT ![d] = a] /\ pc' = pc /\ Hears(d, r)
    BY <1>4, <1>1 DEF Retry
  <2>3. QED
    BY <1>0, <1>1, <2>1, <2>2 DEF AskedOnce
<1>5. ASSUME NEW r \in {"bad", "silent"}, FailOver(d, r)
      PROVE  pc'[d] = "ask" /\
        AskedOnce(d, r, [Fresh EXCEPT !.link = call[d].link + 1, !.trace = Traced(d, r)])
  <2> DEFINE a == [Fresh EXCEPT !.link = call[d].link + 1, !.trace = Traced(d, r)]
  <2>1. call[d].link + 1 \in 1..Len(Chain(route[d], side[d])) /\ call[d].link + 1 \in 1..2
    <3> DEFINE n == Len(Chain(route[d], side[d]))
               k == call[d].link
    <3>1. k # n
      BY <1>5 DEF FailOver, LastLink
    <3>2. n \in 1..2 /\ k \in 1..n
      BY <1>1
    <3> HIDE DEF n, k
    <3>3. k + 1 \in 1..n /\ k + 1 \in 1..2
      BY <3>1, <3>2
    <3>4. QED
      BY <3>3 DEF n, k
  <2>2. a \in Asks /\ a.link = call[d].link + 1
    <3> DEFINE l == call[d].link + 1
    <3>1. l \in 1..2 /\ Traced(d, r) \in Seq(Entries)
      BY <1>2, <2>1
    <3> HIDE DEF l
    <3>2. /\ [Fresh EXCEPT !.link = l, !.trace = Traced(d, r)] \in Asks
          /\ [Fresh EXCEPT !.link = l, !.trace = Traced(d, r)].link = l
      BY <3>1, AskAnew
    <3>3. QED
      BY <3>2 DEF l
  <2>3. call' = [call EXCEPT ![d] = a] /\ pc' = pc /\ Hears(d, r)
    BY <1>5 DEF FailOver
  <2>4. QED
    BY <1>0, <1>1, <2>1, <2>2, <2>3 DEF AskedOnce
<1>6. ASSUME NEW r \in {"bad", "silent"}, GiveUp(d, r)
      PROVE  pc'[d] = "note" /\ AskedOnce(d, r, [call[d] EXCEPT !.trace = Traced(d, r)])
  <2> DEFINE a == [call[d] EXCEPT !.trace = Traced(d, r)]
  <2>1. a \in Asks /\ a.link = call[d].link
    BY <1>1, <1>2, AskTrace
  <2>2. call' = [call EXCEPT ![d] = a] /\ pc' = [pc EXCEPT ![d] = "note"] /\ Hears(d, r)
    BY <1>6, <1>1 DEF GiveUp
  <2>3. QED
    BY <1>1, <2>1, <2>2 DEF AskedOnce
<1>7. QED
  BY <1>3, <1>4, <1>5, <1>6 DEF Ask

\* Asking keeps the types.
LEMMA AskKeepsTypes ==
  ASSUME TypeOK, NEW d \in Drivers, Ask(d)
  PROVE  TypeOK'
<1>0. pc[d] = "ask" /\ pc[d] \in InCycle
  BY DEF Ask, Answered, Retry, FailOver, GiveUp, InCycle
<1>1. PICK r, a : /\ AskedOnce(d, r, a) /\ pc'[d] \in {"ask", "judge", "note"}
                  /\ pc'[d] # "ask" => a.trace # <<>>
  <2>1. /\ call[d] \in Asks /\ call[d].trace \in Seq(Entries)
        /\ Ended(d, "succeeded") \in Entries
        /\ \A q : Ended(d, FailureStatus(Raw(d, q))) \in Entries
    BY <1>0, AskedTypes, EndedType, FailureIsAStatus DEF Asks, Statuses
  <2>2. \A x \in Entries : Append(call[d].trace, x) \in Seq(Entries) /\ Append(call[d].trace, x) # <<>>
    BY <2>1
  <2>3. \A q : Traced(d, q) \in Seq(Entries) /\ Traced(d, q) # <<>>
    <3>1. TAKE q
    <3>2. Ended(d, FailureStatus(Raw(d, q))) \in Entries
      BY <2>1
    <3>3. QED
      BY <2>2, <3>2 DEF Traced
  <2>4. CASE pc'[d] = "ask"
    BY <2>4, AskSteps
  <2>5. CASE Answered(d) /\ pc'[d] = "judge" /\ AskedOnce(d, "good",
                 [call[d] EXCEPT !.trace = Append(call[d].trace, Ended(d, "succeeded"))])
    <3>1. [call[d] EXCEPT !.trace = Append(call[d].trace, Ended(d, "succeeded"))].trace # <<>>
      BY <2>1, <2>2, AskTrace
    <3>2. QED
      BY <2>5, <3>1
  <2>6. ASSUME NEW q \in {"bad", "silent"}, pc'[d] = "note",
               AskedOnce(d, q, [call[d] EXCEPT !.trace = Traced(d, q)])
        PROVE  \E r, a : /\ AskedOnce(d, r, a) /\ pc'[d] \in {"ask", "judge", "note"}
                         /\ pc'[d] # "ask" => a.trace # <<>>
    <3>1. [call[d] EXCEPT !.trace = Traced(d, q)].trace # <<>>
      BY <2>1, <2>3, AskTrace
    <3>2. QED
      BY <2>6, <3>1
  <2>7. QED
    BY <2>4, <2>5, <2>6, AskSteps
<1>2. /\ heard' \in [Drivers -> Seq(Heard)]
      /\ \A e \in Drivers : e # d => heard'[e] = heard[e]
      /\ StoreTypes'
  BY <1>0, <1>1, HearsKeepsTypes DEF AskedOnce
<1>3. UNCHANGED <<begun, deaths, route, cycle, side, verdict, picked, cited, done>>
  BY <1>1 DEF AskedOnce, Hears, counts
<1>4. /\ \A e \in Drivers : e # d => pc'[e] = pc[e] /\ call'[e] = call[e]
      /\ call'[d] = a /\ pc'[d] \in InCycle
      /\ call' \in [Drivers -> Asks] /\ pc' \in [Drivers -> InCycle \cup {"off", "top"}]
  BY <1>1 DEF AskedOnce, TypeOK, MemoryTypes, InCycle
<1>5. MemoryTypes'
  BY <1>2, <1>3, <1>4 DEF TypeOK, MemoryTypes
<1>6. route[d] # None /\ cycle[d] \in Cycles
  BY <1>0 DEF TypeOK, TurnTypes, InCycle
<1>7. TurnTypes'
  BY <1>1, <1>2, <1>3, <1>4, <1>6, OneTurn DEF AskedOnce
<1>8. QED
  BY <1>2, <1>5, <1>7 DEF TypeOK
-------------------------------------------------------------------------------
(* The other steps of a turn. *)

\* The rows that are written have the types of their columns.
LEMMA RowTypes ==
  ASSUME TypeOK, NEW d \in Drivers, pc[d] \in InCycle
  PROVE  /\ call[d].trace # <<>> => Invocation(d) \in Invocations
         /\ [cited |-> cited[d], done |-> done[d], live |-> d \in Live,
             class |-> Classify({s \in Sides : Went(d, s)})] \in CycleRows
<1>1. /\ route[d] \in Routes /\ side[d] \in Sides /\ cycle[d] \in Cycles
      /\ call[d].link \in 1..2 /\ call[d].trace \in Seq(Entries)
      /\ heard[d] \in Seq(Heard) /\ verdict[d] \in Nat
      /\ cited[d] \in [Sides -> Nat] /\ done[d] \in [Sides -> Nat]
  BY AskedTypes DEF TypeOK, MemoryTypes, Asks
<1>2. ASSUME call[d].trace # <<>>
      PROVE  Result(d) \in Entries
  BY <1>1, <1>2 DEF Result
<1>3. ASSUME call[d].trace # <<>>
      PROVE  Invocation(d) \in Invocations
  BY <1>1, <1>2, <1>3 DEF Invocation, Invocations, Entries
<1>4. Classify({s \in Sides : Went(d, s)}) \in
        {"both_succeeded", "one_succeeded_one_failed", "both_failed"}
  BY DEF Classify
<1>5. QED
  BY <1>1, <1>3, <1>4 DEF CycleRows

\* What comes after a turn has the types of a turn.
LEMMA NextTurnTypes ==
  ASSUME TypeOK, NEW d \in Drivers, pc[d] \in InCycle, NextTurn(d)
  PROVE  /\ pc' \in [Drivers -> InCycle \cup {"off", "top"}]
         /\ side' \in [Drivers -> Sides]
         /\ call' \in [Drivers -> Asks]
         /\ heard' \in [Drivers -> Seq(Heard)]
         /\ verdict' \in [Drivers -> Nat]
         /\ \A e \in Drivers : e # d =>
              /\ pc'[e] = pc[e] /\ side'[e] = side[e] /\ call'[e] = call[e]
              /\ heard'[e] = heard[e] /\ verdict'[e] = verdict[e]
         /\ pc'[d] \in {"ask", "close"}
         /\ call'[d].link \in 1..Len(Chain(route[d], side'[d]))
<1>1. /\ route[d] \in Routes /\ side[d] \in Sides
      /\ call[d].link \in 1..Len(Chain(route[d], side[d]))
  BY AskedTypes
<1>2. CASE side[d] = "red"
  <2>1. pc' = [pc EXCEPT ![d] = "ask"] /\ Turn(d, "blue")
    BY <1>2 DEF NextTurn
  <2>2. 1 \in 1..Len(Chain(route[d], "blue"))
    <3>1. "blue" \in Sides
      BY DEF Sides
    <3>2. Len(Chain(route[d], "blue")) \in 1..2
      BY <1>1, <3>1, ChainOfBackends
    <3>3. QED
      BY <3>2, SMTT(30)
  <2>3. side'[d] = "blue" /\ call'[d] = Fresh /\ Fresh.link = 1
    BY <2>1 DEF Turn, TypeOK, MemoryTypes, Fresh
  <2>4. QED
    BY <2>1, <2>2, <2>3, FreshType DEF Turn, TypeOK, MemoryTypes, InCycle, Sides
<1>3. CASE side[d] # "red"
  BY <1>1, <1>3 DEF NextTurn, TypeOK, MemoryTypes, InCycle
<1>4. QED
  BY <1>2, <1>3
\* Judging, recording, executing and closing keep the types.
LEMMA JudgeKeepsTypes ==
  ASSUME TypeOK, NEW d \in Drivers, Judge(d)
  PROVE  TypeOK'
<1>1. pc[d] = "judge" /\ pc' = [pc EXCEPT ![d] = "note"] /\ pc[d] \in InCycle
  BY DEF Judge, Step, InCycle
<1>2. /\ side[d] \in Sides /\ cycle[d] \in Cycles /\ route[d] # None /\ call[d].trace # <<>>
      /\ call[d].link \in 1..Len(Chain(route[d], side[d]))
  BY <1>1, AskedTypes DEF TypeOK, TurnTypes
<1>3. StoreTypes'
  BY <1>2 DEF Judge, TypeOK, StoreTypes
<1>4. /\ verdict' \in [Drivers -> Nat]
      /\ \A e \in Drivers : e # d => verdict'[e] = verdict[e]
  BY DEF Judge, TypeOK, StoreTypes, MemoryTypes
<1>5. MemoryTypes'
  BY <1>1, <1>4 DEF Judge, counts, TypeOK, MemoryTypes, InCycle
<1>6. \A e \in Drivers : e # d => pc'[e] = pc[e]
  BY <1>1 DEF TypeOK, MemoryTypes
<1>7. pc'[d] = "note" /\ UNCHANGED <<route, cycle, side, call, heard>>
  BY <1>1 DEF Judge, TypeOK, MemoryTypes
<1>8. TurnTypes'
  BY <1>2, <1>4, <1>6, <1>7, OneTurn DEF InCycle
<1>9. QED
  BY <1>3, <1>5, <1>8 DEF TypeOK

LEMMA NoteKeepsTypes ==
  ASSUME TypeOK, NEW d \in Drivers, Note(d)
  PROVE  TypeOK'
<1>1. pc[d] = "note" /\ pc[d] \in InCycle
  BY DEF Note, InCycle
<1>2. /\ side[d] \in Sides /\ cycle[d] \in Cycles /\ route[d] # None
      /\ call[d].link \in 1..Len(Chain(route[d], side[d]))
      /\ Invocation(d) \in Invocations
  BY <1>1, AskedTypes, RowTypes DEF TypeOK, TurnTypes
<1>3. StoreTypes'
  BY <1>2 DEF Note, TypeOK, StoreTypes
<1>4. cited' \in [Drivers -> [Sides -> Nat]]
  BY <1>2 DEF Note, TypeOK, StoreTypes, MemoryTypes
<1>5. CASE pc' = [pc EXCEPT ![d] = "fetch"] /\ UNCHANGED <<side, call, heard, verdict>>
  <2>1. MemoryTypes'
    BY <1>4, <1>5 DEF Note, counts, TypeOK, MemoryTypes, InCycle
  <2>2. pc'[d] = "fetch" /\ \A e \in Drivers : e # d => pc'[e] = pc[e]
    BY <1>5 DEF TypeOK, MemoryTypes
  <2>3. TurnTypes'
    BY <1>2, <1>5, <2>2, OneTurn DEF Note, InCycle
  <2>4. QED
    BY <1>3, <2>1, <2>3 DEF TypeOK
<1>6. CASE NextTurn(d)
  <2>1. MemoryTypes'
    BY <1>1, <1>4, <1>6, NextTurnTypes DEF Note, counts, TypeOK, MemoryTypes
  <2>2. TurnTypes'
    BY <1>1, <1>2, <1>6, NextTurnTypes, OneTurn DEF Note, InCycle
  <2>3. QED
    BY <1>3, <2>1, <2>2 DEF TypeOK
<1>7. QED
  BY <1>5, <1>6 DEF Note

LEMMA FetchKeepsTypes ==
  ASSUME TypeOK, NEW d \in Drivers, Fetch(d), Latest(side[d]) \in Nat
  PROVE  TypeOK'
<1>1. pc[d] = "fetch" /\ pc' = [pc EXCEPT ![d] = "create"] /\ pc[d] \in InCycle
  BY DEF Fetch, Step, InCycle
<1>2. /\ route[d] # None /\ cycle[d] \in Cycles
      /\ call[d].link \in 1..Len(Chain(route[d], side[d]))
  BY <1>1, AskedTypes DEF TypeOK, TurnTypes
<1>3. StoreTypes'
  BY DEF Fetch, store, TypeOK, StoreTypes
<1>4. MemoryTypes'
  BY <1>1 DEF Fetch, counts, TypeOK, MemoryTypes, InCycle
<1>5. pc'[d] = "create" /\ \A e \in Drivers : e # d => pc'[e] = pc[e]
  BY <1>1 DEF TypeOK, MemoryTypes
<1>6. TurnTypes'
  BY <1>2, <1>5, OneTurn DEF Fetch, InCycle
<1>7. QED
  BY <1>3, <1>4, <1>6 DEF TypeOK

LEMMA OpenKeepsTypes ==
  ASSUME TypeOK, NEW d \in Drivers, Open(d)
  PROVE  TypeOK'
<1> DEFINE x == [invocation |-> cited[d][side[d]], verdict |-> picked[d],
                 state |-> "pending", ok |-> TRUE]
<1>1. /\ pc[d] = "create" /\ pc' = [pc EXCEPT ![d] = "start"] /\ pc[d] \in InCycle
      /\ executions' = Append(executions, x)
  BY DEF Open, Step, InCycle
<1>2. /\ side[d] \in Sides /\ route[d] # None /\ cycle[d] \in Cycles
      /\ call[d].link \in 1..Len(Chain(route[d], side[d]))
  BY <1>1, AskedTypes DEF TypeOK, TurnTypes
<1>3. x \in Executions
  BY <1>2 DEF TypeOK, MemoryTypes, Executions
<1> HIDE DEF x
<1>4. StoreTypes'
  BY <1>1, <1>3 DEF Open, TypeOK, StoreTypes
<1>5. done' \in [Drivers -> [Sides -> Nat]] /\ picked' \in [Drivers -> Nat]
  BY <1>2 DEF Open, TypeOK, StoreTypes, MemoryTypes
<1>6. MemoryTypes'
  BY <1>1, <1>5 DEF Open, counts, TypeOK, MemoryTypes, InCycle
<1>7. pc'[d] = "start" /\ \A e \in Drivers : e # d => pc'[e] = pc[e]
  BY <1>1 DEF TypeOK, MemoryTypes
<1>8. TurnTypes'
  BY <1>2, <1>7, OneTurn DEF Open, InCycle
<1>9. QED
  BY <1>4, <1>6, <1>8 DEF TypeOK

\* Writing a row over leaves the others, and its invocation and verdict, as they are.
LEMMA FinalizeWrites ==
  ASSUME TypeOK, NEW d \in Drivers, NEW ok \in BOOLEAN,
         NEW state \in {"in_flight", "completed", "aborted"}, Finalize(d, state, ok)
  PROVE  /\ executions' \in Seq(Executions)
         /\ DOMAIN executions' = DOMAIN executions
         /\ \A n \in DOMAIN executions : n # done[d][side[d]] => executions'[n] = executions[n]
         /\ \A n \in DOMAIN executions : /\ executions'[n].invocation = executions[n].invocation
                                         /\ executions'[n].verdict = executions[n].verdict
                                         /\ n = done[d][side[d]] => executions'[n].state = state
         /\ done[d][side[d]] \in DOMAIN executions =>
              executions' = [executions EXCEPT ![done[d][side[d]]] = executions'[done[d][side[d]]]]
<1> DEFINE b == done[d][side[d]]
<1>1. executions \in Seq(Executions)
  BY DEF TypeOK, StoreTypes
<1>2. executions' = [executions EXCEPT ![b] = [@ EXCEPT !.state = state, !.ok = ok]]
  BY DEF Finalize
<1> HIDE DEF b
<1>3. /\ DOMAIN executions' = DOMAIN executions
      /\ \A n \in DOMAIN executions : n # b => executions'[n] = executions[n]
  BY <1>2
<1>4. ASSUME NEW n \in DOMAIN executions
      PROVE  /\ executions'[n] \in Executions
             /\ executions'[n].invocation = executions[n].invocation
             /\ executions'[n].verdict = executions[n].verdict
             /\ n = b => executions'[n].state = state
  <2>1. executions[n] \in Executions
    BY <1>1
  <2>2. CASE n = b
    <3>1. executions'[n] = [executions[n] EXCEPT !.state = state, !.ok = ok]
      BY <1>2, <2>2
    <3>2. QED
      BY <2>1, <3>1 DEF Executions
  <2>3. CASE n # b
    BY <1>3, <2>1, <2>3
  <2>4. QED
    BY <2>2, <2>3
<1>5. executions' \in Seq(Executions)
  <2>1. executions \in [1..Len(executions) -> Executions] /\ Len(executions) \in Nat
    BY <1>1
  <2>2. executions' \in [1..Len(executions) -> Executions]
    BY <1>2, <1>4, <2>1
  <2>3. QED
    BY <2>1, <2>2
<1>6. b \in DOMAIN executions => executions' = [executions EXCEPT ![b] = executions'[b]]
  BY <1>2
<1>7. QED
  BY <1>3, <1>4, <1>5, <1>6 DEF b

LEMMA StartKeepsTypes ==
  ASSUME TypeOK, NEW d \in Drivers, Start(d)
  PROVE  TypeOK'
<1>1. /\ pc[d] = "start" /\ pc' = [pc EXCEPT ![d] = "walk"] /\ pc[d] \in InCycle
      /\ Finalize(d, "in_flight", TRUE)
  BY DEF Start, Step, InCycle
<1>2. /\ route[d] # None /\ cycle[d] \in Cycles
      /\ call[d].link \in 1..Len(Chain(route[d], side[d]))
  BY <1>1, AskedTypes DEF TypeOK, TurnTypes
<1>3. StoreTypes'
  BY <1>1, FinalizeWrites DEF Start, TypeOK, StoreTypes
<1>4. MemoryTypes'
  BY <1>1 DEF Start, locals, counts, TypeOK, MemoryTypes, InCycle
<1>5. pc'[d] = "walk" /\ \A e \in Drivers : e # d => pc'[e] = pc[e]
  BY <1>1 DEF TypeOK, MemoryTypes
<1>6. TurnTypes'
  BY <1>2, <1>5, OneTurn DEF Start, locals, InCycle
<1>7. QED
  BY <1>3, <1>4, <1>6 DEF TypeOK

LEMMA CompleteKeepsTypes ==
  ASSUME TypeOK, NEW d \in Drivers, Complete(d)
  PROVE  TypeOK'
<1>1. pc[d] = "walk" /\ pc[d] \in InCycle /\ NextTurn(d)
  BY DEF Complete, InCycle
<1>2. route[d] # None /\ cycle[d] \in Cycles
  BY <1>1, AskedTypes DEF TypeOK, TurnTypes
<1>3. StoreTypes'
  BY FinalizeWrites DEF Complete, TypeOK, StoreTypes
<1>4. MemoryTypes'
  BY <1>1, NextTurnTypes DEF Complete, counts, TypeOK, MemoryTypes
<1>5. TurnTypes'
  BY <1>1, <1>2, NextTurnTypes, OneTurn DEF Complete, InCycle
<1>6. QED
  BY <1>3, <1>4, <1>5 DEF TypeOK

LEMMA AbortKeepsTypes ==
  ASSUME TypeOK, NEW d \in Drivers, Abort(d)
  PROVE  TypeOK'
<1>1. Forget(d) /\ begun' \in Nat /\ deaths' \in Nat
  BY DEF Abort, TypeOK, MemoryTypes
<1>2. StoreTypes'
  BY FinalizeWrites DEF Abort, TypeOK, StoreTypes
<1>3. QED
  BY <1>1, <1>2, ForgetKeepsTypes DEF TypeOK

LEMMA CloseKeepsTypes ==
  ASSUME TypeOK, NEW d \in Drivers, Close(d)
  PROVE  TypeOK'
<1>1. pc[d] = "close" /\ pc' = [pc EXCEPT ![d] = "top"] /\ pc[d] \in InCycle
  BY DEF Close, Step, InCycle
<1>2. route[d] # None /\ cycle[d] \in Cycles /\ cycle[d] + 1 \in 1..(MaxCycle + 1)
  BY <1>1, AskedTypes, DecisionAssumption DEF TypeOK, TurnTypes, Cycles
<1>3. Nobody \in [Sides -> Nat] /\ "red" \in Sides
  BY DEF Nobody, Sides
<1>4. StoreTypes'
  BY <1>1, <1>2, RowTypes DEF Close, TypeOK, StoreTypes
<1>5. MemoryTypes'
  BY <1>1, <1>2, <1>3, FreshType DEF Close, Turn, counts, TypeOK, MemoryTypes, InCycle
<1>6. /\ \A e \in Drivers : e # d =>
           /\ pc'[e] = pc[e] /\ route'[e] = route[e] /\ cycle'[e] = cycle[e]
           /\ side'[e] = side[e] /\ call'[e] = call[e]
           /\ heard'[e] = heard[e] /\ verdict'[e] = verdict[e]
      /\ pc'[d] = "top" /\ route'[d] = route[d] /\ side'[d] = "red" /\ call'[d] = Fresh
      /\ heard'[d] = <<>> /\ verdict'[d] = 0
  BY <1>1 DEF Close, Turn, TypeOK, MemoryTypes
<1>7. TurnTypes'
  BY <1>2, <1>6, OneTurn DEF InCycle
<1>8. QED
  BY <1>4, <1>5, <1>7 DEF TypeOK
-------------------------------------------------------------------------------
(* The latest verdict. *)

Below == {ss \in Nat \X Nat : ss[1] < ss[2]}

\* A set of naturals that holds an element has a least one, and, if it is bounded, a
\* greatest one.
LEMMA Least ==
  ASSUME NEW T \in SUBSET Nat, T # {}
  PROVE  \E x \in T : \A y \in T : x <= y
<1>1. IsWellFoundedOn(Below, Nat)
  BY NatLessThanWellFounded DEF OpToRel, Below
<1>2. PICK x \in T : \A y \in T : ~(<<y, x>> \in Below)
  BY <1>1, WFMin
<1>3. \A y \in T : x <= y
  <2>1. TAKE y \in T
  <2>2. x \in Nat /\ y \in Nat /\ (y < x => <<y, x>> \in Below)
    BY DEF Below
  <2>3. QED
    BY <1>2, <2>2
<1>4. QED
  BY <1>3

LEMMA Greatest ==
  ASSUME NEW n \in Nat, NEW T \in SUBSET (1..n), T # {}
  PROVE  \E x \in T : \A y \in T : y <= x
<1> DEFINE U == {m \in Nat : \A y \in T : y <= m}
<1>1. n \in U
  OBVIOUS
<1>2. PICK u \in U : \A v \in U : u <= v
  BY <1>1, Least
<1>3. ASSUME u \notin T PROVE FALSE
  <2>1. PICK x \in T : TRUE
    OBVIOUS
  <2>2. u \in Nat /\ x \in Nat /\ x >= 1 /\ x <= u
    BY <1>2
  <2>3. u - 1 \in Nat
    BY <2>2
  <2>4. \A y \in T : y <= u - 1
    BY <1>2, <1>3
  <2>5. u <= u - 1
    BY <1>2, <2>3, <2>4
  <2>6. QED
    BY <2>2, <2>5
<1>4. QED
  BY <1>2, <1>3

\* The latest verdict about a coalition is one about it, and none is later.
LEMMA LatestIsLast ==
  ASSUME TypeOK, NEW s \in Sides, NEW v \in About(s)
  PROVE  Latest(s) \in About(s) /\ Latest(s) \in Nat \ {0} /\ v <= Latest(s)
<1>1. Len(verdicts) \in Nat /\ About(s) \in SUBSET (1..Len(verdicts))
  BY DEF About, TypeOK, StoreTypes
<1>2. \E x \in About(s) : \A y \in About(s) : y <= x
  BY <1>1, Greatest
<1>3. Latest(s) \in About(s) /\ \A y \in About(s) : y <= Latest(s)
  BY <1>2 DEF Latest
<1>4. QED
  BY <1>1, <1>3

-------------------------------------------------------------------------------
(* A step belongs to one driver, and the tables only grow. *)

Acts(d) ==
  Launch(d) \/ Begin(d) \/ Leave(d) \/ Works(d) \/ Abort(d) \/ AlienReply(d) \/ Dies(d)

\* Nobody does anything, or an operator has actions judged.
Waits ==
  /\ verdicts' \in Seq(Sides)
  /\ DOMAIN verdicts \subseteq DOMAIN verdicts'
  /\ \A n \in DOMAIN verdicts : verdicts'[n] = verdicts[n]
  /\ UNCHANGED <<invocations, executions, cycles, pc, route, cycle, side, call, heard,
                 verdict, picked, cited, done, begun, deaths>>

\* The locals of the other drivers stay.
Apart(d) ==
  \A e \in Drivers : e # d =>
    /\ pc'[e] = pc[e] /\ route'[e] = route[e] /\ cycle'[e] = cycle[e]
    /\ side'[e] = side[e] /\ call'[e] = call[e] /\ heard'[e] = heard[e]
    /\ verdict'[e] = verdict[e] /\ picked'[e] = picked[e]
    /\ cited'[e] = cited[e] /\ done'[e] = done[e]

Grown(s, t) == DOMAIN s \subseteq DOMAIN t /\ \A n \in DOMAIN s : t[n] = s[n]

\* An execution keeps its invocation and its verdict.
Kept(s, t) ==
  /\ DOMAIN s \subseteq DOMAIN t
  /\ \A n \in DOMAIN s : t[n].invocation = s[n].invocation /\ t[n].verdict = s[n].verdict

TablesGrow ==
  Grown(verdicts, verdicts') /\ Grown(invocations, invocations') /\ Kept(executions, executions')

LEMMA AppendGrows ==
  ASSUME NEW S, NEW s \in Seq(S), NEW x \in S
  PROVE  /\ Grown(s, Append(s, x))
         /\ DOMAIN Append(s, x) = DOMAIN s \cup {Len(s) + 1}
         /\ Len(s) + 1 \notin DOMAIN s
         /\ Append(s, x)[Len(s) + 1] = x
BY DEF Grown

LEMMA NothingGrows ==
  ASSUME UNCHANGED store
  PROVE  TablesGrow /\ UNCHANGED <<verdicts, invocations, executions, cycles>>
BY DEF store, TablesGrow, Grown, Kept

LEMMA StepsOrWaits ==
  ASSUME TypeOK, [Next]_vars
  PROVE  (\E d \in Drivers : Acts(d)) \/ Waits
<1>1. verdicts \in Seq(Sides)
  BY DEF TypeOK, StoreTypes
<1>2. CASE UNCHANGED vars
  BY <1>1, <1>2 DEF vars, store, locals, counts, Waits
<1>3. ASSUME NEW s \in Sides, ValidateActions(s)
      PROVE  Waits
  <2>1. Grown(verdicts, Append(verdicts, s)) /\ Append(verdicts, s) \in Seq(Sides)
    BY <1>1, AppendGrows
  <2>2. QED
    BY <1>3, <2>1 DEF ValidateActions, locals, counts, Waits, Grown
<1>4. QED
  BY <1>2, <1>3 DEF Next, Acts

LEMMA ForgetsApart ==
  ASSUME TypeOK, NEW d \in Drivers, Forget(d)
  PROVE  /\ Apart(d)
         /\ pc'[d] = "off" /\ verdict'[d] = 0 /\ cited'[d] = Nobody /\ done'[d] = Nobody
BY DEF Forget, Apart, TypeOK, MemoryTypes

LEMMA AskApart ==
  ASSUME TypeOK, NEW d \in Drivers, Ask(d)
  PROVE  /\ Apart(d) /\ UNCHANGED store
         /\ UNCHANGED <<route, cycle, side, verdict, picked, cited, done>>
         /\ pc[d] = "ask" /\ pc'[d] \in {"ask", "judge", "note"}
<1>1. pc[d] = "ask" /\ pc[d] \in InCycle
  BY DEF Ask, Answered, Retry, FailOver, GiveUp, InCycle
<1>2. PICK r, a : AskedOnce(d, r, a) /\ pc'[d] \in {"ask", "judge", "note"}
  BY AskSteps
<1>3. \A e \in Drivers : e # d => heard'[e] = heard[e]
  BY <1>1, <1>2, HearsKeepsTypes DEF AskedOnce
<1>4. UNCHANGED store /\ UNCHANGED <<route, cycle, side, verdict, picked, cited, done>>
  BY <1>2 DEF AskedOnce, Hears
<1>5. \A e \in Drivers : e # d => pc'[e] = pc[e] /\ call'[e] = call[e]
  BY <1>2 DEF AskedOnce, TypeOK, MemoryTypes
<1>6. Apart(d)
  BY <1>3, <1>4, <1>5 DEF Apart
<1>7. QED
  BY <1>1, <1>2, <1>4, <1>6

LEMMA NextTurnApart ==
  ASSUME TypeOK, NEW d \in Drivers, NextTurn(d)
  PROVE  /\ \A e \in Drivers : e # d =>
              /\ pc'[e] = pc[e] /\ side'[e] = side[e] /\ call'[e] = call[e]
              /\ heard'[e] = heard[e] /\ verdict'[e] = verdict[e]
         /\ \/ /\ side[d] = "red" /\ pc'[d] = "ask" /\ side'[d] = "blue"
               /\ call'[d] = Fresh /\ heard'[d] = <<>> /\ verdict'[d] = 0
            \/ /\ side[d] = "blue" /\ pc'[d] = "close"
               /\ UNCHANGED <<side, call, heard, verdict>>
BY DEF NextTurn, Turn, TypeOK, MemoryTypes, Sides

LEMMA JudgeApart ==
  ASSUME TypeOK, NEW d \in Drivers, Judge(d)
  PROVE  /\ Apart(d) /\ TablesGrow
         /\ pc[d] = "judge" /\ pc'[d] = "note"
         /\ verdict'[d] = Len(verdicts) + 1 /\ verdict'[d] \in DOMAIN verdicts'
         /\ verdict'[d] \notin DOMAIN verdicts
         /\ DOMAIN verdicts' = DOMAIN verdicts \cup {verdict'[d]}
         /\ verdicts'[verdict'[d]] = side[d]
         /\ UNCHANGED <<invocations, executions, cycles, route, cycle, side, call, heard, picked, cited, done>>
<1>1. pc[d] = "judge" /\ pc' = [pc EXCEPT ![d] = "note"]
  BY DEF Judge, Step
<1>2. verdicts \in Seq(Sides) /\ side[d] \in Sides
  BY DEF TypeOK, StoreTypes, MemoryTypes
<1>3. verdict'[d] = Len(verdicts) + 1 /\ pc'[d] = "note"
  BY <1>1 DEF Judge, TypeOK, MemoryTypes
<1>4. verdicts' = Append(verdicts, side[d])
  BY DEF Judge
<1>5. /\ Grown(verdicts, verdicts') /\ DOMAIN verdicts' = DOMAIN verdicts \cup {Len(verdicts) + 1}
      /\ Len(verdicts) + 1 \notin DOMAIN verdicts /\ verdicts'[Len(verdicts) + 1] = side[d]
  BY <1>2, <1>4, AppendGrows
<1>6. UNCHANGED <<invocations, executions, cycles, route, cycle, side, call, heard, picked, cited, done>>
  BY DEF Judge
<1>7. Apart(d)
  BY <1>1, <1>6 DEF Judge, Apart, TypeOK, MemoryTypes
<1>8. TablesGrow
  BY <1>5, <1>6 DEF TablesGrow, Grown, Kept
<1>9. QED
  BY <1>1, <1>3, <1>5, <1>6, <1>7, <1>8

LEMMA NoteApart ==
  ASSUME TypeOK, NEW d \in Drivers, Note(d)
  PROVE  /\ Apart(d) /\ TablesGrow
         /\ pc[d] = "note"
         /\ invocations' = Append(invocations, Invocation(d))
         /\ DOMAIN invocations' = DOMAIN invocations \cup {Len(invocations) + 1}
         /\ Len(invocations) + 1 \notin DOMAIN invocations
         /\ invocations'[Len(invocations) + 1] = Invocation(d)
         /\ cited'[d] = [cited[d] EXCEPT ![side[d]] = Len(invocations) + 1]
         /\ \/ /\ d \in Live /\ verdict[d] # 0 /\ pc'[d] = "fetch"
               /\ UNCHANGED <<side, call, heard, verdict>>
            \/ ~(d \in Live /\ verdict[d] # 0) /\ NextTurn(d)
         /\ UNCHANGED <<verdicts, executions, cycles, route, cycle, picked, done>>
<1>1. pc[d] = "note" /\ pc[d] \in InCycle /\ call[d].trace # <<>>
  BY DEF Note, InCycle, TypeOK, TurnTypes
<1>2. invocations \in Seq(Invocations) /\ Invocation(d) \in Invocations
  BY <1>1, RowTypes DEF TypeOK, StoreTypes
<1>3. invocations' = Append(invocations, Invocation(d))
  BY DEF Note
<1>4. /\ Grown(invocations, invocations')
      /\ DOMAIN invocations' = DOMAIN invocations \cup {Len(invocations) + 1}
      /\ Len(invocations) + 1 \notin DOMAIN invocations
      /\ invocations'[Len(invocations) + 1] = Invocation(d)
  BY <1>2, <1>3, AppendGrows
<1>5. UNCHANGED <<verdicts, executions, cycles, route, cycle, picked, done>>
  BY DEF Note
<1>6. /\ cited'[d] = [cited[d] EXCEPT ![side[d]] = Len(invocations) + 1]
      /\ \A e \in Drivers : e # d => cited'[e] = cited[e]
  BY DEF Note, TypeOK, MemoryTypes
<1>7. \/ /\ d \in Live /\ verdict[d] # 0 /\ pc' = [pc EXCEPT ![d] = "fetch"]
         /\ UNCHANGED <<side, call, heard, verdict>>
      \/ ~(d \in Live /\ verdict[d] # 0) /\ NextTurn(d)
  BY DEF Note
<1>8. Apart(d) /\ (pc' = [pc EXCEPT ![d] = "fetch"] => pc'[d] = "fetch")
  BY <1>5, <1>6, <1>7, NextTurnApart, SMTT(30) DEF Apart, TypeOK, MemoryTypes
<1>9. TablesGrow
  BY <1>4, <1>5 DEF TablesGrow, Grown, Kept
<1>10. QED
  BY <1>1, <1>3, <1>4, <1>5, <1>6, <1>7, <1>8, <1>9

LEMMA FetchApart ==
  ASSUME TypeOK, NEW d \in Drivers, Fetch(d)
  PROVE  /\ Apart(d) /\ TablesGrow /\ UNCHANGED store
         /\ pc[d] = "fetch" /\ pc'[d] = "create" /\ picked'[d] = Latest(side[d])
         /\ UNCHANGED <<route, cycle, side, call, heard, verdict, cited, done>>
<1>1. UNCHANGED store /\ UNCHANGED <<route, cycle, side, call, heard, verdict, cited, done>>
  BY DEF Fetch
<1>2. QED
  BY <1>1, NothingGrows DEF Fetch, Step, Apart, TypeOK, MemoryTypes

LEMMA OpenApart ==
  ASSUME TypeOK, NEW d \in Drivers, Open(d)
  PROVE  /\ Apart(d) /\ TablesGrow
         /\ pc[d] = "create" /\ pc'[d] = "start"
         /\ DOMAIN executions' = DOMAIN executions \cup {Len(executions) + 1}
         /\ Len(executions) + 1 \notin DOMAIN executions
         /\ \A n \in DOMAIN executions : executions'[n] = executions[n]
         /\ executions'[Len(executions) + 1].invocation = cited[d][side[d]]
         /\ executions'[Len(executions) + 1].verdict = picked[d]
         /\ executions'[Len(executions) + 1].state = "pending"
         /\ done'[d] = [done[d] EXCEPT ![side[d]] = Len(executions) + 1]
         /\ UNCHANGED <<verdicts, invocations, cycles, route, cycle, side, call, heard, verdict, cited>>
<1> DEFINE x == [invocation |-> cited[d][side[d]], verdict |-> picked[d],
                 state |-> "pending", ok |-> TRUE]
<1>1. /\ pc[d] = "create" /\ pc' = [pc EXCEPT ![d] = "start"] /\ side[d] \in Sides
      /\ executions' = Append(executions, x)
      /\ UNCHANGED <<verdicts, invocations, cycles, route, cycle, side, call, heard, verdict, cited>>
  BY DEF Open, Step, TypeOK, MemoryTypes
<1>2. x \in Executions /\ executions \in Seq(Executions)
  BY <1>1 DEF TypeOK, MemoryTypes, StoreTypes, Executions
<1>3. x.invocation = cited[d][side[d]] /\ x.verdict = picked[d] /\ x.state = "pending"
  OBVIOUS
<1> HIDE DEF x
<1>4. /\ Grown(executions, executions')
      /\ DOMAIN executions' = DOMAIN executions \cup {Len(executions) + 1}
      /\ Len(executions) + 1 \notin DOMAIN executions
      /\ executions'[Len(executions) + 1] = x
  BY <1>1, <1>2, AppendGrows
<1>5. /\ done'[d] = [done[d] EXCEPT ![side[d]] = Len(executions) + 1] /\ pc'[d] = "start"
      /\ \A e \in Drivers : e # d => done'[e] = done[e] /\ picked'[e] = picked[e] /\ pc'[e] = pc[e]
  BY <1>1 DEF Open, TypeOK, MemoryTypes
<1>6. Apart(d)
  BY <1>1, <1>5 DEF Apart
<1>7. TablesGrow
  BY <1>1, <1>4 DEF TablesGrow, Grown, Kept
<1>8. QED
  BY <1>1, <1>3, <1>4, <1>5, <1>6, <1>7 DEF Grown

Finalizes(d) == Start(d) \/ Complete(d) \/ Abort(d)

\* A row that is written over stays the execution of its invocation and verdict.
LEMMA FinalizeApart ==
  ASSUME TypeOK, NEW d \in Drivers, Finalizes(d)
  PROVE  /\ Apart(d) /\ TablesGrow
         /\ DOMAIN executions' = DOMAIN executions
         /\ \A n \in DOMAIN executions :
              /\ n # done[d][side[d]] => executions'[n] = executions[n]
              /\ executions'[n].invocation = executions[n].invocation
              /\ executions'[n].verdict = executions[n].verdict
         /\ done[d][side[d]] \in DOMAIN executions =>
              executions' = [executions EXCEPT ![done[d][side[d]]] = executions'[done[d][side[d]]]]
         /\ UNCHANGED <<verdicts, invocations, cycles>>
         /\ \/ /\ pc[d] = "start" /\ pc'[d] = "walk"
               /\ done[d][side[d]] \in DOMAIN executions =>
                    executions'[done[d][side[d]]].state = "in_flight"
               /\ UNCHANGED <<route, cycle, side, call, heard, verdict, picked, cited, done>>
            \/ /\ pc[d] = "walk" /\ NextTurn(d)
               /\ done[d][side[d]] \in DOMAIN executions =>
                    executions'[done[d][side[d]]].state = "completed"
               /\ UNCHANGED <<route, cycle, picked, cited, done>>
            \/ /\ pc[d] = "walk" /\ pc'[d] = "off" /\ deaths' = deaths + 1
               /\ verdict'[d] = 0 /\ cited'[d] = Nobody /\ done'[d] = Nobody
               /\ done[d][side[d]] \in DOMAIN executions =>
                    executions'[done[d][side[d]]].state = "aborted"
<1>1. PICK state \in {"in_flight", "completed", "aborted"}, ok \in BOOLEAN :
        /\ Finalize(d, state, ok) /\ UNCHANGED <<verdicts, invocations, cycles>>
        /\ \/ /\ state = "in_flight" /\ pc[d] = "start" /\ pc' = [pc EXCEPT ![d] = "walk"]
              /\ UNCHANGED <<route, cycle, side, call, heard, verdict, picked, cited, done>>
           \/ /\ state = "completed" /\ pc[d] = "walk" /\ NextTurn(d)
              /\ UNCHANGED <<route, cycle, picked, cited, done>>
           \/ /\ state = "aborted" /\ pc[d] = "walk" /\ Forget(d) /\ deaths' = deaths + 1
  BY DEF Finalizes, Start, Step, Complete, Abort, locals
<1>2. /\ DOMAIN executions' = DOMAIN executions
      /\ \A n \in DOMAIN executions :
           /\ n # done[d][side[d]] => executions'[n] = executions[n]
           /\ executions'[n].invocation = executions[n].invocation
           /\ executions'[n].verdict = executions[n].verdict
           /\ n = done[d][side[d]] => executions'[n].state = state
      /\ done[d][side[d]] \in DOMAIN executions =>
           executions' = [executions EXCEPT ![done[d][side[d]]] = executions'[done[d][side[d]]]]
  BY <1>1, FinalizeWrites
<1>3. TablesGrow
  BY <1>1, <1>2 DEF TablesGrow, Grown, Kept
<1>4. CASE pc[d] = "start" /\ pc' = [pc EXCEPT ![d] = "walk"] /\ state = "in_flight"
           /\ UNCHANGED <<route, cycle, side, call, heard, verdict, picked, cited, done>>
  <2>1. Apart(d) /\ pc'[d] = "walk"
    BY <1>4 DEF Apart, TypeOK, MemoryTypes
  <2>2. QED
    BY <1>1, <1>2, <1>3, <1>4, <2>1
<1>5. CASE pc[d] = "walk" /\ NextTurn(d) /\ state = "completed"
           /\ UNCHANGED <<route, cycle, picked, cited, done>>
  <2>1. Apart(d)
    BY <1>5, NextTurnApart DEF Apart
  <2>2. QED
    BY <1>1, <1>2, <1>3, <1>5, <2>1
<1>6. CASE pc[d] = "walk" /\ Forget(d) /\ state = "aborted" /\ deaths' = deaths + 1
  BY <1>1, <1>2, <1>3, <1>6, ForgetsApart
<1>7. QED
  BY <1>1, <1>4, <1>5, <1>6

LEMMA CloseApart ==
  ASSUME TypeOK, NEW d \in Drivers, Close(d)
  PROVE  /\ Apart(d) /\ TablesGrow
         /\ pc[d] = "close" /\ pc'[d] = "top" /\ cycle[d] \in Cycles
         /\ cycles' = [cycles EXCEPT ![cycle[d]] =
              [cited |-> cited[d], done |-> done[d], live |-> d \in Live,
               class |-> Classify({s \in Sides : Went(d, s)})]]
         /\ side'[d] = "red" /\ call'[d] = Fresh /\ heard'[d] = <<>> /\ verdict'[d] = 0
         /\ cited'[d] = Nobody /\ done'[d] = Nobody
         /\ UNCHANGED <<verdicts, invocations, executions, route>>
<1>1. pc[d] = "close" /\ pc' = [pc EXCEPT ![d] = "top"] /\ pc[d] \in InCycle
  BY DEF Close, Step, InCycle
<1>2. UNCHANGED <<verdicts, invocations, executions, route>>
  BY DEF Close
<1>3. /\ Apart(d) /\ pc'[d] = "top"
      /\ side'[d] = "red" /\ call'[d] = Fresh /\ heard'[d] = <<>> /\ verdict'[d] = 0
      /\ cited'[d] = Nobody /\ done'[d] = Nobody
  BY <1>1 DEF Close, Turn, Apart, TypeOK, MemoryTypes
<1>4. QED
  BY <1>1, <1>2, <1>3, AskedTypes DEF Close, TablesGrow, Grown, Kept
\* Between cycles nothing but the locals of the driver changes.
LEMMA IdleApart ==
  ASSUME TypeOK, NEW d \in Drivers, Launch(d) \/ Begin(d) \/ Leave(d) \/ AlienReply(d) \/ Dies(d)
  PROVE  /\ Apart(d) /\ UNCHANGED store
         /\ \/ /\ pc[d] \in {"off", "top"} /\ pc'[d] \in {"top", "ask"}
               /\ pc[d] = "top" => pc'[d] = "ask" /\ UNCHANGED <<route, cycle>>
               /\ pc[d] = "off" => pc'[d] = "top"
               /\ UNCHANGED <<side, call, heard, verdict, cited, done>>
            \/ /\ pc'[d] = "off" /\ verdict'[d] = 0 /\ cited'[d] = Nobody /\ done'[d] = Nobody
               /\ pc[d] = "top" \/ deaths' = deaths + 1
<1>1. CASE Launch(d)
  BY <1>1 DEF Launch, Step, Apart, TypeOK, MemoryTypes
<1>2. CASE Begin(d)
  BY <1>2 DEF Begin, Step, locals, Apart, TypeOK, MemoryTypes
<1>3. CASE Leave(d)
  BY <1>3, ForgetsApart DEF Leave
<1>4. CASE AlienReply(d) \/ Dies(d)
  BY <1>4, ForgetsApart DEF AlienReply, Dies
<1>5. QED
  BY <1>1, <1>2, <1>3, <1>4

\* What an execution carries out exists.
LEMMA LatestIsNat ==
  ASSUME TypeOK, AnswersAreSaved, NEW d \in Drivers, pc[d] = "fetch"
  PROVE  /\ Latest(side[d]) \in Nat /\ Latest(side[d]) \in About(side[d])
         /\ verdict[d] # 0 /\ verdict[d] <= Latest(side[d])
<1>1. side[d] \in Sides /\ verdict[d] \in About(side[d]) /\ verdict[d] # 0
  BY DEF TypeOK, MemoryTypes, AnswersAreSaved, Executing
<1>2. QED
  BY <1>1, LatestIsLast

\* A step is a driver's, and leaves the others and what is written alone.
LEMMA StepApart ==
  ASSUME TypeOK, NEW d \in Drivers, Acts(d)
  PROVE  Apart(d) /\ TablesGrow
<1>1. CASE Ask(d) \/ Judge(d) \/ Note(d)
  BY <1>1, AskApart, NothingGrows, JudgeApart, NoteApart
<1>2. CASE Fetch(d) \/ Open(d) \/ Finalizes(d) \/ Close(d)
  BY <1>2, FetchApart, OpenApart, FinalizeApart, CloseApart
<1>3. CASE Launch(d) \/ Begin(d) \/ Leave(d) \/ AlienReply(d) \/ Dies(d)
  BY <1>3, IdleApart, NothingGrows
<1>4. QED
  BY <1>1, <1>2, <1>3 DEF Acts, Works, Finalizes

\* A verdict about a coalition stays one.
LEMMA AboutGrows ==
  ASSUME Grown(verdicts, verdicts'), NEW s
  PROVE  About(s) \subseteq About(s)'
BY DEF Grown, About

-------------------------------------------------------------------------------
(* Type correctness. *)

TypeInv == TypeOK /\ AnswersAreSaved

LEMMA AnswersStaySaved ==
  ASSUME TypeInv, NEW d \in Drivers, Acts(d)
  PROVE  AnswersAreSaved'
<1> DEFINE Holds(e) ==
      /\ verdict'[e] # 0 => verdict'[e] \in DOMAIN verdicts' /\ verdicts'[verdict'[e]] = side'[e]
      /\ pc'[e] \in Executing => verdict'[e] # 0
      /\ pc'[e] = "create" => /\ picked'[e] \in DOMAIN verdicts'
                              /\ verdicts'[picked'[e]] = side'[e]
                              /\ verdict'[e] <= picked'[e]
<1>1. TypeOK /\ AnswersAreSaved /\ Apart(d) /\ Grown(verdicts, verdicts')
  BY StepApart DEF TypeInv, TablesGrow
<1>2. \A e \in Drivers : /\ verdict[e] # 0 => /\ verdict[e] \in DOMAIN verdicts'
                                              /\ verdicts'[verdict[e]] = side[e]
                         /\ pc[e] \in Executing => verdict[e] # 0
                         /\ pc[e] = "create" => /\ picked[e] \in DOMAIN verdicts'
                                                /\ verdicts'[picked[e]] = side[e]
                                                /\ verdict[e] <= picked[e]
  BY <1>1 DEF AnswersAreSaved, About, Grown
<1>3. ASSUME NEW e \in Drivers, e # d
      PROVE  Holds(e)
  <2>1. /\ verdict'[e] = verdict[e] /\ side'[e] = side[e] /\ pc'[e] = pc[e]
        /\ picked'[e] = picked[e]
    BY <1>1, <1>3 DEF Apart
  <2>2. QED
    BY <1>2, <2>1
<1>4. Holds(d)
  <2>1. CASE Launch(d) \/ Begin(d) \/ Leave(d) \/ AlienReply(d) \/ Dies(d)
    BY <2>1, <1>1, <1>2, IdleApart DEF Executing
  <2>2. CASE Ask(d)
    BY <2>2, <1>1, <1>2, AskApart DEF Executing
  <2>3. CASE Judge(d)
    BY <2>3, <1>1, JudgeApart DEF Executing
  <2>4. CASE NextTurn(d)
    BY <2>4, <1>1, <1>2, NextTurnApart DEF Executing
  <2>5. CASE Note(d)
    <3>1. \/ verdict[d] # 0 /\ pc'[d] = "fetch" /\ UNCHANGED <<side, call, heard, verdict>>
          \/ NextTurn(d)
      BY <2>5, <1>1, NoteApart
    <3>2. CASE verdict[d] # 0 /\ pc'[d] = "fetch" /\ UNCHANGED <<side, call, heard, verdict>>
      BY <3>2, <1>2
    <3>3. QED
      BY <3>1, <3>2, <2>4
  <2>6. CASE Fetch(d)
    <3>1. /\ UNCHANGED <<verdicts, side, verdict>> /\ pc[d] = "fetch" /\ pc'[d] = "create"
          /\ picked'[d] = Latest(side[d])
      BY <2>6, <1>1, FetchApart DEF store
    <3>2. /\ Latest(side[d]) \in DOMAIN verdicts /\ verdicts[Latest(side[d])] = side[d]
          /\ verdict[d] # 0 /\ verdict[d] <= Latest(side[d])
      BY <1>1, <3>1, LatestIsNat DEF About
    <3>3. QED
      BY <1>2, <3>1, <3>2
  <2>7. CASE Open(d)
    <3>1. pc[d] = "create" /\ pc'[d] = "start" /\ UNCHANGED <<verdicts, side, verdict>>
      BY <2>7, <1>1, OpenApart
    <3>2. QED
      BY <3>1, <1>2 DEF Executing
  <2>8. CASE Finalizes(d)
    <3>1. \/ pc[d] = "start" /\ pc'[d] = "walk" /\ UNCHANGED <<side, verdict>>
          \/ NextTurn(d)
          \/ pc'[d] = "off" /\ verdict'[d] = 0
      BY <2>8, <1>1, FinalizeApart
    <3>2. CASE pc[d] = "start" /\ pc'[d] = "walk" /\ UNCHANGED <<side, verdict>>
      BY <3>2, <1>2 DEF Executing
    <3>3. QED
      BY <3>1, <3>2, <2>4 DEF Executing
  <2>9. CASE Close(d)
    BY <2>9, <1>1, CloseApart DEF Executing
  <2>10. QED
    BY <2>1, <2>2, <2>3, <2>5, <2>6, <2>7, <2>8, <2>9 DEF Acts, Works, Finalizes
<1>5. QED
  BY <1>3, <1>4 DEF AnswersAreSaved, About

\* Waiting changes no driver, and a verdict that is added leaves the others.
LEMMA WaitingKeepsTypes ==
  ASSUME TypeInv, Waits
  PROVE  TypeInv'
<1>1. TypeOK'
  BY DEF Waits, TypeInv, TypeOK, StoreTypes, MemoryTypes, TurnTypes, Chain, Fresh
<1>2. AnswersAreSaved'
  BY DEF Waits, TypeInv, AnswersAreSaved, About
<1>3. QED
  BY <1>1, <1>2 DEF TypeInv

LEMMA InitTypes == Init => TypeInv
<1> SUFFICES ASSUME Init PROVE TypeInv
  OBVIOUS
<1>1. 1 \in 1..(MaxCycle + 1) /\ "red" \in Sides /\ Nobody \in [Sides -> Nat]
  BY DecisionAssumption DEF Sides, Nobody
<1>2. StoreTypes
  BY DEF Init, StoreTypes
<1>3. MemoryTypes
  BY <1>1, FreshType DEF Init, MemoryTypes
<1>4. TurnTypes
  BY DEF Init, TurnTypes, InCycle
<1>5. AnswersAreSaved
  BY DEF Init, AnswersAreSaved, Executing
<1>6. QED
  BY <1>2, <1>3, <1>4, <1>5 DEF TypeInv, TypeOK

LEMMA NextKeepsTypes == TypeInv /\ [Next]_vars => TypeInv'
<1> SUFFICES ASSUME TypeInv, [Next]_vars PROVE TypeInv'
  OBVIOUS
<1>1. CASE Waits
  BY <1>1, WaitingKeepsTypes
<1>2. ASSUME NEW d \in Drivers, Acts(d)
      PROVE  TypeInv'
  <2>1. TypeOK /\ AnswersAreSaved /\ AnswersAreSaved'
    BY <1>2, AnswersStaySaved DEF TypeInv
  <2>2. TypeOK'
    <3>1. CASE Launch(d) \/ Begin(d) \/ Leave(d) \/ AlienReply(d) \/ Dies(d)
      BY <3>1, <2>1, IdleStepsKeepTypes
    <3>2. CASE Ask(d)
      BY <3>2, <2>1, AskKeepsTypes
    <3>3. CASE Judge(d)
      BY <3>3, <2>1, JudgeKeepsTypes
    <3>4. CASE Note(d)
      BY <3>4, <2>1, NoteKeepsTypes
    <3>5. CASE Fetch(d)
      BY <3>5, <2>1, FetchKeepsTypes, FetchApart, LatestIsNat
    <3>6. CASE Open(d) \/ Start(d) \/ Complete(d) \/ Abort(d)
      BY <3>6, <2>1, OpenKeepsTypes, StartKeepsTypes, CompleteKeepsTypes, AbortKeepsTypes
    <3>7. CASE Close(d)
      BY <3>7, <2>1, CloseKeepsTypes
    <3>8. QED
      BY <1>2, <3>1, <3>2, <3>3, <3>4, <3>5, <3>6, <3>7 DEF Acts, Works
  <2>3. QED
    BY <2>1, <2>2 DEF TypeInv
<1>3. QED
  BY <1>1, <1>2, StepsOrWaits DEF TypeInv

\* The variables keep their types: in a cycle there is a backend to ask and a number
\* to record the cycle under, and an execution has a verdict to carry out.
THEOREM TypeCorrect == Spec => []TypeOK
<1>1. Init => TypeInv
  BY InitTypes
<1>2. TypeInv /\ [Next]_vars => TypeInv'
  BY NextKeepsTypes
<1>3. TypeInv => TypeOK
  BY DEF TypeInv
<1>4. QED
  BY <1>1, <1>2, <1>3, PTL DEF Spec

\* A driver leaves a cycle by recording it or by dying.
THEOREM FailuresAreRecordedAlways == Spec => FailuresAreRecorded
<1>1. ASSUME TypeInv, [Next]_vars,
             NEW d \in Drivers, pc[d] \in InCycle, pc'[d] \notin InCycle
      PROVE  \/ deaths' = deaths + 1
             \/ cycles'[cycle[d]] # None /\ cycles'[cycle[d]].cited = cited[d]
  <2>0. TypeOK /\ AnswersAreSaved
    BY <1>1 DEF TypeInv
  <2>1. PICK e \in Drivers : Acts(e)
    BY <1>1, <2>0, StepsOrWaits DEF Waits
  <2>2. e = d
    BY <1>1, <2>0, <2>1, StepApart DEF Apart
  <2>3. CASE Launch(d) \/ Begin(d) \/ Leave(d) \/ AlienReply(d) \/ Dies(d)
    BY <1>1, <2>0, <2>3, IdleApart DEF InCycle
  <2>4. CASE Close(d)
    <3> DEFINE row == [cited |-> cited[d], done |-> done[d], live |-> d \in Live,
                       class |-> Classify({s \in Sides : Went(d, s)})]
    <3>1. row \in CycleRows /\ row.cited = cited[d]
      BY <1>1, <2>0, RowTypes
    <3>2. cycles' = [cycles EXCEPT ![cycle[d]] = row] /\ cycle[d] \in Cycles
      BY <2>0, <2>4, CloseApart
    <3>3. cycles'[cycle[d]] = row
      BY <2>0, <3>2 DEF TypeOK, StoreTypes
    <3>4. row # None
      BY <3>1, DecisionAssumption
    <3>5. QED
      BY <3>1, <3>3, <3>4
  <2>5. CASE Ask(d) \/ Judge(d) \/ Note(d) \/ Fetch(d) \/ Open(d)
    BY <1>1, <2>0, <2>5, AskApart, JudgeApart, NoteApart, NextTurnApart, FetchApart, OpenApart
       DEF InCycle
  <2>6. CASE Finalizes(d)
    BY <1>1, <2>0, <2>6, FinalizeApart, NextTurnApart DEF InCycle
  <2>7. QED
    BY <1>1, <2>1, <2>2, <2>3, <2>4, <2>5, <2>6 DEF Acts, Works, Finalizes
<1>2. TypeInv /\ [Next]_vars =>
        [\A d \in Drivers : (pc[d] \in InCycle /\ pc'[d] \notin InCycle) =>
           \/ deaths' = deaths + 1
           \/ cycles'[cycle[d]] # None /\ cycles'[cycle[d]].cited = cited[d]]_vars
  BY <1>1
<1>3. Init => TypeInv
  BY InitTypes
<1>4. TypeInv /\ [Next]_vars => TypeInv'
  BY NextKeepsTypes
<1>5. QED
  BY <1>2, <1>3, <1>4, PTL DEF Spec, FailuresAreRecorded
-------------------------------------------------------------------------------
(* What an invocation says is what was heard. *)

\* The requests made before the present backend was asked.
Earlier(d) == IF call[d].link > 1 THEN Retries[Chain(route[d], side[d])[1]] + 1 ELSE 0

\* The reply a step hears comes after the ones of this turn.
LEMMA HeardNext ==
  ASSUME TypeOK, NEW d \in Drivers, pc[d] \in InCycle, NEW r, Hears(d, r)
  PROVE  /\ Len(heard[d]) \in Nat
         /\ Len(heard'[d]) = Len(heard[d]) + 1
         /\ \A k \in 1..Len(heard[d]) : heard'[d][k] = heard[d][k]
         /\ heard'[d][Len(heard[d]) + 1].backend = Asked(d)
         /\ heard'[d][Len(heard[d]) + 1].reply = r
<1> DEFINE x == [backend |-> Asked(d), reply |-> r]
<1>1. x \in Heard /\ heard[d] \in Seq(Heard)
  BY AskedTypes, DecisionAssumption DEF Hears, Heard, TypeOK, MemoryTypes
<1>2. heard'[d] = Append(heard[d], x)
  BY HearsKeepsTypes
<1>3. x.backend = Asked(d) /\ x.reply = r
  OBVIOUS
<1> HIDE DEF x
<1>4. /\ Len(Append(heard[d], x)) = Len(heard[d]) + 1 /\ Len(heard[d]) \in Nat
      /\ \A k \in 1..Len(heard[d]) : Append(heard[d], x)[k] = heard[d][k]
      /\ Append(heard[d], x)[Len(heard[d]) + 1] = x
  BY <1>1
<1>5. QED
  BY <1>2, <1>3, <1>4

\* A turn that begins has heard nothing.
LEMMA FreshTurn ==
  ASSUME NEW d \in Drivers, NEW r \in Routes, NEW s \in Sides,
         route'[d] = r, side'[d] = s, call'[d] = Fresh, heard'[d] = <<>>
  PROVE  Asking(d)'
<1>1. Chain(r, s)[1] \in Backends
  BY ChainOfBackends
<1>2. Retries[Chain(r, s)[1]] \in Nat
  BY <1>1, DecisionAssumption
<1>3. Asked(d)' = Chain(r, s)[1]
  BY DEF Asked, Chain, Fresh
<1>4. Asking(d)'
  BY <1>2, <1>3 DEF Asking, Fresh, Chain, Asked
<1>5. QED
  BY <1>4

\* A turn that goes on has heard of every attempt, and none has succeeded.
LEMMA AskingGoesOn ==
  ASSUME TypeOK, NEW d \in Drivers, pc[d] = "ask", Asking(d),
         NEW r \in {"bad", "silent"}, Hears(d, r),
         \/ /\ ~Exhausted(d)
            /\ call'[d].link = call[d].link /\ call'[d].attempt = call[d].attempt + 1
            /\ call'[d].raw = Raw(d, r)
         \/ /\ Exhausted(d) /\ ~LastLink(d)
            /\ call'[d].link = call[d].link + 1 /\ call'[d].attempt = 1
            /\ call'[d].raw = FALSE
  PROVE  Asking(d)'
<1> DEFINE chain == Chain(route[d], side[d])
           before == Earlier(d)
           n == Len(heard[d])
<1>1. /\ pc[d] \in InCycle /\ route[d] \in Routes /\ side[d] \in Sides
      /\ Asked(d) \in Backends /\ Retries[Asked(d)] \in Nat
      /\ call[d].link \in 1..Len(chain) /\ call[d].attempt \in Nat \ {0} /\ call[d].raw \in BOOLEAN
      /\ Len(chain) \in 1..2
  <2>1. pc[d] \in InCycle
    BY DEF InCycle
  <2>2. QED
    BY <2>1, AskedTypes, ChainOfBackends DEF Asks
<1>2. /\ n \in Nat /\ Len(heard'[d]) = n + 1
      /\ \A k \in 1..n : heard'[d][k] = heard[d][k]
      /\ heard'[d][n + 1].backend = Asked(d) /\ heard'[d][n + 1].reply = r
  BY <1>1, HeardNext
<1>3. /\ n = before + call[d].attempt - 1
      /\ call[d].attempt <= Retries[Asked(d)] + 1
      /\ \A k \in 1..n : /\ heard[d][k].backend = IF k <= before THEN chain[1] ELSE Asked(d)
                         /\ heard[d][k].reply # "good"
      /\ call[d].raw <=> \E k \in 1..n : k > before /\ heard[d][k].reply = "bad"
  BY DEF Asking, Earlier
<1>4. Retries[chain[1]] \in Nat /\ before \in Nat /\ Asked(d) = chain[call[d].link]
  BY <1>1, ChainOfBackends, DecisionAssumption DEF Earlier, Asked
<1>5. UNCHANGED <<route, side>>
  BY DEF Hears
<1>6. CASE ~Exhausted(d) /\ call'[d].link = call[d].link
           /\ call'[d].attempt = call[d].attempt + 1 /\ call'[d].raw = Raw(d, r)
  <2>1. call[d].attempt + 1 <= Retries[Asked(d)] + 1
    BY <1>1, <1>6 DEF Exhausted
  <2>2. Asked(d)' = Asked(d) /\ Earlier(d)' = before
    BY <1>5, <1>6 DEF Asked, Earlier, Chain
  <2>3. \A k \in 1..(n + 1) : /\ heard'[d][k].backend = IF k <= before THEN chain[1] ELSE Asked(d)
                              /\ heard'[d][k].reply # "good"
    <3> HIDE DEF n, before, chain
    <3>1. \A k \in 1..(n + 1) : k \in 1..n \/ (k = n + 1 /\ ~(k <= before))
      <4> DEFINE m == call[d].attempt
      <4>1. m \in Nat \ {0} /\ n = before + m - 1 /\ n \in Nat /\ before \in Nat
        BY <1>1, <1>2, <1>3, <1>4
      <4> HIDE DEF m
      <4>2. n + 1 > before
        BY <4>1
      <4>3. ASSUME NEW k \in 1..(n + 1) PROVE k \in 1..n \/ (k = n + 1 /\ ~(k <= before))
        BY <4>1, <4>2
      <4>4. QED
        BY <4>3
    <3>2. TAKE k \in 1..(n + 1)
    <3>3. CASE k \in 1..n
      BY <1>2, <1>3, <3>3
    <3>4. CASE k = n + 1 /\ ~(k <= before)
      BY <1>2, <3>4
    <3>5. QED
      BY <3>1, <3>3, <3>4
  <2>4. Raw(d, r) <=> \E k \in 1..(n + 1) : k > before /\ heard'[d][k].reply = "bad"
    <3> HIDE DEF n, before, chain
    <3>1. n + 1 > before /\ n + 1 \in 1..(n + 1)
      <4> DEFINE m == call[d].attempt
      <4>1. m \in Nat \ {0} /\ n = before + m - 1 /\ n \in Nat /\ before \in Nat
        BY <1>1, <1>2, <1>3, <1>4
      <4> HIDE DEF m
      <4>2. QED
        BY <4>1
    <3>2. \A k \in 1..(n + 1) : k \in 1..n \/ k = n + 1
      BY <1>2
    <3>3. \A k \in 1..n : k \in 1..(n + 1)
      BY <1>2
    <3>4. QED
      BY <1>2, <1>3, <3>1, <3>2, <3>3 DEF Raw
  <2>5. n + 1 = before + (call[d].attempt + 1) - 1
    BY <1>1, <1>2, <1>3, <1>4
  <2>6. Chain(route[d], side[d])' = chain
    BY <1>5 DEF Chain
  <2>7. QED
    BY <1>2, <1>6, <2>1, <2>2, <2>3, <2>4, <2>5, <2>6 DEF Asking, Earlier
<1>7. CASE Exhausted(d) /\ ~LastLink(d) /\ call'[d].link = call[d].link + 1
           /\ call'[d].attempt = 1 /\ call'[d].raw = FALSE
  <2>1. call[d].link = 1 /\ Len(chain) = 2
    <3> DEFINE k == call[d].link
               l == Len(chain)
    <3>1. k \in 1..l /\ l \in 1..2 /\ k # l
      BY <1>1, <1>7 DEF LastLink
    <3> HIDE DEF k, l
    <3>2. k = 1 /\ l = 2
      BY <3>1
    <3>3. QED
      BY <3>2 DEF k, l
  <2>2. before = 0 /\ Asked(d) = chain[1] /\ call[d].attempt = Retries[chain[1]] + 1
    BY <1>1, <1>3, <1>4, <1>7, <2>1 DEF Earlier, Exhausted
  <2>3. Chain(route[d], side[d])' = chain /\ Asked(d)' = chain[2]
    BY <1>5, <1>7, <2>1 DEF Chain, Asked
  <2>4. chain[2] \in Backends /\ Retries[chain[2]] \in Nat
    BY <1>1, <2>1, ChainOfBackends, DecisionAssumption
  <2>5. n + 1 = Retries[chain[1]] + 1
    BY <1>2, <1>3, <1>4, <2>2
  <2>6. \A k \in 1..(n + 1) : heard'[d][k].backend = chain[1] /\ heard'[d][k].reply # "good"
    <3> HIDE DEF n, before, chain
    <3>1. \A k \in 1..(n + 1) : (k \in 1..n /\ ~(k <= before)) \/ k = n + 1
      BY <1>2, <2>2
    <3>2. QED
      BY <1>2, <1>3, <2>2, <3>1
  <2>7. QED
    BY <1>2, <1>4, <1>7, <2>1, <2>3, <2>4, <2>5, <2>6 DEF Asking
<1>8. QED
  BY <1>6, <1>7
\* The result of a turn, once the trace has it.
LEMMA ResultIsLast ==
  ASSUME TypeOK, NEW d \in Drivers, pc[d] \in InCycle, NEW status \in Statuses,
         call'[d].trace = Append(call[d].trace, Ended(d, status))
  PROVE  /\ Result(d)'.backend = Asked(d)
         /\ Result(d)'.status = status
         /\ Result(d)'.attempts = call[d].attempt
<1>1. Ended(d, status) \in Entries /\ call[d].trace \in Seq(Entries)
  BY EndedType, AskedTypes DEF Asks
<1>2. /\ Len(Append(call[d].trace, Ended(d, status))) = Len(call[d].trace) + 1
      /\ Append(call[d].trace, Ended(d, status))[Len(call[d].trace) + 1] = Ended(d, status)
  BY <1>1
<1>3. Result(d)' = Ended(d, status)
  BY <1>2 DEF Result
<1>4. QED
  BY <1>3 DEF Ended

\* The last reply of a turn makes a result that tells what was heard.
LEMMA TurnIsTold ==
  ASSUME TypeOK, NEW d \in Drivers, pc[d] = "ask", Asking(d),
         NEW r \in ReplyKinds, Hears(d, r), NEW status \in Statuses,
         call'[d].link = call[d].link,
         call'[d].trace = Append(call[d].trace, Ended(d, status)),
         \/ r = "good" /\ status = "succeeded"
         \/ /\ r \in {"bad", "silent"} /\ status = FailureStatus(Raw(d, r))
            /\ Exhausted(d) /\ LastLink(d)
  PROVE  Tells(Invocation(d))' /\ Result(d)'.status = status
<1> DEFINE chain == Chain(route[d], side[d])
           before == Earlier(d)
           n == Len(heard[d])
           m == call[d].attempt
<1>1. /\ pc[d] \in InCycle /\ route[d] \in Routes /\ side[d] \in Sides
      /\ Asked(d) \in Backends /\ Retries[Asked(d)] \in Nat
      /\ call[d].link \in 1..Len(chain) /\ m \in Nat \ {0} /\ call[d].raw \in BOOLEAN
      /\ Len(chain) \in 1..2
  <2>1. pc[d] \in InCycle
    BY DEF InCycle
  <2>2. QED
    BY <2>1, AskedTypes, ChainOfBackends DEF Asks
<1>2. /\ n \in Nat /\ Len(heard'[d]) = n + 1
      /\ \A k \in 1..n : heard'[d][k] = heard[d][k]
      /\ heard'[d][n + 1].backend = Asked(d) /\ heard'[d][n + 1].reply = r
  BY <1>1, HeardNext
<1>3. /\ n = before + m - 1 /\ m <= Retries[Asked(d)] + 1
      /\ \A k \in 1..n : /\ heard[d][k].backend = IF k <= before THEN chain[1] ELSE Asked(d)
                         /\ heard[d][k].reply # "good"
      /\ call[d].raw <=> \E k \in 1..n : k > before /\ heard[d][k].reply = "bad"
  BY DEF Asking, Earlier
<1>4. Retries[chain[1]] \in Nat /\ before \in Nat /\ Asked(d) = chain[call[d].link]
  BY <1>1, ChainOfBackends, DecisionAssumption DEF Earlier, Asked
<1>5. UNCHANGED <<route, side>>
  BY DEF Hears
<1>6. /\ Result(d)'.backend = Asked(d) /\ Result(d)'.status = status /\ Result(d)'.attempts = m
  BY <1>1, ResultIsLast
<1> DEFINE i == Invocation(d)'
<1>7. /\ i.side = side[d] /\ i.backend = Asked(d) /\ i.status = status /\ i.attempts = m
      /\ i.failover = (call[d].link > 1) /\ i.heard = heard'[d] /\ i.route = route[d]
  BY <1>5, <1>6 DEF Invocation
<1> HIDE DEF i
<1>8. Before(i) = before
  BY <1>7 DEF Before, Earlier
<1>9. n + 1 = before + m /\ n + 1 > before
  <2>1. m \in Nat \ {0} /\ n = before + m - 1 /\ n \in Nat /\ before \in Nat
    BY <1>1, <1>2, <1>3, <1>4
  <2> HIDE DEF m, n, before
  <2>2. QED
    BY <2>1
<1>10. /\ i.failover => Len(chain) = 2
       /\ i.backend = chain[IF i.failover THEN 2 ELSE 1]
  <2> DEFINE k == call[d].link
             l == Len(chain)
  <2>1. k \in 1..l /\ l \in 1..2
    BY <1>1
  <2> HIDE DEF k, l
  <2>2. (k > 1 => l = 2 /\ k = 2) /\ (~(k > 1) => k = 1)
    BY <2>1
  <2>3. QED
    BY <1>4, <1>7, <2>2 DEF k, l
<1>11. \A k \in 1..(n + 1) : k \in 1..n \/ k = n + 1
  BY <1>2
<1>12. \A k \in 1..(n + 1) :
         /\ heard'[d][k].backend = IF k <= before THEN chain[1] ELSE Asked(d)
         /\ heard'[d][k].reply = "good" <=> (k = n + 1 /\ status = "succeeded")
  <2>1. status = "succeeded" <=> r = "good"
    BY FailureIsAStatus
  <2> HIDE DEF n, before, chain
  <2>2. TAKE k \in 1..(n + 1)
  <2>3. CASE k \in 1..n
    <3>1. k # n + 1
      BY <1>2, <2>3
    <3>2. QED
      BY <1>2, <1>3, <2>3, <3>1
  <2>4. CASE k = n + 1
    <3>1. ~(k <= before)
      BY <1>2, <1>4, <1>9, <2>4
    <3>2. QED
      BY <1>2, <2>1, <2>4, <3>1
  <2>5. QED
    BY <1>11, <2>3, <2>4
<1>13. status # "succeeded" =>
         /\ m = Retries[Asked(d)] + 1
         /\ i.failover \/ Len(chain) = 1
         /\ status = "parse_failed" <=> \E k \in 1..(n + 1) : k > before /\ heard'[d][k].reply = "bad"
  <2> SUFFICES ASSUME status # "succeeded"
               PROVE  /\ m = Retries[Asked(d)] + 1
                      /\ i.failover \/ Len(chain) = 1
                      /\ status = "parse_failed" <=>
                           \E k \in 1..(n + 1) : k > before /\ heard'[d][k].reply = "bad"
    OBVIOUS
  <2>1. r \in {"bad", "silent"} /\ status = FailureStatus(Raw(d, r)) /\ Exhausted(d) /\ LastLink(d)
    OBVIOUS
  <2>2. m = Retries[Asked(d)] + 1
    <3> DEFINE q == Retries[Asked(d)]
    <3>1. m \in Nat /\ q \in Nat /\ m > q /\ m <= q + 1
      BY <1>1, <1>3, <2>1 DEF Exhausted
    <3> HIDE DEF m, q
    <3>2. m = q + 1
      BY <3>1
    <3>3. QED
      BY <3>2 DEF q
  <2>3. i.failover \/ Len(chain) = 1
    <3> DEFINE k == call[d].link
    <3>1. k = Len(chain) /\ Len(chain) \in 1..2
      BY <1>1, <2>1 DEF LastLink
    <3> HIDE DEF k, chain
    <3>2. k > 1 \/ Len(chain) = 1
      BY <3>1
    <3>3. QED
      BY <1>7, <3>2 DEF k
  <2>4. status = "parse_failed" <=> Raw(d, r)
    BY <2>1 DEF FailureStatus
  <2>5. Raw(d, r) <=> \E k \in 1..(n + 1) : k > before /\ heard'[d][k].reply = "bad"
    <3> HIDE DEF n, before, chain
    <3>1. n + 1 \in 1..(n + 1) /\ \A k \in 1..n : k \in 1..(n + 1)
      BY <1>2
    <3>2. QED
      BY <1>2, <1>3, <1>9, <1>11, <3>1 DEF Raw
  <2>6. QED
    BY <2>2, <2>3, <2>4, <2>5
<1>14. m \in 1..(Retries[Asked(d)] + 1)
  BY <1>1, <1>3
<1>15. Tells(i)
  <2>1. Chain(i.route, i.side) = chain /\ Len(i.heard) = n + 1
    BY <1>2, <1>7
  <2> HIDE DEF chain, before, n, m
  <2>2. QED
    BY <1>7, <1>8, <1>9, <1>10, <1>12, <1>13, <1>14, <2>1 DEF Tells
<1>16. QED
  BY <1>6, <1>15 DEF i, Tells, Before, Chain
\* The verdict is no part of what an invocation tells.
LEMMA TellsTheSame ==
  ASSUME NEW i, NEW j, Tells(i),
         j.side = i.side, j.backend = i.backend, j.status = i.status, j.attempts = i.attempts,
         j.failover = i.failover, j.heard = i.heard, j.route = i.route
  PROVE  Tells(j)
BY DEF Tells, Before

\* The turns of the other drivers are what they were.
LEMMA OtherTurns ==
  ASSUME TurnsAreTold, NEW d \in Drivers, Apart(d), NEW e \in Drivers, e # d
  PROVE  /\ pc'[e] = "ask" => Asking(e)'
         /\ pc'[e] \in {"judge", "note"} => Told(e)'
<1>1. /\ pc'[e] = pc[e] /\ route'[e] = route[e] /\ cycle'[e] = cycle[e]
      /\ side'[e] = side[e] /\ call'[e] = call[e] /\ heard'[e] = heard[e]
      /\ verdict'[e] = verdict[e]
  BY DEF Apart
<1>2. pc[e] = "ask" => Asking(e)
  BY DEF TurnsAreTold
<1>3. pc[e] \in {"judge", "note"} => Told(e)
  BY DEF TurnsAreTold
<1>4. Asking(e)' <=> Asking(e)
  BY <1>1 DEF Asking, Asked, Chain
<1>5. Result(e)' = Result(e) /\ Invocation(e)' = Invocation(e)
  BY <1>1 DEF Invocation, Result
<1>6. Told(e)' <=> Told(e)
  BY <1>1, <1>5 DEF Told, Tells, Before, Chain
<1>7. QED
  BY <1>1, <1>2, <1>3, <1>4, <1>6

\* The turns of a driver that asks.
LEMMA AskTellsTurn ==
  ASSUME TypeOK, TurnsAreTold, NEW d \in Drivers, Ask(d)
  PROVE  /\ pc'[d] = "ask" => Asking(d)'
         /\ pc'[d] = "judge" => Result(d)'.status = "succeeded"
         /\ pc'[d] = "note" => Result(d)'.status # "succeeded"
         /\ pc'[d] \in {"judge", "note"} => Told(d)'
<1>1. pc[d] = "ask" /\ Asking(d) /\ pc[d] \in InCycle
  BY AskApart DEF TurnsAreTold, InCycle
<1>2. call[d] \in Asks /\ call[d].trace \in Seq(Entries)
  BY <1>1, AskedTypes DEF Asks
<1>3. CASE /\ Answered(d) /\ pc'[d] = "judge"
           /\ AskedOnce(d, "good",
                [call[d] EXCEPT !.trace = Append(call[d].trace, Ended(d, "succeeded"))])
  <2>1. "succeeded" \in Statuses /\ "good" \in ReplyKinds
    BY DEF Statuses, ReplyKinds
  <2>2. Append(call[d].trace, Ended(d, "succeeded")) \in Seq(Entries)
    BY <1>1, <1>2, <2>1, EndedType
  <2>3. /\ Hears(d, "good")
        /\ call'[d] = [call[d] EXCEPT !.trace = Append(call[d].trace, Ended(d, "succeeded"))]
    BY <1>3 DEF AskedOnce, TypeOK, MemoryTypes
  <2>4. /\ call'[d].link = call[d].link
        /\ call'[d].trace = Append(call[d].trace, Ended(d, "succeeded"))
    BY <1>2, <2>2, <2>3, AskTrace
  <2>5. Tells(Invocation(d))' /\ Result(d)'.status = "succeeded"
    BY <1>1, <2>1, <2>3, <2>4, TurnIsTold
  <2>6. QED
    BY <1>3, <2>5 DEF Told
<1>4. ASSUME NEW r \in {"bad", "silent"}, Retry(d, r), pc'[d] = "ask",
             AskedOnce(d, r, [call[d] EXCEPT !.attempt = call[d].attempt + 1, !.raw = Raw(d, r)])
      PROVE  Asking(d)'
  <2>1. /\ Hears(d, r) /\ ~Exhausted(d)
        /\ call'[d] = [call[d] EXCEPT !.attempt = call[d].attempt + 1, !.raw = Raw(d, r)]
    BY <1>4 DEF Retry, AskedOnce, TypeOK, MemoryTypes
  <2>2. Raw(d, r) \in BOOLEAN
    BY <1>2 DEF Raw, Asks
  <2>3. /\ call'[d].link = call[d].link /\ call'[d].attempt = call[d].attempt + 1
        /\ call'[d].raw = Raw(d, r)
    <3>1. call[d] \in Asks
      BY <1>2
    <3>2. /\ [call[d] EXCEPT !.attempt = call[d].attempt + 1, !.raw = Raw(d, r)].link = call[d].link
          /\ [call[d] EXCEPT !.attempt = call[d].attempt + 1, !.raw = Raw(d, r)].attempt
               = call[d].attempt + 1
          /\ [call[d] EXCEPT !.attempt = call[d].attempt + 1, !.raw = Raw(d, r)].raw = Raw(d, r)
      BY <3>1, <2>2, AskAttempt
    <3>3. QED
      BY <2>1, <3>2
  <2>4. QED
    BY <1>1, <2>1, <2>3, AskingGoesOn
<1>5. ASSUME NEW r \in {"bad", "silent"}, FailOver(d, r), pc'[d] = "ask",
             AskedOnce(d, r, [Fresh EXCEPT !.link = call[d].link + 1, !.trace = Traced(d, r)])
      PROVE  Asking(d)'
  <2>1. /\ Hears(d, r) /\ Exhausted(d) /\ ~LastLink(d)
        /\ call'[d] = [Fresh EXCEPT !.link = call[d].link + 1, !.trace = Traced(d, r)]
    BY <1>5 DEF FailOver, AskedOnce, TypeOK, MemoryTypes
  <2>2. /\ call'[d].link = call[d].link + 1 /\ call'[d].attempt = 1
        /\ call'[d].raw = FALSE
    BY <2>1 DEF Fresh
  <2>3. QED
    BY <1>1, <2>1, <2>2, AskingGoesOn
<1>6. ASSUME NEW r \in {"bad", "silent"}, GiveUp(d, r), pc'[d] = "note",
             AskedOnce(d, r, [call[d] EXCEPT !.trace = Traced(d, r)])
      PROVE  Told(d)' /\ Result(d)'.status # "succeeded"
  <2> DEFINE status == FailureStatus(Raw(d, r))
  <2>1. status \in Statuses /\ status # "succeeded" /\ r \in ReplyKinds
    BY FailureIsAStatus DEF ReplyKinds
  <2>2. Traced(d, r) = Append(call[d].trace, Ended(d, status)) /\ Traced(d, r) \in Seq(Entries)
    BY <1>1, <1>2, <2>1, EndedType DEF Traced
  <2>3. /\ Hears(d, r) /\ Exhausted(d) /\ LastLink(d)
        /\ call'[d] = [call[d] EXCEPT !.trace = Traced(d, r)]
    BY <1>6 DEF GiveUp, AskedOnce, TypeOK, MemoryTypes
  <2>4. call'[d].link = call[d].link /\ call'[d].trace = Append(call[d].trace, Ended(d, status))
    BY <1>2, <2>2, <2>3, AskTrace
  <2>5. Tells(Invocation(d))' /\ Result(d)'.status = status
    <3> HIDE DEF status
    <3>1. status = FailureStatus(Raw(d, r))
      BY DEF status
    <3>2. QED
      BY <1>1, <2>1, <2>3, <2>4, <3>1, TurnIsTold
  <2>6. QED
    BY <1>6, <2>1, <2>5 DEF Told
<1>7. QED
  BY <1>3, <1>4, <1>5, <1>6, AskSteps

\* After a step the turn of the driver is told.
LEMMA TurnsStayTold ==
  ASSUME TypeInv, TurnsAreTold, NEW d \in Drivers, Acts(d)
  PROVE  TurnsAreTold'
<1>1. TypeOK /\ AnswersAreSaved /\ Apart(d)
  BY StepApart DEF TypeInv
<1>2. pc[d] \in InCycle => route[d] \in Routes /\ side[d] \in Sides
  BY <1>1, AskedTypes
<1>3. /\ pc'[d] = "ask" => Asking(d)'
      /\ pc'[d] \in {"judge", "note"} => Told(d)'
  <2>1. CASE Launch(d) \/ Begin(d) \/ Leave(d) \/ AlienReply(d) \/ Dies(d)
    <3>1. pc'[d] \in {"off", "top"} \/ (pc[d] = "top" /\ pc'[d] = "ask"
            /\ UNCHANGED <<route, side, call, heard>>)
      BY <1>1, <2>1, IdleApart
    <3>2. CASE pc[d] = "top" /\ pc'[d] = "ask" /\ UNCHANGED <<route, side, call, heard>>
      <4>1. /\ route[d] \in Routes /\ "red" \in Sides
            /\ side[d] = "red" /\ call[d] = Fresh /\ heard[d] = <<>>
        BY <1>1, <3>2 DEF TypeOK, MemoryTypes, TurnTypes, InCycle, Sides
      <4>2. QED
        BY <3>2, <4>1, FreshTurn
    <3>3. QED
      BY <3>1, <3>2
  <2>2. CASE Ask(d)
    BY <2>2, <1>1, AskTellsTurn
  <2>3. CASE Judge(d)
    <3>1. /\ pc[d] = "judge" /\ pc'[d] = "note" /\ Told(d)
          /\ UNCHANGED <<route, cycle, side, call, heard>>
      BY <2>3, <1>1, JudgeApart DEF TurnsAreTold
    <3>2. Result(d)' = Result(d)
      BY <3>1 DEF Result
    <3>3. Tells(Invocation(d))'
      <4> DEFINE i == Invocation(d)
                 j == Invocation(d)'
      <4>1. /\ j.side = i.side /\ j.backend = i.backend /\ j.status = i.status
            /\ j.attempts = i.attempts /\ j.failover = i.failover /\ j.heard = i.heard
            /\ j.route = i.route
        BY <3>1, <3>2 DEF Invocation
      <4>2. Tells(i)
        BY <3>1 DEF Told
      <4> HIDE DEF i, j
      <4>3. Tells(j)
        BY <4>1, <4>2, TellsTheSame
      <4>4. QED
        BY <4>3 DEF j, Tells, Before, Chain
    <3>4. QED
      BY <3>1, <3>3 DEF Told
  <2>4. CASE NextTurn(d) /\ UNCHANGED route /\ pc[d] \in InCycle
    <3>1. \/ pc'[d] = "close"
          \/ pc'[d] = "ask" /\ side'[d] = "blue" /\ call'[d] = Fresh /\ heard'[d] = <<>>
      BY <2>4, <1>1, NextTurnApart
    <3>2. "blue" \in Sides /\ route'[d] = route[d] /\ route[d] \in Routes
      BY <2>4, <1>2 DEF Sides
    <3>3. QED
      BY <3>1, <3>2, FreshTurn
  <2>5. CASE Note(d) \/ Finalizes(d)
    <3>1. \/ pc[d] \in InCycle /\ UNCHANGED route /\ NextTurn(d)
          \/ pc'[d] \in {"fetch", "walk", "off"}
      BY <2>5, <1>1, NoteApart, FinalizeApart DEF InCycle
    <3>2. QED
      BY <2>4, <3>1
  <2>6. CASE Fetch(d) \/ Open(d) \/ Close(d)
    BY <2>6, <1>1, FetchApart, OpenApart, CloseApart
  <2>7. QED
    BY <2>1, <2>2, <2>3, <2>5, <2>6 DEF Acts, Works, Finalizes
<1>4. QED
  BY <1>1, <1>3, OtherTurns DEF TurnsAreTold

\* What is written stays told, and what is written now was told of the turn.
LEMMA RecordsStayTold ==
  ASSUME TypeInv, TurnsAreTold, RecordsTellTheCalls, NEW d \in Drivers, Acts(d)
  PROVE  RecordsTellTheCalls'
<1>1. TypeOK /\ AnswersAreSaved
  BY DEF TypeInv
<1>2. CASE Note(d)
  <2>1. Tells(Invocation(d))
    BY <1>1, <1>2, NoteApart DEF TurnsAreTold, Told
  <2>2. /\ Grown(invocations, invocations')
        /\ \A n \in DOMAIN invocations' : n \in DOMAIN invocations \/ invocations'[n] = Invocation(d)
    BY <1>1, <1>2, NoteApart DEF TablesGrow
  <2>3. \A n \in DOMAIN invocations' : Tells(invocations'[n])
    BY <2>1, <2>2 DEF RecordsTellTheCalls, Grown
  <2>4. QED
    BY <2>3 DEF RecordsTellTheCalls, Tells, Before, Chain
<1>3. CASE ~Note(d)
  <2>1. invocations' = invocations
    BY <1>1, <1>3, IdleApart, NothingGrows, AskApart, JudgeApart, FetchApart, OpenApart,
       FinalizeApart, CloseApart DEF Acts, Works, Finalizes
  <2>2. QED
    BY <2>1 DEF RecordsTellTheCalls, Tells, Before, Chain
<1>4. QED
  BY <1>2, <1>3

ToldInv == TypeInv /\ TurnsAreTold /\ RecordsTellTheCalls

LEMMA ToldHolds == Spec => []ToldInv
<1>1. Init => ToldInv
  BY InitTypes DEF Init, ToldInv, TurnsAreTold, RecordsTellTheCalls
<1>2. ToldInv /\ [Next]_vars => ToldInv'
  <2> SUFFICES ASSUME ToldInv, [Next]_vars PROVE ToldInv'
    OBVIOUS
  <2>1. TypeInv'
    BY NextKeepsTypes DEF ToldInv
  <2>2. ASSUME NEW d \in Drivers, Acts(d)
        PROVE  TurnsAreTold' /\ RecordsTellTheCalls'
    BY <2>2, TurnsStayTold, RecordsStayTold DEF ToldInv
  <2>3. CASE Waits
    <3>1. UNCHANGED <<invocations, pc, route, cycle, side, call, heard, verdict>>
      BY <2>3 DEF Waits
    <3>2. RecordsTellTheCalls'
      BY <3>1 DEF ToldInv, RecordsTellTheCalls, Tells, Before, Chain
    <3>3. \A d \in Drivers : (Asking(d)' <=> Asking(d)) /\ Result(d)' = Result(d)
      BY <3>1 DEF Asking, Asked, Chain, Result
    <3>4. \A d \in Drivers : Invocation(d)' = Invocation(d)
      BY <3>1, <3>3 DEF Invocation
    <3>5. ASSUME NEW d \in Drivers
          PROVE  Told(d)' <=> Told(d)
      <4>1. Result(d)' = Result(d) /\ Invocation(d)' = Invocation(d)
        BY <3>3, <3>4
      <4>2. QED
        BY <3>1, <4>1 DEF Told, Tells, Before, Chain
    <3>6. TurnsAreTold'
      <4>1. TurnsAreTold
        BY DEF ToldInv
      <4>2. ASSUME NEW d \in Drivers
            PROVE  /\ pc'[d] = "ask" => Asking(d)'
                   /\ pc'[d] \in {"judge", "note"} => Told(d)'
        BY <3>1, <3>3, <3>5, <4>1 DEF TurnsAreTold
      <4>3. QED
        BY <4>2 DEF TurnsAreTold
    <3>7. QED
      BY <2>1, <3>2, <3>6 DEF ToldInv
  <2>4. QED
    BY <2>1, <2>2, <2>3, StepsOrWaits DEF ToldInv, TypeInv
<1>3. QED
  BY <1>1, <1>2, PTL DEF Spec

\* An invocation tells what happened, for any routing, any number of attempts and any
\* replies: who was asked, how often, what answered, and why it failed.
THEOREM RecordsTellTheCallsAlways == Spec => []RecordsTellTheCalls
BY ToldHolds, PTL DEF ToldInv
-------------------------------------------------------------------------------
(* Verdicts, citations and executions. *)

OwnInv ==
  /\ TypeInv
  /\ TurnsAreTold
  /\ VerdictsAreOwn
  /\ DriversCiteTheirOwn
  /\ CitationsAreApart
  /\ ExecutesAnAnswer
  /\ CyclesCiteTheirOwn

\* The parts of the invariant, of one driver.
LEMMA OwnParts ==
  ASSUME OwnInv
  PROVE  /\ TypeOK /\ AnswersAreSaved
         /\ \A e \in Drivers : VerdictIsOwn(e)
         /\ \A e \in Drivers : \A s \in Sides : CitesItsOwn(e, s) /\ CitedApart(e, s)
         /\ \A n \in DOMAIN invocations : HasItsVerdict(n)
         /\ \A x \in DOMAIN executions : CarriesOutAnAnswer(x)
         /\ \A e \in Drivers : side[e] \in Sides /\ verdict[e] \in Nat
                              /\ \A s \in Sides : cited[e][s] \in Nat /\ done[e][s] \in Nat
         /\ 0 \notin DOMAIN invocations /\ 0 \notin DOMAIN executions
         /\ DOMAIN verdicts = 1..Len(verdicts) /\ 0 \notin DOMAIN verdicts
         /\ verdicts \in Seq(Sides)
<1>1. /\ verdicts \in Seq(Sides) /\ invocations \in Seq(Invocations)
      /\ executions \in Seq(Executions)
  BY DEF OwnInv, TypeInv, TypeOK, StoreTypes
<1>2. /\ 0 \notin DOMAIN invocations /\ 0 \notin DOMAIN executions
      /\ DOMAIN verdicts = 1..Len(verdicts) /\ 0 \notin DOMAIN verdicts
  BY <1>1
<1>3. \A e \in Drivers : side[e] \in Sides /\ verdict[e] \in Nat
                          /\ \A s \in Sides : cited[e][s] \in Nat /\ done[e][s] \in Nat
  BY DEF OwnInv, TypeInv, TypeOK, MemoryTypes
<1>4. QED
  BY <1>1, <1>2, <1>3 DEF OwnInv, TypeInv, VerdictsAreOwn, DriversCiteTheirOwn, CitationsAreApart, ExecutesAnAnswer

\* A step that is no recording leaves the invocations alone; only opening adds an
\* execution, only judging a verdict, only closing writes a cycle.
LEMMA WhoWrites ==
  ASSUME TypeOK, NEW d \in Drivers, Acts(d)
  PROVE  /\ Judge(d) \/ verdicts' = verdicts
         /\ Note(d) \/ invocations' = invocations
         /\ Open(d) \/ Finalizes(d) \/ executions' = executions
         /\ Open(d) \/ /\ DOMAIN executions' = DOMAIN executions
                       /\ \A x \in DOMAIN executions :
                            /\ executions'[x].invocation = executions[x].invocation
                            /\ executions'[x].verdict = executions[x].verdict
         /\ Close(d) \/ cycles' = cycles
<1>1. CASE Launch(d) \/ Begin(d) \/ Leave(d) \/ AlienReply(d) \/ Dies(d)
  BY <1>1, IdleApart, NothingGrows
<1>2. CASE Ask(d)
  BY <1>2, AskApart, NothingGrows
<1>3. CASE Judge(d)
  BY <1>3, JudgeApart
<1>4. CASE Note(d)
  BY <1>4, NoteApart
<1>5. CASE Fetch(d)
  BY <1>5, FetchApart DEF store
<1>6. CASE Open(d) \/ Finalizes(d)
  BY <1>6, OpenApart, FinalizeApart
<1>7. CASE Close(d)
  BY <1>7, CloseApart
<1>8. QED
  BY <1>1, <1>2, <1>3, <1>4, <1>5, <1>6, <1>7 DEF Acts, Works, Finalizes

\* A row that is written keeps its verdict.
LEMMA VerdictsStayHeld ==
  ASSUME OwnInv, NEW d \in Drivers, Acts(d)
  PROVE  \A n \in DOMAIN invocations' : HasItsVerdict(n)'
<1>1. /\ TypeOK /\ AnswersAreSaved /\ TablesGrow
      /\ \A n \in DOMAIN invocations : HasItsVerdict(n)
  BY OwnParts, StepApart
<1>2. \A n \in DOMAIN invocations :
        invocations[n].verdict # 0 => invocations[n].verdict \in DOMAIN verdicts'
                                      /\ verdicts'[invocations[n].verdict] = invocations[n].side
  BY <1>1 DEF HasItsVerdict, About, TablesGrow, Grown
<1>3. CASE Note(d)
  <2> DEFINE new == Len(invocations) + 1
             i == Invocation(d)
  <2>1. /\ DOMAIN invocations' = DOMAIN invocations \cup {new} /\ new \notin DOMAIN invocations
        /\ invocations'[new] = i /\ pc[d] = "note" /\ verdicts' = verdicts
        /\ \A n \in DOMAIN invocations : invocations'[n] = invocations[n]
    BY <1>1, <1>3, NoteApart DEF TablesGrow, Grown
  <2>2. i.status = Result(d).status /\ i.verdict = verdict[d] /\ i.side = side[d]
    BY DEF Invocation
  <2>3. VerdictIsOwn(d) /\ (verdict[d] # 0 => verdict[d] \in About(side[d]))
    BY OwnParts DEF AnswersAreSaved
  <2>4. /\ i.status = "succeeded" <=> i.verdict # 0
        /\ i.verdict # 0 => /\ i.verdict \in DOMAIN verdicts' /\ verdicts'[i.verdict] = i.side
                            /\ \A n \in DOMAIN invocations : invocations[n].verdict # i.verdict
    BY <2>1, <2>2, <2>3 DEF VerdictIsOwn, About
  <2> HIDE DEF new, i
  <2>5. ASSUME NEW n \in DOMAIN invocations'
        PROVE  /\ invocations'[n].status = "succeeded" <=> invocations'[n].verdict # 0
               /\ invocations'[n].verdict # 0 =>
                    /\ invocations'[n].verdict \in DOMAIN verdicts'
                    /\ verdicts'[invocations'[n].verdict] = invocations'[n].side
                    /\ \A m \in DOMAIN invocations' :
                         invocations'[m].verdict = invocations'[n].verdict => m = n
    <3>1. CASE n = new
      BY <2>1, <2>4, <3>1
    <3>2. CASE n \in DOMAIN invocations
      BY <1>1, <1>2, <2>1, <2>4, <3>2 DEF HasItsVerdict
    <3>3. QED
      BY <2>1, <2>5, <3>1, <3>2
  <2>6. QED
    BY <2>5 DEF HasItsVerdict, About
<1>4. CASE ~Note(d)
  <2>1. invocations' = invocations
    BY <1>1, <1>4, WhoWrites
  <2>2. QED
    BY <1>1, <1>2, <2>1 DEF HasItsVerdict, About
<1>5. QED
  BY <1>3, <1>4

\* A driver that has just saved a verdict is alone with it.
LEMMA VerdictsStayOwn ==
  ASSUME OwnInv, NEW d \in Drivers, Acts(d)
  PROVE  VerdictsAreOwn'
<1>1. /\ TypeOK /\ AnswersAreSaved /\ TablesGrow /\ Apart(d)
      /\ \A e \in Drivers : VerdictIsOwn(e)
      /\ \A e \in Drivers : verdict[e] # 0 => verdict[e] \in DOMAIN verdicts
      /\ \A n \in DOMAIN invocations : invocations[n].verdict # 0 => invocations[n].verdict \in DOMAIN verdicts
      /\ 0 \notin DOMAIN verdicts
  BY OwnParts, StepApart DEF AnswersAreSaved, About, HasItsVerdict
<1>2. /\ \A e \in Drivers : e # d => pc'[e] = pc[e] /\ verdict'[e] = verdict[e] /\ call'[e] = call[e]
      /\ \A e \in Drivers : e # d => Result(e)' = Result(e)
  BY <1>1 DEF Apart, Result
<1>3. CASE Launch(d) \/ Begin(d) \/ Leave(d) \/ AlienReply(d) \/ Dies(d)
  <2>1. /\ pc'[d] # "note" /\ (pc'[d] \in {"ask", "judge"} => verdict'[d] = 0)
        /\ invocations' = invocations
    <3>1. pc[d] = "top" => verdict[d] = 0
      BY <1>1 DEF TypeOK, TurnTypes, InCycle
    <3>2. QED
      BY <1>1, <1>3, <3>1, IdleApart, NothingGrows
  <2>2. QED
    BY <1>1, <1>2, <2>1 DEF VerdictsAreOwn, VerdictIsOwn
<1>4. CASE Ask(d)
  <2>1. /\ pc[d] = "ask" /\ pc'[d] \in {"ask", "judge", "note"} /\ verdict' = verdict
        /\ verdict[d] = 0 /\ invocations' = invocations
        /\ pc'[d] = "note" => Result(d)'.status # "succeeded"
    BY <1>1, <1>4, AskApart, AskTellsTurn, NothingGrows DEF VerdictIsOwn, OwnInv
  <2>2. QED
    BY <1>1, <1>2, <2>1 DEF VerdictsAreOwn, VerdictIsOwn
<1>5. CASE Judge(d)
  <2>1. /\ pc'[d] = "note" /\ verdict'[d] \notin DOMAIN verdicts /\ invocations' = invocations
        /\ verdict'[d] # 0 /\ call' = call
    <3>1. Len(verdicts) + 1 # 0
      BY OwnParts
    <3>2. QED
      BY <1>1, <1>5, <3>1, JudgeApart
  <2>2. Result(d)'.status = "succeeded"
    BY <1>1, <1>5, <2>1, JudgeApart DEF OwnInv, TurnsAreTold, Told, Result
  <2>3. QED
    BY <1>1, <1>2, <2>1, <2>2 DEF VerdictsAreOwn, VerdictIsOwn
<1>6. CASE Note(d)
  <2> DEFINE new == Len(invocations) + 1
  <2>1. /\ DOMAIN invocations' = DOMAIN invocations \cup {new}
        /\ invocations'[new].verdict = verdict[d] /\ pc[d] = "note"
        /\ \A n \in DOMAIN invocations : invocations'[n] = invocations[n]
    <3>1. Invocation(d).verdict = verdict[d]
      BY DEF Invocation
    <3>2. QED
      BY <1>1, <1>6, <3>1, NoteApart DEF TablesGrow, Grown
  <2>2. pc'[d] # "note" /\ pc'[d] # "judge" /\ (pc'[d] = "ask" => verdict'[d] = 0)
    BY <1>1, <1>6, NoteApart, NextTurnApart
  <2> HIDE DEF new
  <2>3. QED
    BY <1>1, <1>2, <2>1, <2>2 DEF VerdictsAreOwn, VerdictIsOwn
<1>7. CASE Fetch(d) \/ Open(d) \/ Finalizes(d)
  <2>1. pc'[d] # "note" /\ pc'[d] # "judge" /\ (pc'[d] = "ask" => verdict'[d] = 0)
        /\ invocations' = invocations
    BY <1>1, <1>7, FetchApart, OpenApart, FinalizeApart, NextTurnApart DEF store
  <2>2. QED
    BY <1>1, <1>2, <2>1 DEF VerdictsAreOwn, VerdictIsOwn
<1>8. CASE Close(d)
  <2>1. pc'[d] = "top" /\ invocations' = invocations
    BY <1>1, <1>8, CloseApart
  <2>2. QED
    BY <1>1, <1>2, <2>1 DEF VerdictsAreOwn, VerdictIsOwn
<1>9. QED
  BY <1>3, <1>4, <1>5, <1>6, <1>7, <1>8 DEF Acts, Works, Finalizes

\* The row a driver has opened is the one it writes over, and nobody else's.
LEMMA OwnRow ==
  ASSUME OwnInv, NEW d \in Drivers, Finalizes(d)
  PROVE  /\ side[d] \in Sides /\ done[d][side[d]] \in DOMAIN executions
         /\ executions[done[d][side[d]]].state = Reached(d, side[d])
         /\ \A e \in Drivers : \A s \in Sides :
              done[e][s] = done[d][side[d]] => e = d /\ s = side[d]
<1>1. pc[d] \in {"start", "walk"}
  BY DEF Finalizes, Start, Step, Complete, Abort
<1>2. side[d] \in Sides
  BY OwnParts
<1>3. /\ done[d][side[d]] # 0 /\ done[d][side[d]] \in DOMAIN executions
      /\ executions[done[d][side[d]]].state = Reached(d, side[d])
      /\ executions[done[d][side[d]]].invocation = cited[d][side[d]]
      /\ cited[d][side[d]] # 0
  BY <1>1, <1>2, OwnParts DEF CitesItsOwn
<1>4. ASSUME NEW e \in Drivers, NEW s \in Sides, done[e][s] = done[d][side[d]]
      PROVE  e = d /\ s = side[d]
  <2>1. cited[e][s] = cited[d][side[d]]
    BY <1>3, <1>4, OwnParts DEF CitesItsOwn
  <2>2. QED
    BY <1>2, <1>3, <2>1, OwnParts DEF CitedApart
<1>5. QED
  BY <1>2, <1>3, <1>4

\* What is written over was under way: a completed execution stays as it is.
LEMMA CompletedStay ==
  ASSUME OwnInv, NEW d \in Drivers, Acts(d)
  PROVE  \A n \in DOMAIN executions :
           executions[n].state = "completed" => /\ n \in DOMAIN executions'
                                               /\ executions'[n] = executions[n]
<1>1. TypeOK
  BY OwnParts
<1>2. CASE Finalizes(d)
  <2>1. pc[d] \in {"start", "walk"} /\ executions[done[d][side[d]]].state = Reached(d, side[d])
    BY <1>1, <1>2, OwnRow, FinalizeApart
  <2>2. executions[done[d][side[d]]].state # "completed"
    BY <2>1 DEF Reached
  <2>3. QED
    BY <1>1, <1>2, <2>2, FinalizeApart
<1>3. CASE Open(d)
  BY <1>1, <1>3, OpenApart
<1>4. CASE ~Open(d) /\ ~Finalizes(d)
  BY <1>1, <1>4, WhoWrites
<1>5. QED
  BY <1>2, <1>3, <1>4

\* What another driver cites stays what it is.
LEMMA OthersCiteTheirOwn ==
  ASSUME OwnInv, NEW d \in Drivers, Acts(d), NEW e \in Drivers, e # d, NEW s \in Sides
  PROVE  CitesItsOwn(e, s)'
<1>1. /\ pc'[e] = pc[e] /\ side'[e] = side[e] /\ cycle'[e] = cycle[e]
      /\ cited'[e] = cited[e] /\ done'[e] = done[e]
      /\ CitesItsOwn(e, s)
      /\ Grown(invocations, invocations')
      /\ cited[e][s] \in Nat /\ 0 \notin DOMAIN invocations
      /\ verdict'[e] = verdict[e]
  BY OwnParts, StepApart DEF Apart, TablesGrow
<1>2. Recorded(e)' = Recorded(e) /\ Reached(e, s)' = Reached(e, s)
  BY <1>1 DEF Recorded, Reached
<1>3. CASE cited[e][s] # 0
  <2>1. cited[e][s] \in DOMAIN invocations' /\ invocations'[cited[e][s]] = invocations[cited[e][s]]
    BY <1>1, <1>3 DEF CitesItsOwn, Grown
  <2>2. done[e][s] # 0 => /\ done[e][s] \in DOMAIN executions'
                          /\ executions'[done[e][s]] = executions[done[e][s]]
    <3>1. TypeOK /\ (done[e][s] # 0 => done[e][s] \in DOMAIN executions)
      BY <1>1, OwnParts DEF CitesItsOwn
    <3>2. CASE Finalizes(d)
      BY <3>1, <3>2, OwnRow, FinalizeApart
    <3>3. CASE Open(d)
      BY <3>1, <3>3, OpenApart
    <3>4. CASE ~Open(d) /\ ~Finalizes(d)
      BY <3>1, <3>4, WhoWrites
    <3>5. QED
      BY <3>2, <3>3, <3>4
  <2>3. QED
    BY <1>1, <1>2, <1>3, <2>1, <2>2 DEF CitesItsOwn
<1>4. CASE cited[e][s] = 0
  <2>1. ~(pc[e] \in Executing /\ s = side[e])
    BY <1>1, <1>4 DEF CitesItsOwn, Recorded
  <2>2. done[e][s] = 0
    BY <1>1, <1>4, <2>1 DEF CitesItsOwn, Executing
  <2>3. QED
    BY <1>1, <1>2, <1>4, <2>1, <2>2 DEF CitesItsOwn, Executing
<1>5. QED
  BY <1>3, <1>4

\* A driver in no cycle cites nothing, and starts from nothing.
LEMMA CitesNothing ==
  ASSUME NEW d \in Drivers, NEW s \in Sides, cited'[d][s] = 0, done'[d][s] = 0,
         \/ pc'[d] \in {"off", "top"}
         \/ pc'[d] = "ask" /\ side'[d] = "red"
  PROVE  CitesItsOwn(d, s)'
<1>1. s \notin Recorded(d)' /\ pc'[d] \notin Executing
  BY DEF Recorded, InCycle, Executing
<1>2. QED
  BY <1>1 DEF CitesItsOwn, Executing

\* The driver itself cites what it has recorded.
LEMMA CitesWhatItRecords ==
  ASSUME OwnInv, NEW d \in Drivers, Note(d), NEW s \in Sides
  PROVE  CitesItsOwn(d, s)'
<1> DEFINE new == Len(invocations) + 1
           i == Invocation(d)
<1>1. /\ TypeOK /\ AnswersAreSaved /\ side[d] \in Sides /\ verdict[d] \in Nat
      /\ CitesItsOwn(d, s) /\ VerdictIsOwn(d)
      /\ cited[d] \in [Sides -> Nat] /\ cited[d][s] \in Nat /\ done[d][s] \in Nat
      /\ new # 0 /\ new \in Nat
  <2>1. invocations \in Seq(Invocations)
    BY DEF OwnInv, TypeInv, TypeOK, StoreTypes
  <2>2. cited[d] \in [Sides -> Nat]
    BY DEF OwnInv, TypeInv, TypeOK, MemoryTypes
  <2>3. QED
    BY <2>1, <2>2, OwnParts
<1>2. /\ pc[d] = "note" /\ pc[d] \in InCycle
      /\ DOMAIN invocations' = DOMAIN invocations \cup {new} /\ invocations'[new] = i
      /\ \A n \in DOMAIN invocations : invocations'[n] = invocations[n]
      /\ cited'[d] = [cited[d] EXCEPT ![side[d]] = new]
      /\ cycle' = cycle /\ done' = done /\ executions' = executions
  BY <1>1, NoteApart DEF TablesGrow, Grown, InCycle
<1>3. /\ i.side = side[d] /\ i.cycle = cycle[d] /\ i.verdict = verdict[d] /\ i.status = Result(d).status
  BY DEF Invocation
<1>4. \/ /\ d \in Live /\ verdict[d] # 0 /\ pc'[d] = "fetch" /\ side'[d] = side[d]
      \/ /\ ~(d \in Live /\ verdict[d] # 0) /\ side[d] = "red" /\ pc'[d] = "ask" /\ side'[d] = "blue"
      \/ /\ ~(d \in Live /\ verdict[d] # 0) /\ side[d] = "blue" /\ pc'[d] = "close" /\ side'[d] = side[d]
  BY <1>1, NoteApart, NextTurnApart
<1>5. Recorded(d) = {t \in Sides : side[d] = "blue" /\ t = "red"}
  BY <1>2 DEF Recorded, Executing
<1>6. Recorded(d)' = Recorded(d) \cup {side[d]}
  BY <1>1, <1>4, <1>5 DEF Recorded, InCycle, Executing, Sides
<1> HIDE DEF new, i
<1>7. CASE s = side[d]
  <2>1. cited'[d][s] = new /\ cited[d][s] = 0 /\ done[d][s] = 0
    <3>1. s \notin Recorded(d)
      BY <1>2, <1>5, <1>7 DEF Sides
    <3>2. QED
      BY <1>1, <1>2, <1>7, <3>1 DEF CitesItsOwn
  <2>2. verdict[d] # 0 <=> i.status = "succeeded"
    BY <1>1, <1>2, <1>3 DEF VerdictIsOwn
  <2>3. pc'[d] = "fetch" => d \in Live /\ verdict[d] # 0 /\ verdict'[d] = verdict[d]
    BY <1>1, <1>4, NoteApart, NextTurnApart
  <2>4. /\ ~(pc'[d] = "fetch" /\ s = side'[d]) => ~(d \in Live /\ verdict[d] # 0)
        /\ pc'[d] \notin {"create", "start", "walk"}
    BY <1>4, <1>7
  <2>5. QED
    BY <1>1, <1>2, <1>3, <1>6, <1>7, <2>1, <2>2, <2>3, <2>4 DEF CitesItsOwn
<1>8. CASE s # side[d]
  <2>1. cited'[d][s] = cited[d][s] /\ (s \in Recorded(d)' <=> s \in Recorded(d))
    BY <1>1, <1>2, <1>6, <1>8
  <2>2. /\ ~(pc'[d] = "fetch" /\ s = side'[d]) /\ pc'[d] \notin {"create", "start", "walk"}
    BY <1>4, <1>8
  <2>3. Reached(d, s) = "completed" /\ Reached(d, s)' = "completed"
    BY <1>2, <2>2 DEF Reached
  <2>4. QED
    BY <1>1, <1>2, <2>1, <2>2, <2>3 DEF CitesItsOwn
<1>9. QED
  BY <1>7, <1>8

\* ... and what it has opened ...
LEMMA CitesWhatItOpens ==
  ASSUME OwnInv, NEW d \in Drivers, Open(d), NEW s \in Sides
  PROVE  CitesItsOwn(d, s)'
<1> DEFINE new == Len(executions) + 1
<1>1. /\ TypeOK /\ AnswersAreSaved /\ side[d] \in Sides
      /\ CitesItsOwn(d, s) /\ done[d] \in [Sides -> Nat] /\ cited[d][s] \in Nat /\ done[d][s] \in Nat
      /\ \A n \in DOMAIN invocations : HasItsVerdict(n)
      /\ new # 0 /\ new \in Nat
  <2>1. executions \in Seq(Executions)
    BY DEF OwnInv, TypeInv, TypeOK, StoreTypes
  <2>2. done[d] \in [Sides -> Nat]
    BY DEF OwnInv, TypeInv, TypeOK, MemoryTypes
  <2>3. QED
    BY <2>1, <2>2, OwnParts
<1>2. /\ pc[d] = "create" /\ pc'[d] = "start"
      /\ DOMAIN executions' = DOMAIN executions \cup {new}
      /\ executions'[new].invocation = cited[d][side[d]] /\ executions'[new].state = "pending"
      /\ \A x \in DOMAIN executions : executions'[x] = executions[x]
      /\ done'[d] = [done[d] EXCEPT ![side[d]] = new]
      /\ UNCHANGED <<cycle, cited, side, verdict, invocations>>
  BY <1>1, OpenApart
<1>3. Recorded(d)' = Recorded(d)
  BY <1>2 DEF Recorded, InCycle, Executing
<1> HIDE DEF new
<1>4. CASE s = side[d]
  <2>1. /\ done'[d][s] = new /\ s \in Recorded(d)
        /\ cited[d][s] \in DOMAIN invocations /\ cited[d][s] # 0
        /\ d \in Live /\ invocations[cited[d][s]].verdict # 0
    BY <1>1, <1>2, <1>4 DEF CitesItsOwn, Recorded, AnswersAreSaved, Executing
  <2>2. invocations[cited[d][s]].status = "succeeded" /\ Reached(d, s)' = "pending"
    BY <1>1, <1>2, <1>4, <2>1 DEF HasItsVerdict, Reached
  <2>3. QED
    BY <1>1, <1>2, <1>3, <1>4, <2>1, <2>2 DEF CitesItsOwn
<1>5. CASE s # side[d]
  <2>1. done'[d][s] = done[d][s] /\ Reached(d, s)' = Reached(d, s)
    BY <1>1, <1>2, <1>5 DEF Reached
  <2>2. QED
    BY <1>1, <1>2, <1>3, <1>5, <2>1 DEF CitesItsOwn
<1>6. QED
  BY <1>4, <1>5

\* ... and what it has written over.
LEMMA CitesWhatItFinalizes ==
  ASSUME OwnInv, NEW d \in Drivers, Finalizes(d), NEW s \in Sides
  PROVE  CitesItsOwn(d, s)'
<1> DEFINE b == done[d][side[d]]
<1>1. /\ TypeOK /\ side[d] \in Sides /\ CitesItsOwn(d, s) /\ CitesItsOwn(d, side[d])
      /\ b \in DOMAIN executions
      /\ s # side[d] => done[d][s] # b
      /\ \A x \in DOMAIN executions : executions'[x].invocation = executions[x].invocation
      /\ \A x \in DOMAIN executions : x # b => executions'[x] = executions[x]
      /\ DOMAIN executions' = DOMAIN executions /\ invocations' = invocations
  BY OwnParts, OwnRow, FinalizeApart
<1>2. CASE pc'[d] = "off" /\ cited'[d] = Nobody /\ done'[d] = Nobody
  BY <1>2, CitesNothing DEF Nobody
<1>3. CASE /\ pc[d] = "start" /\ pc'[d] = "walk" /\ executions'[b].state = "in_flight"
           /\ UNCHANGED <<cycle, side, verdict, cited, done>>
  <2>1. Recorded(d)' = Recorded(d)
    BY <1>3 DEF Recorded, InCycle, Executing
  <2>2. CASE s = side[d]
    <3>1. Reached(d, s)' = "in_flight"
      BY <1>3, <2>2 DEF Reached
    <3>2. QED
      BY <1>1, <1>3, <2>1, <2>2, <3>1 DEF CitesItsOwn
  <2>3. CASE s # side[d]
    <3>1. Reached(d, s)' = Reached(d, s)
      BY <1>3, <2>3 DEF Reached
    <3>2. QED
      BY <1>1, <1>3, <2>1, <2>3, <3>1 DEF CitesItsOwn
  <2>4. QED
    BY <2>2, <2>3
<1>4. CASE /\ pc[d] = "walk" /\ NextTurn(d) /\ executions'[b].state = "completed"
           /\ UNCHANGED <<cycle, cited, done>>
  <2>1. \/ side[d] = "red" /\ pc'[d] = "ask" /\ side'[d] = "blue"
        \/ side[d] = "blue" /\ pc'[d] = "close" /\ side'[d] = side[d]
    BY <1>1, <1>4, NextTurnApart
  <2>2. Recorded(d)' = Recorded(d)
    BY <1>4, <2>1 DEF Recorded, InCycle, Executing, Sides
  <2>3. Reached(d, s)' = "completed" /\ (s # side[d] => Reached(d, s) = "completed")
    BY <2>1 DEF Reached
  <2>4. QED
    BY <1>1, <1>4, <2>1, <2>2, <2>3 DEF CitesItsOwn
<1>5. QED
  BY <1>1, <1>2, <1>3, <1>4, FinalizeApart

LEMMA DriversStillCiteTheirOwn ==
  ASSUME OwnInv, NEW d \in Drivers, Acts(d)
  PROVE  DriversCiteTheirOwn'
<1>1. /\ TypeOK /\ AnswersAreSaved
      /\ \A s \in Sides : CitesItsOwn(d, s)
  BY OwnParts
<1>2. ASSUME NEW s \in Sides
      PROVE  CitesItsOwn(d, s)'
  <2>1. CASE Launch(d) \/ Begin(d) \/ Leave(d) \/ AlienReply(d) \/ Dies(d)
    <3>1. CASE pc'[d] = "off" /\ cited'[d] = Nobody /\ done'[d] = Nobody
      BY <3>1, CitesNothing DEF Nobody
    <3>2. CASE /\ pc[d] \in {"off", "top"} /\ pc'[d] \in {"top", "ask"}
               /\ UNCHANGED <<side, call, heard, verdict, cited, done>>
      <4>1. side[d] = "red" /\ cited[d][s] = 0 /\ done[d][s] = 0
        BY <1>1, <3>2 DEF TypeOK, TurnTypes, InCycle, CitesItsOwn, Recorded, Executing
      <4>2. QED
        BY <3>2, <4>1, CitesNothing
    <3>3. QED
      BY <1>1, <2>1, <3>1, <3>2, IdleApart
  <2>2. CASE Ask(d) \/ Judge(d)
    <3>1. /\ pc[d] \in {"ask", "judge"} /\ pc'[d] \in {"ask", "judge", "note"}
          /\ UNCHANGED <<invocations, executions, cycle, side, cited, done>>
      BY <1>1, <2>2, AskApart, NothingGrows, JudgeApart
    <3>2. Recorded(d)' = Recorded(d) /\ Reached(d, s)' = Reached(d, s)
      BY <3>1 DEF Recorded, InCycle, Executing, Reached
    <3>3. QED
      BY <1>1, <3>1, <3>2 DEF CitesItsOwn
  <2>3. CASE Note(d)
    BY <2>3, CitesWhatItRecords
  <2>4. CASE Fetch(d)
    <3>1. /\ pc[d] = "fetch" /\ pc'[d] = "create"
          /\ UNCHANGED <<invocations, executions, cycle, side, verdict, cited, done>>
      BY <1>1, <2>4, FetchApart DEF store
    <3>2. Recorded(d)' = Recorded(d) /\ Reached(d, s)' = Reached(d, s)
      BY <3>1 DEF Recorded, InCycle, Executing, Reached
    <3>3. QED
      BY <1>1, <3>1, <3>2 DEF CitesItsOwn
  <2>5. CASE Open(d) \/ Finalizes(d)
    BY <2>5, CitesWhatItOpens, CitesWhatItFinalizes
  <2>6. CASE Close(d)
    <3>1. pc'[d] = "top" /\ cited'[d] = Nobody /\ done'[d] = Nobody
      BY <1>1, <2>6, CloseApart
    <3>2. cited'[d][s] = 0 /\ done'[d][s] = 0
      BY <3>1 DEF Nobody
    <3>3. QED
      BY <3>1, <3>2, CitesNothing
  <2>7. QED
    BY <2>1, <2>2, <2>3, <2>4, <2>5, <2>6 DEF Acts, Works, Finalizes
<1>3. QED
  BY <1>2, OthersCiteTheirOwn DEF DriversCiteTheirOwn
\* An invocation is cited by the driver that recorded it.
LEMMA CitationsStayApart ==
  ASSUME OwnInv, NEW d \in Drivers, Acts(d)
  PROVE  CitationsAreApart'
<1>1. /\ TypeOK /\ AnswersAreSaved /\ Apart(d)
      /\ \A e \in Drivers : \A s \in Sides : CitesItsOwn(e, s) /\ CitedApart(e, s)
      /\ \A e \in Drivers : \A s \in Sides : cited[e][s] # 0 => cited[e][s] \in DOMAIN invocations
      /\ \A x \in DOMAIN executions : executions[x].invocation \in DOMAIN invocations
      /\ 0 \notin DOMAIN invocations /\ 0 \notin DOMAIN executions
  BY OwnParts, StepApart DEF CitesItsOwn, CarriesOutAnAnswer
<1>2. \A e \in Drivers : e # d => cited'[e] = cited[e] /\ done'[e] = done[e]
  BY <1>1 DEF Apart
<1>3. CASE Note(d)
  <2> DEFINE new == Len(invocations) + 1
  <2>1. /\ new \notin DOMAIN invocations /\ executions' = executions /\ done' = done
        /\ cited'[d] = [cited[d] EXCEPT ![side[d]] = new]
        /\ cited[d] \in [Sides -> Nat] /\ side[d] \in Sides
    BY <1>1, <1>3, NoteApart DEF TypeOK, MemoryTypes
  <2> HIDE DEF new
  <2>2. /\ cited'[d][side[d]] = new
        /\ \A s \in Sides : s # side[d] => cited'[d][s] = cited[d][s]
    BY <2>1
  <2>3. ASSUME NEW e \in Drivers, NEW s \in Sides, cited'[e][s] # 0
        PROVE  /\ \A f \in Drivers : \A t \in Sides : cited'[f][t] = cited'[e][s] => f = e /\ t = s
               /\ \A x \in DOMAIN executions : executions[x].invocation = cited'[e][s] => done'[e][s] = x
    <3>1. CASE e = d /\ s = side[d]
      <4>1. cited'[e][s] = new
        BY <2>2, <3>1
      <4>2. \A f \in Drivers : \A t \in Sides : ~(f = d /\ t = side[d]) => cited'[f][t] = cited[f][t]
        BY <1>2, <2>2
      <4>3. \A f \in Drivers : \A t \in Sides : cited[f][t] # new
        BY <1>1, <2>1, <2>2, <2>3, <4>1
      <4>4. QED
        BY <1>1, <2>1, <3>1, <4>1, <4>2, <4>3
    <3>2. CASE ~(e = d /\ s = side[d])
      <4>1. cited'[e][s] = cited[e][s] /\ cited[e][s] \in DOMAIN invocations /\ CitedApart(e, s)
        BY <1>1, <1>2, <2>2, <2>3, <3>2
      <4>2. ASSUME NEW f \in Drivers, NEW t \in Sides, cited'[f][t] = cited'[e][s]
            PROVE  f = e /\ t = s
        <5>1. CASE f = d /\ t = side[d]
          BY <2>1, <2>2, <4>1, <4>2, <5>1
        <5>2. CASE ~(f = d /\ t = side[d])
          <6>1. cited'[f][t] = cited[f][t]
            BY <1>2, <2>2, <5>2
          <6>2. QED
            BY <2>3, <4>1, <4>2, <6>1 DEF CitedApart
        <5>3. QED
          BY <5>1, <5>2
      <4>3. \A x \in DOMAIN executions : executions[x].invocation = cited'[e][s] => done'[e][s] = x
        BY <2>1, <2>3, <4>1 DEF CitedApart
      <4>4. QED
        BY <4>2, <4>3
    <3>3. QED
      BY <3>1, <3>2
  <2>4. QED
    BY <2>1, <2>3 DEF CitationsAreApart, CitedApart
<1>4. CASE Open(d)
  <2> DEFINE new == Len(executions) + 1
  <2>1. /\ pc[d] = "create" /\ cited' = cited
        /\ DOMAIN executions' = DOMAIN executions \cup {new}
        /\ executions'[new].invocation = cited[d][side[d]]
        /\ \A x \in DOMAIN executions : executions'[x] = executions[x]
        /\ done'[d] = [done[d] EXCEPT ![side[d]] = new]
        /\ done[d] \in [Sides -> Nat] /\ side[d] \in Sides
    BY <1>1, <1>4, OpenApart DEF TypeOK, MemoryTypes
  <2> HIDE DEF new
  <2>2. /\ done'[d][side[d]] = new
        /\ \A s \in Sides : s # side[d] => done'[d][s] = done[d][s]
    BY <2>1
  <2>3. /\ cited[d][side[d]] # 0 /\ done[d][side[d]] = 0
    BY <1>1, <2>1 DEF CitesItsOwn, Recorded, InCycle, Executing
  <2>4. ASSUME NEW e \in Drivers, NEW s \in Sides, cited[e][s] # 0,
               NEW x \in DOMAIN executions', executions'[x].invocation = cited[e][s]
        PROVE  done'[e][s] = x
    <3>1. CASE x = new
      <4>1. e = d /\ s = side[d]
        BY <1>1, <2>1, <2>3, <2>4, <3>1 DEF CitedApart
      <4>2. QED
        BY <2>2, <3>1, <4>1
    <3>2. CASE x \in DOMAIN executions
      <4>1. done[e][s] = x /\ x # 0
        BY <1>1, <2>1, <2>4, <3>2 DEF CitedApart
      <4>2. ~(e = d /\ s = side[d])
        BY <2>3, <4>1
      <4>3. QED
        BY <1>2, <2>2, <4>1, <4>2
    <3>3. QED
      BY <2>1, <2>4, <3>1, <3>2
  <2>5. QED
    BY <1>1, <2>1, <2>4 DEF CitationsAreApart, CitedApart
<1>5. CASE ~Note(d) /\ ~Open(d)
  <2>1. /\ invocations' = invocations /\ DOMAIN executions' = DOMAIN executions
        /\ \A x \in DOMAIN executions : executions'[x].invocation = executions[x].invocation
    BY <1>1, <1>5, WhoWrites
  <2>2. \/ cited'[d] = cited[d] /\ done'[d] = done[d]
        \/ cited'[d] = Nobody
    BY <1>1, <1>5, IdleApart, AskApart, JudgeApart, FetchApart, FinalizeApart, CloseApart
       DEF Acts, Works, Finalizes
  <2>3. \A e \in Drivers : \A s \in Sides :
          cited'[e][s] # 0 => cited'[e][s] = cited[e][s] /\ done'[e][s] = done[e][s]
    BY <1>2, <2>2 DEF Nobody
  <2>4. QED
    BY <1>1, <2>1, <2>3 DEF CitationsAreApart, CitedApart
<1>6. QED
  BY <1>3, <1>4, <1>5

\* What has been executed stays so, and what is executed now is the answer.
LEMMA ExecutionsCarryOutAnswers ==
  ASSUME OwnInv, NEW d \in Drivers, Acts(d)
  PROVE  \A x \in DOMAIN executions' : CarriesOutAnAnswer(x)'
<1>1. /\ TypeOK /\ AnswersAreSaved /\ TablesGrow
      /\ \A x \in DOMAIN executions : CarriesOutAnAnswer(x)
      /\ \A n \in DOMAIN invocations : HasItsVerdict(n)
  BY OwnParts, StepApart
<1>2. CASE Open(d)
  <2> DEFINE new == Len(executions) + 1
             n == cited[d][side[d]]
  <2>1. /\ pc[d] = "create"
        /\ DOMAIN executions' = DOMAIN executions \cup {new} /\ new \notin DOMAIN executions
        /\ executions'[new].invocation = n
        /\ executions'[new].verdict = picked[d]
        /\ \A x \in DOMAIN executions : executions'[x] = executions[x]
        /\ UNCHANGED <<verdicts, invocations>>
    BY <1>1, <1>2, OpenApart
  <2>2. CitesItsOwn(d, side[d]) /\ CitedApart(d, side[d]) /\ side[d] \in Sides
    BY OwnParts
  <2>3. /\ n \in DOMAIN invocations /\ invocations[n].side = side[d] /\ n # 0
        /\ invocations[n].verdict = verdict[d] /\ done[d][side[d]] = 0
    BY <2>1, <2>2 DEF CitesItsOwn, Recorded, InCycle, Executing
  <2>4. /\ verdict[d] # 0 /\ verdict[d] <= picked[d]
        /\ verdict[d] \in Nat /\ picked[d] \in Nat /\ picked[d] \in About(side[d])
    BY <1>1, <2>1 DEF AnswersAreSaved, Executing, TypeOK, MemoryTypes
  <2>5. invocations[n].verdict \in 1..picked[d]
    BY <2>3, <2>4
  <2>6. \A x \in DOMAIN executions : executions[x].invocation # n
    BY <2>2, <2>3, OwnParts DEF CitedApart
  <2> HIDE DEF new, n
  <2>7. ASSUME NEW x \in DOMAIN executions'
        PROVE  /\ executions'[x].invocation \in DOMAIN invocations
               /\ invocations[executions'[x].invocation].verdict \in 1..executions'[x].verdict
               /\ executions'[x].verdict \in About(invocations[executions'[x].invocation].side)
               /\ \A f \in DOMAIN executions' :
                    executions'[f].invocation = executions'[x].invocation => f = x
    <3>1. CASE x = new
      BY <2>1, <2>3, <2>4, <2>5, <2>6, <3>1
    <3>2. CASE x \in DOMAIN executions
      BY <1>1, <2>1, <2>6, <3>2 DEF CarriesOutAnAnswer
    <3>3. QED
      BY <2>1, <2>7, <3>1, <3>2
  <2>8. QED
    BY <2>1, <2>7 DEF CarriesOutAnAnswer, About
<1>3. CASE ~Open(d)
  <2>1. /\ Grown(invocations, invocations') /\ Grown(verdicts, verdicts')
        /\ DOMAIN executions' = DOMAIN executions
        /\ \A x \in DOMAIN executions : /\ executions'[x].invocation = executions[x].invocation
                                         /\ executions'[x].verdict = executions[x].verdict
    BY <1>1, <1>3, WhoWrites DEF TablesGrow
  <2>2. QED
    BY <1>1, <2>1 DEF CarriesOutAnAnswer, About, Grown
<1>4. QED
  BY <1>2, <1>3

\* A completed execution stays as it is.
Settles ==
  \A n \in DOMAIN executions :
    executions[n].state = "completed" => n \in DOMAIN executions' /\ executions'[n] = executions[n]

\* A row keeps what it cites, whatever else is written.
LEMMA RowsKeepTheirCitations ==
  ASSUME TypeOK, NEW c \in Cycles, NEW row, RowCitesItsOwn(c, row),
         Grown(invocations, invocations'), Settles
  PROVE  /\ \A s \in Sides :
              /\ row.cited[s] \in DOMAIN invocations'
              /\ invocations'[row.cited[s]].side = s
              /\ invocations'[row.cited[s]].cycle = c
              /\ row.done[s] # 0 <=> row.live /\ invocations'[row.cited[s]].status = "succeeded"
              /\ row.done[s] # 0 => /\ row.done[s] \in DOMAIN executions'
                                    /\ executions'[row.done[s]].invocation = row.cited[s]
                                    /\ executions'[row.done[s]].state = "completed"
         /\ \A s \in Sides : Fared(row, s)' <=> Fared(row, s)
<1>1. \A s \in Sides :
        /\ row.cited[s] \in DOMAIN invocations
        /\ row.done[s] # 0 => /\ row.done[s] \in DOMAIN executions
                              /\ executions[row.done[s]].state = "completed"
  BY DEF RowCitesItsOwn
<1>2. /\ \A s \in Sides : row.cited[s] \in DOMAIN invocations'
                          /\ invocations'[row.cited[s]] = invocations[row.cited[s]]
      /\ \A s \in Sides : row.done[s] # 0 => /\ row.done[s] \in DOMAIN executions'
                                             /\ executions'[row.done[s]] = executions[row.done[s]]
  BY <1>1 DEF Grown, Settles
<1>3. \A s \in Sides : Fared(row, s)' <=> Fared(row, s)
  BY <1>2 DEF Fared
<1>4. QED
  BY <1>2, <1>3 DEF RowCitesItsOwn
\* The row of a cycle that closes cites what its driver does.
LEMMA ClosingCitesItsOwn ==
  ASSUME OwnInv, NEW d \in Drivers, pc[d] = "close", cycle[d] \in Cycles
  PROVE  RowCitesItsOwn(cycle[d],
           [cited |-> cited[d], done |-> done[d], live |-> d \in Live,
            class |-> Classify({s \in Sides : Went(d, s)})])
<1> DEFINE row == [cited |-> cited[d], done |-> done[d], live |-> d \in Live,
                   class |-> Classify({s \in Sides : Went(d, s)})]
<1>1. /\ row.cited = cited[d] /\ row.done = done[d] /\ row.live = (d \in Live)
      /\ row.class = Classify({s \in Sides : Went(d, s)})
  OBVIOUS
<1> HIDE DEF row
<1>2. \A s \in Sides : CitesItsOwn(d, s) /\ cited[d][s] # 0
  BY OwnParts DEF CitesItsOwn, Recorded
<1>3. \A s \in Sides : Fared(row, s) <=> Went(d, s)
  BY <1>1 DEF Fared, Went
<1>4. {s \in Sides : Fared(row, s)} = {s \in Sides : Went(d, s)}
  BY <1>3
<1>5. \A s \in Sides :
        /\ row.cited[s] \in DOMAIN invocations
        /\ invocations[row.cited[s]].side = s
        /\ invocations[row.cited[s]].cycle = cycle[d]
        /\ row.done[s] # 0 <=> row.live /\ invocations[row.cited[s]].status = "succeeded"
        /\ row.done[s] # 0 => /\ row.done[s] \in DOMAIN executions
                              /\ executions[row.done[s]].invocation = row.cited[s]
                              /\ executions[row.done[s]].state = "completed"
  <2>1. TAKE s \in Sides
  <2>2. CitesItsOwn(d, s) /\ cited[d][s] # 0 /\ Reached(d, s) = "completed"
    BY <1>2 DEF Reached
  <2>3. /\ cited[d][s] \in DOMAIN invocations
        /\ invocations[cited[d][s]].side = s /\ invocations[cited[d][s]].cycle = cycle[d]
        /\ done[d][s] # 0 => /\ done[d][s] \in DOMAIN executions
                             /\ executions[done[d][s]].invocation = cited[d][s]
                             /\ executions[done[d][s]].state = "completed"
    BY <2>2 DEF CitesItsOwn
  <2>4. done[d][s] # 0 <=> d \in Live /\ invocations[cited[d][s]].status = "succeeded"
    BY <2>2 DEF CitesItsOwn
  <2>5. row.live <=> d \in Live
    BY <1>1
  <2>6. QED
    BY <1>1, <2>3, <2>4, <2>5
<1>6. RowCitesItsOwn(cycle[d], row)
  BY <1>1, <1>4, <1>5 DEF RowCitesItsOwn
<1>7. QED
  BY <1>6 DEF row

LEMMA CyclesStillCiteTheirOwn ==
  ASSUME OwnInv, NEW d \in Drivers, Acts(d)
  PROVE  CyclesCiteTheirOwn'
<1>1. /\ TypeOK /\ AnswersAreSaved /\ CyclesCiteTheirOwn
      /\ Grown(invocations, invocations') /\ Settles
  BY OwnParts, StepApart, CompletedStay DEF OwnInv, TablesGrow, Settles
<1>2. ASSUME NEW c \in Cycles, cycles'[c] # None
      PROVE  RowCitesItsOwn(c, cycles[c])' 
  <2>1. ASSUME NEW row, cycles'[c] = row, RowCitesItsOwn(c, row)
        PROVE  RowCitesItsOwn(c, cycles[c])'
    <3>1. \A s \in Sides : Fared(row, s)' <=> Fared(row, s)
      BY <1>1, <2>1, RowsKeepTheirCitations
    <3>2. row.class = Classify({s \in Sides : Fared(cycles[c], s)'})
      <4>1. \A s \in Sides : Fared(cycles[c], s)' <=> Fared(row, s)'
        BY <2>1 DEF Fared
      <4>2. {s \in Sides : Fared(cycles[c], s)'} = {s \in Sides : Fared(row, s)}
        BY <3>1, <4>1
      <4>3. QED
        BY <2>1, <4>2 DEF RowCitesItsOwn
    <3>3. \A s \in Sides :
            /\ row.cited[s] \in DOMAIN invocations'
            /\ invocations'[row.cited[s]].side = s
            /\ invocations'[row.cited[s]].cycle = c
            /\ row.done[s] # 0 <=> row.live /\ invocations'[row.cited[s]].status = "succeeded"
            /\ row.done[s] # 0 => /\ row.done[s] \in DOMAIN executions'
                                  /\ executions'[row.done[s]].invocation = row.cited[s]
                                  /\ executions'[row.done[s]].state = "completed"
      BY <1>1, <2>1, RowsKeepTheirCitations
    <3>4. QED
      BY <2>1, <3>2, <3>3 DEF RowCitesItsOwn, Classify
  <2>2. CASE cycles' = cycles
    BY <1>1, <1>2, <2>1, <2>2 DEF CyclesCiteTheirOwn
  <2>3. CASE Close(d)
    <3> DEFINE row == [cited |-> cited[d], done |-> done[d], live |-> d \in Live,
                       class |-> Classify({s \in Sides : Went(d, s)})]
    <3>1. /\ cycles' = [cycles EXCEPT ![cycle[d]] = row] /\ pc[d] = "close" /\ cycle[d] \in Cycles
      BY <1>1, <2>3, CloseApart
    <3>2. RowCitesItsOwn(cycle[d], row)
      BY <3>1, ClosingCitesItsOwn
    <3> HIDE DEF row
    <3>3. CASE c = cycle[d]
      <4>1. cycles'[c] = row
        BY <1>1, <3>1, <3>3 DEF TypeOK, StoreTypes
      <4>2. QED
        BY <2>1, <3>2, <3>3, <4>1
    <3>4. CASE c # cycle[d]
      <4>1. cycles'[c] = cycles[c]
        BY <1>1, <3>1, <3>4 DEF TypeOK, StoreTypes
      <4>2. QED
        BY <1>1, <1>2, <2>1, <4>1 DEF CyclesCiteTheirOwn
    <3>5. QED
      BY <3>3, <3>4
  <2>4. QED
    BY <1>1, <2>2, <2>3, WhoWrites
<1>3. QED
  BY <1>2 DEF CyclesCiteTheirOwn

LEMMA InitOwns == Init => OwnInv
<1> SUFFICES ASSUME Init PROVE OwnInv
  OBVIOUS
<1>1. TypeInv
  BY InitTypes
<1>2. TurnsAreTold /\ VerdictsAreOwn
  BY DEF Init, TurnsAreTold, VerdictsAreOwn, VerdictIsOwn
<1>3. \A d \in Drivers : \A s \in Sides : cited[d][s] = 0 /\ done[d][s] = 0 /\ pc[d] = "off"
  BY DEF Init, Nobody
<1>4. DriversCiteTheirOwn /\ CitationsAreApart
  BY <1>3 DEF DriversCiteTheirOwn, CitesItsOwn, Recorded, CitationsAreApart, CitedApart, InCycle,
              Executing
<1>5. ExecutesAnAnswer /\ CyclesCiteTheirOwn
  BY DEF Init, ExecutesAnAnswer, CyclesCiteTheirOwn
<1>6. QED
  BY <1>1, <1>2, <1>4, <1>5 DEF OwnInv

LEMMA WaitingOwns ==
  ASSUME OwnInv, Waits
  PROVE  VerdictsAreOwn' /\ DriversCiteTheirOwn' /\ CitationsAreApart' /\ ExecutesAnAnswer'
         /\ CyclesCiteTheirOwn'
<1>1. /\ DOMAIN verdicts \subseteq DOMAIN verdicts'
      /\ \A n \in DOMAIN verdicts : verdicts'[n] = verdicts[n]
      /\ UNCHANGED <<invocations, executions, cycles, pc, route, cycle, side, call, heard,
                     verdict, picked, cited, done>>
  BY DEF Waits
<1>2. VerdictsAreOwn'
  BY <1>1 DEF OwnInv, VerdictsAreOwn, VerdictIsOwn, Result
<1>3. DriversCiteTheirOwn' /\ CitationsAreApart'
  BY <1>1 DEF OwnInv, DriversCiteTheirOwn, CitesItsOwn, Recorded, Reached, CitationsAreApart,
              CitedApart
<1>4. ExecutesAnAnswer'
  BY <1>1 DEF OwnInv, ExecutesAnAnswer, HasItsVerdict, CarriesOutAnAnswer, About
<1>5. CyclesCiteTheirOwn'
  BY <1>1 DEF OwnInv, CyclesCiteTheirOwn, RowCitesItsOwn, Fared
<1>6. QED
  BY <1>2, <1>3, <1>4, <1>5

LEMMA OwnHolds == Spec => []OwnInv
<1>1. Init => OwnInv
  BY InitOwns
<1>2. ToldInv' /\ OwnInv /\ [Next]_vars => OwnInv'
  <2> SUFFICES ASSUME ToldInv', OwnInv, [Next]_vars PROVE OwnInv'
    OBVIOUS
  <2>1. TypeInv' /\ TurnsAreTold'
    BY DEF ToldInv
  <2>2. ASSUME NEW d \in Drivers, Acts(d)
        PROVE  OwnInv'
    <3>1. VerdictsAreOwn' /\ DriversCiteTheirOwn' /\ CitationsAreApart' /\ CyclesCiteTheirOwn'
      BY <2>2, VerdictsStayOwn, DriversStillCiteTheirOwn, CitationsStayApart, CyclesStillCiteTheirOwn
    <3>2. ExecutesAnAnswer'
      <4>1. \A n \in DOMAIN invocations' : HasItsVerdict(n)'
        BY <2>2, VerdictsStayHeld
      <4>2. \A x \in DOMAIN executions' : CarriesOutAnAnswer(x)'
        BY <2>2, ExecutionsCarryOutAnswers
      <4>3. QED
        BY <4>1, <4>2 DEF ExecutesAnAnswer
    <3>3. QED
      BY <2>1, <3>1, <3>2 DEF OwnInv
  <2>3. CASE Waits
    BY <2>1, <2>3, WaitingOwns DEF OwnInv
  <2>4. QED
    BY <2>2, <2>3, StepsOrWaits DEF OwnInv, TypeInv
<1>3. QED
  BY <1>1, <1>2, ToldHolds, PTL DEF Spec

\* What is executed answers the invocation it is recorded with, or was saved after the
\* answer, and no invocation is executed twice: for any drivers, live or dry, that die at
\* any step, and any cycle numbers they work on.
THEOREM ExecutesAnAnswerAlways == Spec => []ExecutesAnAnswer
BY OwnHolds, PTL DEF OwnInv

\* The row of a cycle cites invocations made for this cycle, and their executions,
\* although another driver may write the row of the same number.
THEOREM CyclesCiteTheirOwnAlways == Spec => []CyclesCiteTheirOwn
BY OwnHolds, PTL DEF OwnInv
-------------------------------------------------------------------------------
(* The ledger. *)

\* Appending a row adds one.
LEMMA AppendAdds ==
  ASSUME NEW S, NEW s \in Seq(S), NEW x \in S
  PROVE  /\ Len(Append(s, x)) = Len(s) + 1
         /\ \A n \in DOMAIN s : Append(s, x)[n] = s[n]
         /\ Append(s, x)[Len(Append(s, x))] = x
OBVIOUS

LEMMA JudgeIsSaved ==
  ASSUME OwnInv, NEW d \in Drivers, Judge(d)
  PROVE  Ledger!SaveVerdict
<1>1. /\ verdicts \in Seq(Sides) /\ side[d] \in Sides /\ verdicts' = Append(verdicts, side[d])
      /\ UNCHANGED <<invocations, executions, cycles>>
  BY OwnParts DEF Judge
<1>2. /\ Len(verdicts') = Len(verdicts) + 1
      /\ \A n \in DOMAIN verdicts : verdicts'[n] = verdicts[n]
      /\ verdicts'[Len(verdicts')] = side[d]
  BY <1>1, AppendAdds
<1>3. QED
  BY <1>1, <1>2 DEF Ledger!SaveVerdict, Ledger!Adds, Ledger!Newest

LEMMA NoteIsSaved ==
  ASSUME OwnInv, NEW d \in Drivers, Note(d)
  PROVE  Ledger!SaveInvocation
<1> DEFINE i == Invocation(d)
<1>1. /\ TypeOK /\ invocations \in Seq(Invocations) /\ pc[d] = "note"
      /\ invocations' = Append(invocations, i)
      /\ UNCHANGED <<verdicts, executions, cycles>>
  BY OwnParts, NoteApart DEF TypeOK, StoreTypes
<1>2. i \in Invocations
  <2>1. pc[d] \in InCycle /\ call[d].trace # <<>>
    BY <1>1 DEF InCycle, TypeOK, TurnTypes
  <2>2. QED
    BY <1>1, <2>1, RowTypes
<1>3. i.status = Result(d).status /\ i.verdict = verdict[d] /\ i.side = side[d]
  BY DEF Invocation
<1>4. /\ i.status = "succeeded" <=> i.verdict # 0
      /\ i.verdict # 0 => /\ i.verdict \in About(i.side)
                          /\ \A n \in DOMAIN invocations : invocations[n].verdict # i.verdict
  BY <1>1, <1>3, OwnParts DEF VerdictIsOwn, AnswersAreSaved
<1> HIDE DEF i
<1>5. /\ Len(invocations') = Len(invocations) + 1
      /\ \A n \in DOMAIN invocations : invocations'[n] = invocations[n]
      /\ invocations'[Len(invocations')] = i
  BY <1>1, <1>2, AppendAdds
<1>6. QED
  BY <1>1, <1>4, <1>5
     DEF Ledger!SaveInvocation, Ledger!Adds, Ledger!Newest, Ledger!About, About

LEMMA OpenIsSaved ==
  ASSUME OwnInv, NEW d \in Drivers, Open(d)
  PROVE  Ledger!OpenExecution
<1> DEFINE x == [invocation |-> cited[d][side[d]], verdict |-> picked[d],
                 state |-> "pending", ok |-> TRUE]
<1>1. /\ TypeOK /\ executions \in Seq(Executions) /\ pc[d] = "create" /\ side[d] \in Sides
      /\ cited[d][side[d]] \in Nat /\ picked[d] \in Nat
      /\ executions' = Append(executions, x)
      /\ UNCHANGED <<verdicts, invocations, cycles>>
  BY OwnParts DEF TypeOK, StoreTypes, MemoryTypes, Open, Step
<1>2. /\ verdict[d] # 0 /\ verdict[d] <= picked[d] /\ picked[d] \in About(side[d])
  BY <1>1, OwnParts DEF AnswersAreSaved, Executing
<1>3. /\ x \in Executions /\ x.invocation = cited[d][side[d]] /\ x.verdict = picked[d]
      /\ x.state = "pending"
  BY <1>1 DEF Executions
<1> HIDE DEF x
<1>4. /\ Len(executions') = Len(executions) + 1
      /\ \A n \in DOMAIN executions : executions'[n] = executions[n]
      /\ executions'[Len(executions')] = x
  BY <1>1, <1>3, AppendAdds
<1>5. /\ x.invocation \in DOMAIN invocations /\ x.invocation # 0
      /\ invocations[x.invocation].side = side[d] /\ invocations[x.invocation].verdict = verdict[d]
      /\ done[d][side[d]] = 0
  BY <1>1, <1>3, OwnParts DEF CitesItsOwn, Recorded, InCycle, Executing
<1>6. \A n \in DOMAIN executions : executions[n].invocation # x.invocation
  BY <1>1, <1>3, <1>5, OwnParts DEF CitedApart
<1>7. QED
  BY <1>1, <1>2, <1>3, <1>4, <1>5, <1>6
     DEF Ledger!OpenExecution, Ledger!Adds, Ledger!Newest, Ledger!About, About

LEMMA FinalizeIsSaved ==
  ASSUME OwnInv, NEW d \in Drivers, Finalizes(d)
  PROVE  Ledger!MoveExecution
<1> DEFINE b == done[d][side[d]]
<1>1. /\ b \in DOMAIN executions /\ executions[b].state = Reached(d, side[d])
      /\ executions' = [executions EXCEPT ![b] = executions'[b]]
      /\ executions'[b].invocation = executions[b].invocation
      /\ executions'[b].verdict = executions[b].verdict
      /\ UNCHANGED <<verdicts, invocations, cycles>>
      /\ \/ pc[d] = "start" /\ executions'[b].state = "in_flight"
         \/ pc[d] = "walk" /\ executions'[b].state \in {"completed", "aborted"}
  BY OwnParts, OwnRow, FinalizeApart
<1>2. Ledger!Follows(executions[b].state, executions'[b].state)
  BY <1>1 DEF Reached, Ledger!Follows
<1>3. QED
  BY <1>1, <1>2 DEF Ledger!MoveExecution

LEMMA CloseIsSaved ==
  ASSUME OwnInv, NEW d \in Drivers, Close(d)
  PROVE  Ledger!SaveCycle
<1> DEFINE row == [cited |-> cited[d], done |-> done[d], live |-> d \in Live,
                   class |-> Classify({s \in Sides : Went(d, s)})]
           c == cycle[d]
<1>1. /\ TypeOK /\ pc[d] = "close" /\ c \in Cycles
      /\ cycles' = [cycles EXCEPT ![c] = row]
      /\ UNCHANGED <<verdicts, invocations, executions>>
  BY OwnParts, CloseApart
<1>2. RowCitesItsOwn(c, row)
  BY <1>1, ClosingCitesItsOwn
<1>3. row \in CycleRows /\ row # None
  BY <1>1, RowTypes, DecisionAssumption DEF InCycle
<1> HIDE DEF row, c
<1>4. cycles'[c] = row
  BY <1>1 DEF TypeOK, StoreTypes
<1>5. Ledger!Cites(c, row)
  BY <1>2 DEF RowCitesItsOwn, Ledger!Cites
<1>6. QED
  BY <1>1, <1>3, <1>4, <1>5 DEF Ledger!SaveCycle

\* The drivers implement the ledger: no verdict or invocation is taken back, each is true
\* of the rows before it, an answer is executed once with its verdict or a later one, an
\* execution only moves on, and a cycle cites completed ones, for any number of drivers
\* that die at any step and an operator who has actions judged in between.
THEOREM DriversImplementTheLedger == Spec => ImplementsLedger
<1>1. Init => Ledger!LedgerInit
  BY DEF Init, Ledger!LedgerInit
<1>2. OwnInv /\ OwnInv' /\ [Next]_vars
        => [Ledger!LedgerNext]_<<verdicts, invocations, executions, cycles>>
  <2> SUFFICES ASSUME OwnInv, OwnInv', [Next]_vars
               PROVE  Ledger!LedgerNext \/ UNCHANGED <<verdicts, invocations, executions, cycles>>
    OBVIOUS
  <2>1. ASSUME NEW d \in Drivers, Acts(d)
        PROVE  Ledger!LedgerNext \/ UNCHANGED <<verdicts, invocations, executions, cycles>>
    <3>1. TypeOK /\ AnswersAreSaved
      BY OwnParts
    <3>2. CASE Judge(d) \/ Note(d) \/ Open(d) \/ Finalizes(d) \/ Close(d)
      BY <3>2, JudgeIsSaved, NoteIsSaved, OpenIsSaved, FinalizeIsSaved, CloseIsSaved
         DEF Ledger!LedgerNext
    <3>3. CASE ~(Judge(d) \/ Note(d) \/ Open(d) \/ Finalizes(d) \/ Close(d))
      BY <2>1, <3>1, <3>3, WhoWrites
    <3>4. QED
      BY <3>2, <3>3
  <2>2. ASSUME NEW s \in Sides, ValidateActions(s)
        PROVE  Ledger!LedgerNext
    <3>1. /\ verdicts \in Seq(Sides) /\ verdicts' = Append(verdicts, s)
          /\ UNCHANGED <<invocations, executions, cycles>>
      BY <2>2, OwnParts DEF ValidateActions
    <3>2. /\ Len(verdicts') = Len(verdicts) + 1
          /\ \A n \in DOMAIN verdicts : verdicts'[n] = verdicts[n]
          /\ verdicts'[Len(verdicts')] = s
      BY <3>1, AppendAdds
    <3>3. QED
      BY <3>1, <3>2 DEF Ledger!LedgerNext, Ledger!SaveVerdict, Ledger!Adds, Ledger!Newest
  <2>3. CASE UNCHANGED vars
    BY <2>3 DEF vars, store
  <2>4. QED
    BY <2>1, <2>2, <2>3 DEF Next, Acts
<1>3. QED
  BY <1>1, <1>2, OwnHolds, PTL DEF Spec, ImplementsLedger, Ledger!LedgerSpec

\* The invariant as a whole.
LEMMA DecisionInvHolds == Spec => []DecisionInv
<1>1. ToldInv /\ OwnInv => DecisionInv
  BY DEF ToldInv, OwnInv, TypeInv, DecisionInv
<1>2. QED
  BY <1>1, ToldHolds, OwnHolds, PTL
===============================================================================
