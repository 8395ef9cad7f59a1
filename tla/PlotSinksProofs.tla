-------------------------- MODULE PlotSinksProofs --------------------------
(***************************************************************************)
(* Proofs about PlotSinks, for any sinks and charts and any settings of    *)
(* them: the registry holds no destroyed block, the buffers of a settled   *)
(* block have the capacity that it reports, the state keeps its types, and *)
(* what a chart has counted under a guard is there when it reads it.       *)
(*                                                                         *)
(* The last two rest on what the scripts of the UI thread may look like    *)
(* (Scripts), however many sinks a chart holds.                            *)
(***************************************************************************)
EXTENDS PlotSinks, SelectionLemmas

\* The state of the blocks is a function of the sinks.
BlockShape ==
  /\ DOMAIN phase = Sinks /\ phase = [s \in Sinks |-> phase[s]]
  /\ DOMAIN required = Sinks /\ required = [s \in Sinks |-> required[s]]
  /\ DOMAIN capacity = Sinks /\ capacity = [s \in Sinks |-> capacity[s]]

\* A registered block has not got further in its destruction than to invalidate
\* its adapter, and a block is registered from its creation on.
RegisteredPhases ==
  \A s \in registry : s \in Sinks /\ phase[s] \in {"running", "applying", "invalidated"}

IInv == BlockShape /\ RegisteredPhases /\ SettledBuffersFit

-----------------------------------------------------------------------------
LEMMA InitIInv == Init => IInv
  BY DEF Init, IInv, BlockShape, RegisteredPhases, SettledBuffersFit

\* What the UI thread does with its charts leaves the blocks alone.
LEMMA SinksUntouched == IInv /\ UNCHANGED sinkVars => IInv'
  BY DEF IInv, BlockShape, RegisteredPhases, SettledBuffersFit, sinkVars

\* The steps of a block, on its graph's thread.
LEMMA GraphIInv ==
  ASSUME IInv, NEW s \in Sinks, GraphStep(s)
  PROVE  IInv'
<1> USE DEF IInv, BlockShape, RegisteredPhases, SettledBuffersFit
<1>1. ASSUME NEW n \in Sizes, Construct(s, n) PROVE IInv'
  BY <1>1 DEF Construct, Resize
<1>2. ASSUME NEW n \in Sizes, ApplySettings(s, n) PROVE IInv'
  BY <1>2 DEF ApplySettings
<1>3. CASE ProcessBulk(s)
  BY <1>3 DEF ProcessBulk
<1>4. CASE Invalidate(s)
  BY <1>4 DEF Invalidate
<1>5. CASE SettingsChanged(s)
  BY <1>5 DEF SettingsChanged, Resize
<1>6. CASE Unregister(s)
  BY <1>6 DEF Unregister
<1>7. CASE Destroy(s)
  BY <1>7 DEF Destroy
<1> QED
  BY <1>1, <1>2, <1>3, <1>4, <1>5, <1>6, <1>7 DEF GraphStep, BlockStep

\* A request of capacity writes required_size and resizes the buffers of one sink.
LEMMA RequestIInv ==
  ASSUME IInv, RequestCapacity
  PROVE  IInv'
<1> DEFINE s == Next1.sink
           r == [requests[s] EXCEPT ![drawing] = history[drawing]]
<1>1. phase' = phase /\ registry' = registry
  BY DEF RequestCapacity, sinkVars
<1>2. CASE UNCHANGED <<required, capacity>>
  BY <1>1, <1>2 DEF IInv, BlockShape, RegisteredPhases, SettledBuffersFit
<1>3. ASSUME NEW n, required' = [required EXCEPT ![s] = n],
             capacity' = [capacity EXCEPT ![s] = n]
      PROVE  IInv'
  <2>1. BlockShape' /\ RegisteredPhases'
    BY <1>1, <1>3 DEF IInv, BlockShape, RegisteredPhases
  <2>2. ASSUME NEW t \in Sinks, phase'[t] = "running"
        PROVE  capacity'[t] = required'[t]
    <3>1. CASE t = s
      BY <1>3, <3>1 DEF IInv, BlockShape
    <3>2. CASE t # s
      BY <1>1, <1>3, <2>2, <3>2 DEF IInv, BlockShape, SettledBuffersFit
    <3> QED
      BY <3>1, <3>2
  <2> QED
    BY <2>1, <2>2 DEF IInv, SettledBuffersFit
<1>4. \/ UNCHANGED <<required, capacity>>
      \/ /\ required' = [required EXCEPT ![s] = Demanded(r)]
         /\ capacity' = [capacity EXCEPT ![s] = Demanded(r)]
  BY DEF RequestCapacity, Resize, sinkVars
<1> QED
  BY <1>2, <1>3, <1>4

LEMMA UIIInv ==
  ASSUME IInv, UICall
  PROVE  IInv'
<1>1. CASE RequestCapacity
  BY <1>1, RequestIInv
<1>2. CASE Lock \/ Unlock \/ Ignore \/ LoadBlock \/ NoBlock
  BY <1>2, SinksUntouched DEF Lock, Unlock, Ignore, LoadBlock, NoBlock
<1>3. CASE Dangle \/ CountSamples \/ Probe \/ ReadSamples
  BY <1>3, SinksUntouched DEF Dangle, CountSamples, Probe, ReadSamples
<1> QED
  BY <1>1, <1>2, <1>3 DEF UICall

\* The steps of a chart, and a drop, change the chart and the script only.
LEMMA ChartIInv ==
  ASSUME IInv, NEW c \in Charts, ChartStep(c)
  PROVE  IInv'
<1>1. ASSUME NEW refresh \in BOOLEAN, Draw(c, refresh) PROVE UNCHANGED sinkVars
  BY <1>1 DEF Draw
<1>2. ASSUME NEW n \in Names, AddName(c, n) PROVE UNCHANGED sinkVars
  BY <1>2 DEF AddName
<1>3. ASSUME NEW n \in Names, RemoveSink(c, n) PROVE UNCHANGED sinkVars
  BY <1>3 DEF RemoveSink
<1>4. ASSUME NEW d \in Charts, Transmute(c, d) PROVE UNCHANGED sinkVars
  BY <1>4 DEF Transmute
<1>5. ASSUME NEW n \in Sizes, SetHistory(c, n) PROVE UNCHANGED sinkVars
  BY <1>5 DEF SetHistory
<1> QED
  BY <1>1, <1>2, <1>3, <1>4, <1>5, SinksUntouched DEF ChartStep

LEMMA NextIInv == IInv /\ [Next]_vars => IInv'
<1> SUFFICES ASSUME IInv, [Next]_vars PROVE IInv'
  OBVIOUS
<1>1. ASSUME NEW s \in Sinks, GraphStep(s) PROVE IInv'
  BY <1>1, GraphIInv
<1>2. ASSUME NEW s \in Sinks, Drop(s) PROVE IInv'
  BY <1>2, SinksUntouched DEF Drop
<1>3. ASSUME NEW c \in Charts, ChartStep(c) PROVE IInv'
  BY <1>3, ChartIInv
<1>4. CASE UICall
  BY <1>4, UIIInv
<1>5. CASE UNCHANGED vars
  BY <1>5, SinksUntouched DEF vars
<1> QED
  BY <1>1, <1>2, <1>3, <1>4, <1>5 DEF Next

LEMMA Invariance == Spec => []IInv
  BY InitIInv, NextIInv, PTL DEF Spec

-----------------------------------------------------------------------------
\* Whatever charts do, a lookup in the registry finds no block whose destructor
\* has finished: it unregisters its adapter first (ImPlotSink.hpp:141-146).
THEOREM RegistryIsAlive == Spec => []RegisteredIsAlive
<1>1. IInv => RegisteredIsAlive
  BY DEF IInv, RegisteredPhases, RegisteredIsAlive
<1> QED
  BY <1>1, Invariance, PTL

\* Settings and the requests of any number of charts may come in any order: once
\* the settings are applied, the buffers have the capacity that the block reports
\* (ImPlotSink.hpp:158-165, 350-366).
THEOREM BuffersFit == Spec => []SettledBuffersFit
<1>1. IInv => SettledBuffersFit
  BY DEF IInv
<1> QED
  BY <1>1, Invariance, PTL

-----------------------------------------------------------------------------
(* The scripts of the UI thread.                                           *)

Calls ==
  [call : {"lock", "unlock", "size", "read", "probe", "request"}, sink : Sinks]
    \cup {[call |-> "interact"], [call |-> "draw"]}

\* A script that begins with the guards L counts the samples of a sink only under
\* its guard, and gives none back before it has counted.
Guarding(q, L) ==
  \A i \in 1..Len(q) : q[i].call = "size" =>
    /\ \A k \in 1..i : q[k].call # "unlock"
    /\ q[i].sink \in L \/ \E j \in 1..i - 1 : q[j] = Call("lock", q[i].sink)

\* Scripts, of which the first begins with the guards L.
Scripts(t, L) ==
  /\ t \in Seq(Seq(Calls))
  /\ \A n \in 1..Len(t) : t[n] # <<>> /\ Guarding(t[n], IF n = 1 THEN L ELSE {})

LEMMA CallTypes ==
  ASSUME NEW s \in Sinks
  PROVE  /\ \A w \in {"lock", "unlock", "size", "read", "probe", "request"} :
              Call(w, s) \in Calls /\ Call(w, s).call = w /\ Call(w, s).sink = s
         /\ Interact \in Seq(Calls) /\ Len(Interact) = 1 /\ Interact[1].call = "interact"
         /\ Draw1 \in Seq(Calls) /\ Len(Draw1) = 1 /\ Draw1[1].call = "draw"
<1>1. /\ [call |-> "interact"] \in Calls /\ [call |-> "interact"].call = "interact"
      /\ [call |-> "draw"] \in Calls /\ [call |-> "draw"].call = "draw"
  BY DEF Calls
<1>2. ASSUME NEW c \in Calls PROVE <<c>> \in Seq(Calls) /\ Len(<<c>>) = 1 /\ <<c>>[1] = c
  OBVIOUS
<1>3. \A w \in {"lock", "unlock", "size", "read", "probe", "request"} :
        Call(w, s) \in Calls /\ Call(w, s).call = w /\ Call(w, s).sink = s
  BY DEF Calls, Call
<1> HIDE DEF Calls
<1> QED BY <1>1, <1>2, <1>3 DEF Interact, Draw1

\* More guards do no harm.
LEMMA MoreGuards ==
  ASSUME NEW q, NEW L, NEW M, L \subseteq M, Guarding(q, L)
  PROVE  Guarding(q, M)
BY DEF Guarding

\* Calls in front of scripts.
LEMMA Scripted ==
  ASSUME NEW L, NEW q \in Seq(Calls), NEW t, Guarding(q, L), Scripts(t, {})
  PROVE  Scripts(Script(q, t), L)
<1>1. CASE q = <<>>
  <2>1. Script(q, t) = t
    BY <1>1 DEF Script
  <2>2. ASSUME NEW n \in 1..Len(t) PROVE t[n] # <<>> /\ Guarding(t[n], IF n = 1 THEN L ELSE {})
    <3>1. t[n] # <<>> /\ Guarding(t[n], {})
      BY DEF Scripts
    <3> QED BY <3>1, MoreGuards
  <2> QED BY <2>1, <2>2 DEF Scripts
<1>2. CASE q # <<>>
  <2>1. Script(q, t) = <<q>> \o t
    BY <1>2 DEF Script
  <2>2. t \in Seq(Seq(Calls))
    BY DEF Scripts
  <2> DEFINE C == Seq(Calls)  u == <<q>> \o t
  <2>3. <<q>> \in Seq(C) /\ Len(<<q>>) = 1 /\ <<q>>[1] = q
    OBVIOUS
  <2> HIDE DEF C
  <2>4. /\ u \in Seq(C) /\ Len(u) = 1 + Len(t)
        /\ \A n \in 1..1 + Len(t) : u[n] = IF n <= 1 THEN <<q>>[n] ELSE t[n - 1]
    BY <2>2, <2>3, ConcatProperties DEF C
  <2> HIDE DEF u
  <2>5. ASSUME NEW n \in 1..Len(u) PROVE u[n] # <<>> /\ Guarding(u[n], IF n = 1 THEN L ELSE {})
    <3>1. CASE n = 1
      BY <1>2, <2>3, <2>4, <3>1
    <3>2. CASE n # 1
      <4>1. Len(t) \in Nat
        BY <2>2
      <4>2. n - 1 \in 1..Len(t) /\ u[n] = t[n - 1]
        BY <2>4, <3>2, <4>1
      <4>3. t[n - 1] # <<>> /\ Guarding(t[n - 1], {})
        BY <4>2 DEF Scripts
      <4> QED BY <3>2, <4>2, <4>3
    <3> QED BY <3>1, <3>2
  <2> QED BY <2>1, <2>4, <2>5 DEF Scripts, u, C
<1> QED BY <1>1, <1>2

\* A call is done: what it locked is held, and after an unlock nothing is counted.
LEMMA CallDone ==
  ASSUME NEW L, NEW M, NEW t, Scripts(t, L), t # <<>>,
         \/ L \subseteq M
         \/ t[1][1].call = "unlock",
         \A s \in Sinks : t[1][1] = Call("lock", s) => s \in M
  PROVE  /\ Tail(t[1]) \in Seq(Calls) /\ Guarding(Tail(t[1]), M)
         /\ Scripts(Tail(t), {})
<1> DEFINE q == t[1]  r == Tail(q)
<1>1. /\ t \in Seq(Seq(Calls)) /\ q \in Seq(Calls) /\ q # <<>> /\ Guarding(q, L)
      /\ 1 \in 1..Len(t)
  BY DEF Scripts
<1> HIDE DEF q
<1>2. /\ Len(q) \in Nat /\ Len(q) >= 1 /\ r \in Seq(Calls) /\ Len(r) = Len(q) - 1
      /\ \A i \in 1..Len(r) : r[i] = q[i + 1]
  BY <1>1
<1>3. Guarding(r, M)
  <2> SUFFICES ASSUME NEW i \in 1..Len(r), r[i].call = "size"
               PROVE  /\ \A k \in 1..i : r[k].call # "unlock"
                      /\ r[i].sink \in M \/ \E j \in 1..i - 1 : r[j] = Call("lock", r[i].sink)
    BY DEF Guarding
  <2>1. i + 1 \in 1..Len(q) /\ i \in Nat /\ r[i] = q[i + 1]
    BY <1>2
  <2> HIDE DEF r
  <2>2. \A k \in 1..i + 1 : q[k].call # "unlock"
    BY <1>1, <2>1 DEF Guarding
  <2>3. q[i + 1].sink \in L \/ \E j \in 1..i : q[j] = Call("lock", q[i + 1].sink)
    <3>1. (i + 1) - 1 = i
      BY <2>1
    <3> QED BY <1>1, <2>1, <3>1 DEF Guarding
  <2>4. \A k \in 1..i : r[k].call # "unlock"
    <3>1. ASSUME NEW k \in 1..i PROVE k + 1 \in 1..i + 1 /\ r[k] = q[k + 1]
      BY <1>2, <2>1
    <3> QED BY <2>2, <3>1
  <2>5. q[1].call # "unlock" /\ L \subseteq M
    BY <2>1, <2>2 DEF q
  <2>6. q[i + 1].sink \in Sinks
    <3>1. q[i + 1] \in Calls /\ q[i + 1].call = "size"
      BY <1>1, <2>1
    <3> QED BY <3>1 DEF Calls
  <2>7. r[i].sink \in M \/ \E j \in 1..i - 1 : r[j] = Call("lock", r[i].sink)
    <3>1. CASE q[i + 1].sink \in L
      BY <2>1, <2>5, <3>1
    <3>2. ASSUME NEW j \in 1..i, q[j] = Call("lock", q[i + 1].sink)
          PROVE  r[i].sink \in M \/ \E k \in 1..i - 1 : r[k] = Call("lock", r[i].sink)
      <4>1. CASE j = 1
        BY <2>1, <2>6, <3>2, <4>1 DEF q
      <4>2. CASE j # 1
        <5>1. j - 1 \in 1..i - 1 /\ r[j - 1] = q[j]
          BY <1>2, <2>1, <4>2
        <5> QED BY <2>1, <3>2, <5>1
      <4> QED BY <4>1, <4>2
    <3> QED BY <2>3, <3>1, <3>2
  <2> QED BY <2>4, <2>7
<1>4. Scripts(Tail(t), {})
  <2> DEFINE C == Seq(Calls)
  <2>1. /\ Tail(t) \in Seq(C) /\ Len(Tail(t)) = Len(t) - 1 /\ Len(t) \in Nat
        /\ \A n \in 1..Len(Tail(t)) : Tail(t)[n] = t[n + 1]
    <3> HIDE DEF C
    <3> QED BY <1>1 DEF C
  <2>2. ASSUME NEW n \in 1..Len(Tail(t))
        PROVE  Tail(t)[n] # <<>> /\ Guarding(Tail(t)[n], {})
    <3>1. n + 1 \in 1..Len(t) /\ n + 1 # 1
      BY <2>1
    <3> QED BY <2>1, <3>1 DEF Scripts
  <2> QED BY <2>1, <2>2 DEF Scripts
<1> QED BY <1>2, <1>3, <1>4 DEF q

LEMMA ScriptDone ==
  ASSUME NEW L, NEW M, NEW t, Scripts(t, L), t # <<>>,
         \/ L \subseteq M
         \/ t[1][1].call = "unlock",
         \A s \in Sinks : t[1][1] = Call("lock", s) => s \in M
  PROVE  Scripts(Script(Tail(t[1]), Tail(t)), M)
BY CallDone, Scripted

\* Calls that count nothing, before or after others.
LEMMA Prepended ==
  ASSUME NEW L, NEW q \in Seq(Calls), NEW r \in Seq(Calls), Guarding(r, L),
         \A i \in 1..Len(q) : q[i].call \notin {"size", "unlock"}
  PROVE  q \o r \in Seq(Calls) /\ Guarding(q \o r, L)
<1> DEFINE u == q \o r  m == Len(q)  n == Len(r)
<1>1. /\ u \in Seq(Calls) /\ Len(u) = m + n /\ m \in Nat /\ n \in Nat
      /\ \A i \in 1..m + n : u[i] = IF i <= m THEN q[i] ELSE r[i - m]
  BY ConcatProperties
<1> HIDE DEF u, m, n
<1>2. ASSUME NEW i \in 1..Len(u), u[i].call = "size"
      PROVE  /\ \A k \in 1..i : u[k].call # "unlock"
             /\ u[i].sink \in L \/ \E j \in 1..i - 1 : u[j] = Call("lock", u[i].sink)
  <2>1. i \in Nat /\ ~(i <= m) /\ i - m \in 1..n /\ u[i] = r[i - m] /\ i <= m + n
    <3>1. ~(i <= m)
      BY <1>1, <1>2 DEF m
    <3> QED BY <1>1, <1>2, <3>1
  <2>2. /\ \A k \in 1..i - m : r[k].call # "unlock"
        /\ r[i - m].sink \in L \/ \E j \in 1..(i - m) - 1 : r[j] = Call("lock", r[i - m].sink)
    BY <1>2, <2>1 DEF Guarding, n
  <2>3. ASSUME NEW k \in 1..i PROVE u[k].call # "unlock"
    <3>1. CASE k <= m
      BY <1>1, <2>1, <3>1 DEF m
    <3>2. CASE ~(k <= m)
      <4>1. k - m \in 1..i - m /\ u[k] = r[k - m]
        BY <1>1, <2>1, <3>2
      <4> QED BY <2>2, <4>1
    <3> QED BY <3>1, <3>2
  <2>4. ASSUME NEW j \in 1..(i - m) - 1, r[j] = Call("lock", r[i - m].sink)
        PROVE  \E k \in 1..i - 1 : u[k] = Call("lock", u[i].sink)
    <3>1. j + m \in 1..i - 1 /\ j + m \in 1..m + n /\ ~(j + m <= m) /\ (j + m) - m = j
      BY <1>1, <2>1
    <3>2. u[j + m] = r[j]
      BY <1>1, <3>1
    <3> QED BY <2>1, <2>4, <3>1, <3>2
  <2> QED BY <2>1, <2>2, <2>3, <2>4
<1> QED BY <1>1, <1>2 DEF Guarding, u

LEMMA QuietBoth ==
  ASSUME NEW q \in Seq(Calls), NEW r \in Seq(Calls),
         \A i \in 1..Len(q) : q[i].call \notin {"size", "unlock"},
         \A i \in 1..Len(r) : r[i].call \notin {"size", "unlock"}
  PROVE  /\ q \o r \in Seq(Calls)
         /\ \A i \in 1..Len(q \o r) : (q \o r)[i].call \notin {"size", "unlock"}
<1> DEFINE u == q \o r  m == Len(q)  n == Len(r)
<1>1. /\ u \in Seq(Calls) /\ Len(u) = m + n /\ m \in Nat /\ n \in Nat
      /\ \A i \in 1..m + n : u[i] = IF i <= m THEN q[i] ELSE r[i - m]
  BY ConcatProperties
<1> HIDE DEF u, m, n
<1>2. ASSUME NEW i \in 1..Len(u) PROVE u[i].call \notin {"size", "unlock"}
  <2>1. CASE i <= m
    BY <1>1, <2>1 DEF m
  <2>2. CASE ~(i <= m)
    <3>1. i - m \in 1..n /\ u[i] = r[i - m]
      BY <1>1, <2>2
    <3> QED BY <3>1 DEF n
  <2> QED BY <2>1, <2>2
<1> QED BY <1>1, <1>2 DEF u

LEMMA Appended ==
  ASSUME NEW L, NEW q \in Seq(Calls), NEW r \in Seq(Calls), Guarding(q, L),
         \A i \in 1..Len(r) : r[i].call # "size"
  PROVE  q \o r \in Seq(Calls) /\ Guarding(q \o r, L)
<1> DEFINE u == q \o r  m == Len(q)  n == Len(r)
<1>1. /\ u \in Seq(Calls) /\ Len(u) = m + n /\ m \in Nat /\ n \in Nat
      /\ \A i \in 1..m + n : u[i] = IF i <= m THEN q[i] ELSE r[i - m]
  BY ConcatProperties
<1> HIDE DEF u, m, n
<1>2. ASSUME NEW i \in 1..Len(u), u[i].call = "size"
      PROVE  /\ \A k \in 1..i : u[k].call # "unlock"
             /\ u[i].sink \in L \/ \E j \in 1..i - 1 : u[j] = Call("lock", u[i].sink)
  <2>1. i \in 1..m
    <3>1. CASE ~(i <= m)
      <4>1. i - m \in 1..n /\ u[i] = r[i - m]
        BY <1>1, <3>1
      <4> QED BY <1>2, <4>1 DEF n
    <3> QED BY <1>1, <3>1
  <2>2. \A k \in 1..i : k \in 1..m + n /\ u[k] = q[k]
    BY <1>1, <2>1
  <2>3. u[i] = q[i]
    BY <2>1, <2>2
  <2>4. /\ \A k \in 1..i : q[k].call # "unlock"
        /\ q[i].sink \in L \/ \E j \in 1..i - 1 : q[j] = Call("lock", q[i].sink)
    BY <1>2, <2>1, <2>3 DEF Guarding, m
  <2>5. \A j \in 1..i - 1 : j \in 1..i
    BY <2>1
  <2> QED BY <2>2, <2>3, <2>4, <2>5
<1> QED BY <1>1, <1>2 DEF Guarding, u

\* The requests for some sinks.
LEMMA Requested ==
  ASSUME NEW held \in Seq(Sinks)
  PROVE  /\ RequestsFor(held) \in Seq(Calls)
         /\ \A i \in 1..Len(RequestsFor(held)) : RequestsFor(held)[i].call = "request"
<1>1. \A i \in 1..Len(held) : held[i] \in Sinks
  BY ElementOfSeq
<1>2. \A i \in 1..Len(held) : Call("request", held[i]) \in Calls /\ Call("request", held[i]).call = "request"
  BY <1>1 DEF Calls, Call
<1>3. RequestsFor(held) = [i \in 1..Len(held) |-> Call("request", held[i])]
  BY DEF RequestsFor
<1> HIDE DEF Calls
<1> QED BY <1>2, <1>3

\* Calls that count nothing keep no guard.
LEMMA QuietIsGuarding ==
  ASSUME NEW q, NEW L, \A i \in 1..Len(q) : q[i].call # "size"
  PROVE  Guarding(q, L)
BY DEF Guarding

LEMMA GuardedOne ==
  ASSUME NEW s \in Sinks
  PROVE  /\ Guarded(s) \in Seq(Calls) /\ Guarded(s) # <<>> /\ Guarding(Guarded(s), {})
<1> DEFINE a == Call("lock", s)  b == Call("size", s)  c == Call("read", s)  d == Call("unlock", s)
<1>1. /\ a \in Calls /\ b \in Calls /\ c \in Calls /\ d \in Calls
      /\ a.call = "lock" /\ b.call = "size" /\ c.call = "read" /\ d.call = "unlock"
      /\ b.sink = s
  BY CallTypes
<1>2. Guarded(s) = <<a, b, c, d>>
  BY DEF Guarded
<1>3. a = Call("lock", b.sink)
  BY <1>1
<1> HIDE DEF a, b, c, d
<1>4. ASSUME NEW q, q = <<a, b, c, d>>
      PROVE  q \in Seq(Calls) /\ q # <<>> /\ Guarding(q, {})
  <2>1. q \in Seq(Calls) /\ Len(q) = 4 /\ q[1] = a /\ q[2] = b /\ q[3] = c /\ q[4] = d
    BY <1>1, <1>4
  <2>2. ASSUME NEW i \in 1..Len(q), q[i].call = "size"
        PROVE  /\ \A k \in 1..i : q[k].call # "unlock"
               /\ \E j \in 1..i - 1 : q[j] = Call("lock", q[i].sink)
    <3>1. i = 2
      BY <1>1, <2>1, <2>2
    <3>2. \A k \in 1..2 : q[k].call # "unlock"
      BY <1>1, <2>1
    <3> QED BY <1>3, <2>1, <3>1, <3>2
  <2> QED BY <2>1, <2>2 DEF Guarding
<1> QED BY <1>2, <1>4

LEMMA NotEmpty ==
  ASSUME NEW u \in Seq(Calls), NEW r \in Seq(Calls), Len(r) >= 1
  PROVE  u \o r # <<>>
<1>1. Len(u \o r) = Len(u) + Len(r) /\ Len(u) \in Nat /\ Len(r) \in Nat
  BY ConcatProperties, LenProperties
<1> HIDE DEF Calls
<1> DEFINE n == Len(u)  m == Len(r)  w == u \o r
<1>2. Len(w) = n + m /\ n \in Nat /\ m \in Nat /\ m >= 1
  BY <1>1
<1> HIDE DEF n, m, w
<1>3. Len(w) # 0
  BY <1>2
<1> QED BY <1>3 DEF w

LEMMA GuardedTwo ==
  ASSUME NEW x \in Sinks, NEW y \in Sinks, NEW z \in {<<>>, Interact}
  PROVE  /\ Paired(x, y, z) \in Seq(Calls) /\ Paired(x, y, z) # <<>> /\ Guarding(Paired(x, y, z), {})
<1> DEFINE first == IF Address[x] < Address[y] THEN x ELSE y
           second == IF Address[x] < Address[y] THEN y ELSE x
           a == Call("lock", first)  b == Call("lock", second)
           c == Call("size", x)  d == Call("size", y)
           e == Call("read", x)  f == Call("read", y)
           g == Call("unlock", second)  h == Call("unlock", first)
           q == <<a, b, c, d, e, f>>
           r == <<g, h>>
<1>1. first \in Sinks /\ second \in Sinks /\ {first, second} = {x, y}
  OBVIOUS
<1> HIDE DEF first, second
<1>2. /\ a \in Calls /\ b \in Calls /\ c \in Calls /\ d \in Calls /\ e \in Calls /\ f \in Calls
      /\ g \in Calls /\ h \in Calls
      /\ a.call = "lock" /\ b.call = "lock" /\ c.call = "size" /\ d.call = "size"
      /\ e.call = "read" /\ f.call = "read" /\ g.call = "unlock" /\ h.call = "unlock"
      /\ c.sink = x /\ d.sink = y
  BY <1>1, CallTypes
<1>3. /\ a = Call("lock", c.sink) \/ b = Call("lock", c.sink)
      /\ a = Call("lock", d.sink) \/ b = Call("lock", d.sink)
  <2>1. (first = x \/ second = x) /\ (first = y \/ second = y)
    BY <1>1
  <2>2. c.sink = x /\ d.sink = y
    BY <1>2
  <2> HIDE DEF c, d
  <2> QED BY <2>1, <2>2
<1>4. Paired(x, y, z) = q \o z \o r
  BY Zenon DEF Paired, first, second
<1> HIDE DEF a, b, c, d, e, f, g, h
<1>5. q \in Seq(Calls) /\ Guarding(q, {})
  <2>1. /\ q \in Seq(Calls) /\ Len(q) = 6 /\ q[1] = a /\ q[2] = b /\ q[3] = c /\ q[4] = d
        /\ q[5] = e /\ q[6] = f
    BY <1>2
  <2> HIDE DEF q
  <2>2. ASSUME NEW i \in 1..Len(q), q[i].call = "size"
        PROVE  /\ \A k \in 1..i : q[k].call # "unlock"
               /\ \E j \in 1..i - 1 : q[j] = Call("lock", q[i].sink)
    <3>1. i = 3 \/ i = 4
      BY <1>2, <2>1, <2>2
    <3>2. \A k \in 1..4 : q[k].call # "unlock"
      BY <1>2, <2>1
    <3>3. 1 \in 1..i - 1 /\ 2 \in 1..i - 1
      BY <3>1
    <3> QED BY <1>3, <2>1, <3>1, <3>2, <3>3
  <2> QED BY <2>1, <2>2 DEF Guarding
<1>6. z \in Seq(Calls) /\ \A i \in 1..Len(z) : z[i].call # "size"
  <2>1. CASE z = <<>>
    BY <2>1
  <2>2. CASE z = Interact
    BY <2>2, CallTypes
  <2> QED BY <2>1, <2>2
<1>7. r \in Seq(Calls) /\ Len(r) = 2 /\ \A i \in 1..Len(r) : r[i].call # "size"
  BY <1>2
<1> HIDE DEF q, r
<1>8. q \o z \in Seq(Calls) /\ Guarding(q \o z, {})
  BY <1>5, <1>6, Appended
<1>9. (q \o z) \o r \in Seq(Calls) /\ Guarding((q \o z) \o r, {})
  BY <1>7, <1>8, Appended
<1>10. (q \o z) \o r # <<>>
  BY <1>7, <1>8, NotEmpty
<1> QED BY <1>4, <1>9, <1>10

\* What a chart draws.
LEMMA Drawn ==
  ASSUME NEW kind \in {"XYChart", "YYChart"}, NEW held \in Seq(Sinks)
  PROVE  Scripts(DrawScript(kind, held), {})
<1> DEFINE C == {q \in Seq(Calls) : q # <<>> /\ Guarding(q, {})}
           x == held[1]
           pair(i) == IF held[i + 1] = x THEN Guarded(x) ELSE Paired(x, held[i + 1], <<>>)
           one == [i \in 1..Len(held) |-> Guarded(held[i])]
           pairs == [i \in 1..(Len(held) - 1) |-> pair(i)]
           probe == <<Call("lock", x), Call("probe", x), Call("unlock", x)>>
           single == <<Call("lock", x), Call("size", x), Call("read", x)>> \o Interact
                       \o <<Call("unlock", x)>>
<1>1. ASSUME NEW t \in Seq(C) PROVE Scripts(t, {})
  <2>1. t \in Seq(Seq(Calls))
    <3>1. C \subseteq Seq(Calls)
      OBVIOUS
    <3> HIDE DEF C
    <3> QED BY <3>1
  <2>2. \A n \in 1..Len(t) : t[n] \in C
    <3> HIDE DEF C
    <3> QED BY ElementOfSeq
  <2> QED BY <2>1, <2>2 DEF Scripts
<1>2. \A s \in Sinks : Guarded(s) \in C
  BY GuardedOne
<1>3. \A s, u \in Sinks : Paired(s, u, <<>>) \in C /\ Paired(s, u, Interact) \in C
  BY GuardedTwo
<1>4. Len(held) \in Nat /\ \A i \in 1..Len(held) : held[i] \in Sinks
  BY LenProperties, ElementOfSeq
<1>5. Interact \in C
  <2>1. [call |-> "interact"] \in Calls /\ [call |-> "interact"].call # "size"
    BY DEF Calls
  <2> HIDE DEF C
  <2>2. <<[call |-> "interact"]>> \in Seq(Calls) /\ <<[call |-> "interact"]>> # <<>>
    BY <2>1
  <2>3. Guarding(<<[call |-> "interact"]>>, {})
    BY <2>1 DEF Guarding
  <2> QED BY <2>2, <2>3 DEF Interact, C
<1>6. ASSUME x \in Sinks PROVE probe \in C
  <2> DEFINE a == Call("lock", x)  b == Call("probe", x)  c == Call("unlock", x)
  <2>1. /\ a \in Calls /\ b \in Calls /\ c \in Calls
        /\ a.call # "size" /\ b.call # "size" /\ c.call # "size"
    BY <1>6, CallTypes
  <2> HIDE DEF a, b, c
  <2>2. <<a, b, c>> \in Seq(Calls) /\ <<a, b, c>> # <<>>
    BY <2>1
  <2>3. Guarding(<<a, b, c>>, {})
    BY <2>1 DEF Guarding
  <2> QED BY <2>2, <2>3 DEF a, b, c
<1>7. ASSUME x \in Sinks PROVE single \in C
  <2> DEFINE a == Call("lock", x)  b == Call("size", x)  c == Call("read", x)  d == Call("unlock", x)
             q == <<a, b, c>>  r == <<d>>
  <2>1. /\ a \in Calls /\ b \in Calls /\ c \in Calls /\ d \in Calls
        /\ a.call = "lock" /\ b.call = "size" /\ c.call = "read" /\ d.call # "size"
        /\ b.sink = x
    BY <1>7, CallTypes
  <2>2. a = Call("lock", b.sink)
    BY <2>1
  <2> HIDE DEF a, b, c, d
  <2>3. q \in Seq(Calls) /\ Guarding(q, {})
    <3>1. q \in Seq(Calls) /\ Len(q) = 3 /\ q[1] = a /\ q[2] = b /\ q[3] = c
      BY <2>1
    <3> HIDE DEF q
    <3>2. ASSUME NEW i \in 1..Len(q), q[i].call = "size"
          PROVE  /\ \A k \in 1..i : q[k].call # "unlock"
                 /\ \E j \in 1..i - 1 : q[j] = Call("lock", q[i].sink)
      <4>1. i = 2
        BY <2>1, <3>1, <3>2
      <4>2. \A k \in 1..2 : q[k].call # "unlock"
        BY <2>1, <3>1
      <4> QED BY <2>2, <3>1, <4>1, <4>2
    <3> QED BY <3>1, <3>2 DEF Guarding
  <2>4. r \in Seq(Calls) /\ Len(r) = 1 /\ \A i \in 1..Len(r) : r[i].call # "size"
    BY <2>1
  <2>5. Interact \in Seq(Calls) /\ \A i \in 1..Len(Interact) : Interact[i].call # "size"
    BY <1>7, CallTypes
  <2> HIDE DEF q, r
  <2>6. q \o Interact \in Seq(Calls) /\ Guarding(q \o Interact, {})
    BY <2>3, <2>5, Appended
  <2> DEFINE u == q \o Interact
  <2>7. u \o r \in Seq(Calls) /\ Guarding(u \o r, {})
    BY <2>4, <2>6, Appended
  <2>8. u \o r # <<>>
    BY <2>4, <2>6, NotEmpty
  <2> QED BY <2>7, <2>8 DEF q, r, a, b, c, d
<1>8. one \in Seq(C)
  <2> HIDE DEF C
  <2> QED BY <1>2, <1>4
<1>9. ASSUME x \in Sinks PROVE pairs \in Seq(C)
  <2>1. \A i \in 1..(Len(held) - 1) : i + 1 \in 1..Len(held) /\ held[i + 1] \in Sinks
    BY <1>4
  <2> HIDE DEF C, x
  <2>2. \A i \in 1..(Len(held) - 1) : pair(i) \in C
    BY <1>2, <1>3, <1>9, <2>1
  <2> HIDE DEF pair
  <2>3. Len(held) = 0 \/ Len(held) - 1 \in Nat
    BY <1>4
  <2>4. [i \in 1..(0 - 1) |-> pair(i)] = <<>>
    OBVIOUS
  <2>5. CASE Len(held) - 1 \in Nat
    BY <2>2, <2>5
  <2>6. CASE Len(held) = 0
    BY <2>4, <2>6
  <2> QED BY <2>3, <2>5, <2>6
<1>10. held # <<>> => x \in Sinks
  BY <1>4
<1>11. DrawScript(kind, held) \in Seq(C)
  <2> HIDE DEF C, x, pair, one, pairs, probe, single
  <2>0. \A c \in C : <<c>> \in Seq(C)
    OBVIOUS
  <2>1. CASE held = <<>>
    <3>1. DrawScript(kind, held) = <<Interact>>
      <4>1. Len(held) = 0
        BY <2>1
      <4> QED BY <2>1, <4>1 DEF DrawScript
    <3> QED BY <1>5, <2>0, <3>1
  <2>2. CASE held # <<>> /\ kind = "XYChart"
    <3>1. DrawScript(kind, held) = one \o <<Interact>>
      BY <2>2 DEF DrawScript, one
    <3> QED BY <1>5, <1>8, <2>0, <3>1
  <2>3. CASE Len(held) = 1 /\ kind = "YYChart"
    <3>0. held # <<>>
      BY <2>3
    <3> DEFINE n == Len(held)
    <3> HIDE DEF n
    <3>2. n = 1 /\ ~(n = 2) /\ ~(n > 2)
      BY <2>3 DEF n
    <3>1. DrawScript(kind, held) = <<single>>
      BY <2>3, <3>0, <3>2, Zenon DEF DrawScript, single, x, n
    <3> QED BY <1>7, <1>10, <2>0, <3>0, <3>1
  <2>4. CASE Len(held) = 2 /\ kind = "YYChart"
    <3>0. held # <<>>
      BY <2>4
    <3>1. DrawScript(kind, held) = <<Paired(x, held[2], Interact)>>
      BY <2>4, <3>0 DEF DrawScript, x
    <3>2. x \in Sinks /\ held[2] \in Sinks
      BY <1>4, <1>10, <2>4
    <3> QED BY <1>3, <2>0, <3>1, <3>2
  <2>5. CASE Len(held) > 2 /\ kind = "YYChart"
    <3>1. DrawScript(kind, held) = <<probe, Guarded(x)>> \o pairs \o <<Interact>>
      BY <1>4, <2>5 DEF DrawScript, x, pairs, pair, probe
    <3>2. held # <<>>
      BY <2>5
    <3>3. <<probe, Guarded(x)>> \in Seq(C)
      BY <1>2, <1>6, <1>10, <3>2
    <3> QED BY <1>5, <1>9, <1>10, <2>0, <3>1, <3>2, <3>3
  <2>6. held = <<>> \/ Len(held) = 1 \/ Len(held) = 2 \/ Len(held) > 2
    <3>1. Len(held) = 0 => held = <<>>
      OBVIOUS
    <3>2. ASSUME NEW n \in Nat PROVE n = 0 \/ n = 1 \/ n = 2 \/ n > 2
      OBVIOUS
    <3> QED BY <1>4, <3>1, <3>2
  <2> QED BY <2>1, <2>2, <2>3, <2>4, <2>5, <2>6
<1> HIDE DEF C
<1> QED BY <1>1, <1>11

\* What a chart holds after it has looked for its names.
LEMMA Synced ==
  ASSUME NEW held \in Seq(Sinks), NEW names \in Seq(Names), registry \subseteq Sinks,
         NEW synced \in SyncSinksFromNames(held, names)
  PROVE  synced \in Seq(Sinks)
<1> DEFINE kept == Selected(held, Wanted(held, names))
           missing(n) == /\ \A s \in ToSet(kept) : ~Answers(s, n)
                         /\ Found(n) # {}
           sought == Selected(names, {i \in DOMAIN names : missing(names[i])})
<1>1. PICK added \in [DOMAIN sought -> registry] : synced = kept \o added
  BY Zenon DEF SyncSinksFromNames
<1>2. Wanted(held, names) \in SUBSET (DOMAIN held)
  BY DEF Wanted
<1>3. kept \in Seq(Sinks)
  BY <1>2, SelectedIsSeq
<1>4. sought \in Seq(Names)
  <2> DEFINE K == {i \in DOMAIN names : missing(names[i])}
  <2>1. K \in SUBSET (DOMAIN names)
    OBVIOUS
  <2> HIDE DEF K
  <2>2. Selected(names, K) \in Seq(Names)
    BY <2>1, SelectedIsSeq
  <2> QED BY <2>2 DEF K
<1> HIDE DEF kept, sought
<1>5. DOMAIN sought = 1..Len(sought) /\ Len(sought) \in Nat
  BY <1>4
<1>6. added \in Seq(Sinks)
  BY <1>5
<1> QED BY <1>1, <1>3, <1>6

-----------------------------------------------------------------------------
(* The frames of the UI thread.                                            *)

\* What a chart holds.
Holdings ==
  /\ dataSinks \in [Charts -> Seq(Names)]
  /\ signalSinks \in [Charts -> Seq(Sinks)]

\* Samples are counted under the guard of their sink only.
Counts ==
  /\ \A s \in Sinks \ uiLocks : counted[s] = 0
  /\ \A s \in Sinks : phase[s] = "unborn" => size[s] = 0
  /\ ReadsStayInside

FrameInv == TypeOK /\ Holdings /\ Scripts(todo, uiLocks) /\ Counts

LEMMA NoScripts == Scripts(<<>>, {})
<1>1. <<>> \in Seq(Seq(Calls)) /\ Len(<<>>) = 0
  OBVIOUS
<1> QED BY <1>1 DEF Scripts

\* The call of a running script, and the sink it is for.
LEMMA CallOfScript ==
  ASSUME NEW L, Scripts(todo, L), todo # <<>>
  PROVE  /\ Next1 \in Calls
         /\ Next1.call \notin {"interact", "draw"} => Next1.sink \in Sinks
         /\ Next1.call = "size" => Next1.sink \in L
         /\ \A s : Next1 = Call("lock", s) => Next1.call = "lock" /\ Next1.sink = s
<1>1. /\ todo[1] \in Seq(Calls) /\ todo[1] # <<>> /\ Guarding(todo[1], L)
  <2>1. 1 \in 1..Len(todo) /\ todo \in Seq(Seq(Calls))
    BY DEF Scripts
  <2> QED BY <2>1 DEF Scripts
<1>2. 1 \in 1..Len(todo[1]) /\ todo[1][1] \in Calls
  BY <1>1
<1>3. todo[1][1].call = "size" => todo[1][1].sink \in L
  BY <1>1, <1>2 DEF Guarding
<1>4. todo[1][1].call \notin {"interact", "draw"} => todo[1][1].sink \in Sinks
  BY <1>2 DEF Calls
<1> QED BY <1>2, <1>3, <1>4 DEF Next1, Call

LEMMA InitFrameInv == Init => FrameInv
<1> SUFFICES ASSUME Init PROVE FrameInv
  OBVIOUS
<1>1. Holdings
  BY DEF Init, Holdings
<1>2. \A c \in Charts : ToSet(signalSinks[c]) \subseteq Sinks
  BY DEF Init, ToSet
<1>3. TypeOK
  BY <1>2, SinkAssumption DEF Init, TypeOK, Phases
<1>4. Counts
  BY DEF Init, Counts, ReadsStayInside
<1> QED BY <1>1, <1>3, <1>4, NoScripts DEF FrameInv, Init

\* The steps of a block: a block whose guard the UI holds is not resized.
LEMMA GraphFrameInv ==
  ASSUME FrameInv, NEW s \in Sinks, GraphStep(s)
  PROVE  FrameInv'
<1>1. UNCHANGED <<chartVars, frameVars, ub>>
  BY DEF GraphStep, BlockStep, Construct, ApplySettings, ProcessBulk, Invalidate,
         SettingsChanged, Unregister, Destroy
<1>2. Holdings' /\ Scripts(todo, uiLocks)'
  BY <1>1 DEF FrameInv, Holdings, chartVars, frameVars
<1>3. UNCHANGED <<dataSinks, signalSinks, window, history, drawing, todo, loaded, counted,
                  uiLocks, ub, requests>>
  BY <1>1 DEF chartVars, frameVars, GraphStep, BlockStep, Construct, ApplySettings,
         ProcessBulk, Invalidate, SettingsChanged, Unregister, Destroy
<1>4. ASSUME phase' \in [Sinks -> Phases], required' \in [Sinks -> Nat],
             capacity' \in [Sinks -> Nat], size' \in [Sinks -> Nat], registry' \subseteq Sinks,
             events' \in 0..MaxEvents,
             \A t \in Sinks : t \in uiLocks => size'[t] >= size[t],
             \A t \in Sinks : phase'[t] = "unborn" => phase[t] = "unborn" /\ size'[t] = size[t]
      PROVE  FrameInv'
  <2>1. TypeOK'
    BY <1>3, <1>4 DEF FrameInv, TypeOK
  <2>2. Counts'
    <3>1. ASSUME NEW t \in uiLocks' PROVE counted'[t] <= size'[t]
      <4>1. t \in Sinks /\ t \in uiLocks /\ counted'[t] = counted[t]
        BY <1>3 DEF FrameInv, TypeOK
      <4>2. counted[t] <= size[t] /\ counted[t] \in Nat /\ size[t] \in Nat /\ size'[t] \in Nat
        BY <1>4, <4>1 DEF FrameInv, TypeOK, Counts, ReadsStayInside
      <4>3. size'[t] >= size[t]
        BY <1>4, <4>1
      <4> QED BY <4>1, <4>2, <4>3
    <3>2. \A t \in Sinks \ uiLocks' : counted'[t] = 0
      BY <1>3 DEF FrameInv, Counts
    <3>3. \A t \in Sinks : phase'[t] = "unborn" => size'[t] = 0
      BY <1>4 DEF FrameInv, Counts
    <3> QED BY <3>1, <3>2, <3>3 DEF Counts, ReadsStayInside
  <2> QED BY <1>2, <2>1, <2>2 DEF FrameInv
<1> USE DEF TypeOK, Phases
<1>5. TypeOK /\ Counts
  BY DEF FrameInv
<1>6. ASSUME NEW n \in Sizes, Construct(s, n) PROVE FrameInv'
  <2>1. n \in Nat /\ size[s] = 0 /\ Min2(size[s], n) = 0
    <3>1. n \in Nat /\ size[s] = 0
      BY <1>5, <1>6, SinkAssumption DEF Construct, Counts
    <3> QED BY <3>1 DEF Min2
  <2>2. size' = [size EXCEPT ![s] = 0] /\ capacity' = [capacity EXCEPT ![s] = n]
    BY <1>6, <2>1 DEF Construct, Resize
  <2>3. /\ phase' \in [Sinks -> Phases] /\ required' \in [Sinks -> Nat]
        /\ capacity' \in [Sinks -> Nat] /\ size' \in [Sinks -> Nat] /\ registry' \subseteq Sinks
        /\ events' \in 0..MaxEvents
    BY <1>5, <1>6, <2>1, <2>2 DEF Construct
  <2>4. size' = size
    BY <1>5, <2>1, <2>2
  <2>5. \A t \in Sinks : phase'[t] = "unborn" => phase[t] = "unborn"
    BY <1>5, <1>6 DEF Construct
  <2>6. \A t \in Sinks : size'[t] >= size[t]
    BY <1>5, <2>4
  <2> QED BY <1>4, <2>3, <2>4, <2>5, <2>6
<1>7. ASSUME NEW n \in Sizes, ApplySettings(s, n) PROVE FrameInv'
  <2>1. n \in Nat /\ events + 1 \in 0..MaxEvents
    BY <1>5, <1>7, SinkAssumption DEF ApplySettings, CountEvent
  <2> QED BY <1>4, <1>5, <1>7, <2>1 DEF ApplySettings, CountEvent
<1>8. CASE ProcessBulk(s)
  <2> DEFINE m == Min2(capacity[s], size[s] + 1)
  <2>1. m \in Nat
    BY <1>5 DEF Min2
  <2>2. size' = [size EXCEPT ![s] = m] /\ s \notin uiLocks /\ phase[s] = "running"
    BY <1>8 DEF ProcessBulk
  <2> HIDE DEF m
  <2> QED BY <1>4, <1>5, <1>8, <2>1, <2>2 DEF ProcessBulk
<1>9. CASE Invalidate(s)
  BY <1>4, <1>5, <1>9 DEF Invalidate
<1>10. CASE SettingsChanged(s)
  <2> DEFINE m == Min2(size[s], required[s])
  <2>1. m \in Nat
    BY <1>5 DEF Min2
  <2>2. /\ size' = [size EXCEPT ![s] = m] /\ s \notin uiLocks
        /\ phase' = [phase EXCEPT ![s] = "running"]
        /\ capacity' = [capacity EXCEPT ![s] = required[s]]
    BY <1>10 DEF SettingsChanged, Resize
  <2> HIDE DEF m
  <2> QED BY <1>4, <1>5, <1>10, <2>1, <2>2 DEF SettingsChanged
<1>11. CASE Unregister(s)
  BY <1>4, <1>5, <1>11 DEF Unregister
<1>12. CASE Destroy(s)
  BY <1>4, <1>5, <1>12 DEF Destroy
<1> QED BY <1>6, <1>7, <1>8, <1>9, <1>10, <1>11, <1>12 DEF GraphStep, BlockStep

-----------------------------------------------------------------------------
\* What a chart's step writes, and what it leaves alone.
LEMMA ChartWrites ==
  ASSUME FrameInv, UNCHANGED <<sinkVars, loaded, counted, uiLocks, ub>>,
         Holdings', Scripts(todo, uiLocks)',
         window' \in [Charts -> {"new", "open", "closed"}],
         history' \in [Charts -> Nat], drawing' \in Charts, events' \in 0..MaxEvents
  PROVE  FrameInv'
<1>1. \A c \in Charts : ToSet(signalSinks'[c]) \subseteq Sinks
  <2> SUFFICES ASSUME NEW c \in Charts PROVE ToSet(signalSinks'[c]) \subseteq Sinks
    OBVIOUS
  <2>1. signalSinks'[c] \in Seq(Sinks)
    BY DEF Holdings
  <2> QED BY <2>1, ElementOfSeq DEF ToSet
<1>2. TypeOK'
  BY <1>1 DEF FrameInv, TypeOK, sinkVars
<1>3. Counts'
  BY DEF FrameInv, Counts, ReadsStayInside, sinkVars
<1> QED BY <1>2, <1>3 DEF FrameInv

\* A chart is given names and sinks.
LEMMA HoldingsChanged ==
  ASSUME Holdings, NEW c \in Charts, NEW names \in Seq(Names), NEW held \in Seq(Sinks),
         dataSinks' = [dataSinks EXCEPT ![c] = names],
         signalSinks' = [signalSinks EXCEPT ![c] = held]
  PROVE  Holdings'
BY DEF Holdings

\* The requests for some sinks, and scripts after them.
LEMMA RequestsScripted ==
  ASSUME NEW held \in Seq(Sinks), NEW t, NEW L, Scripts(t, {})
  PROVE  Scripts(Script(RequestsFor(held), t), L)
<1>1. RequestsFor(held) \in Seq(Calls) /\ Guarding(RequestsFor(held), L)
  BY Requested, QuietIsGuarding
<1> QED BY <1>1, Scripted

LEMMA DrawFrameInv ==
  ASSUME FrameInv, NEW c \in Charts, NEW refresh \in BOOLEAN, Draw(c, refresh)
  PROVE  FrameInv'
<1>1. dataSinks[c] \in Seq(Names) /\ signalSinks[c] \in Seq(Sinks)
  BY DEF FrameInv, Holdings
<1>2. PICK held \in SyncSinksIfNeeded(signalSinks[c], dataSinks[c]) :
        /\ signalSinks' = [signalSinks EXCEPT ![c] = held]
        /\ todo' = Script(IF refresh THEN RequestsFor(held) ELSE <<>>,
                          DrawScript(Kind[c], held))
  BY Zenon DEF Draw
<1>3. held \in Seq(Sinks)
  <2>1. held = signalSinks[c] \/ held \in SyncSinksFromNames(signalSinks[c], dataSinks[c])
    BY <1>2, Zenon DEF SyncSinksIfNeeded
  <2>2. registry \subseteq Sinks
    BY DEF FrameInv, TypeOK
  <2> QED BY <1>1, <2>1, <2>2, Synced
<1>4. UNCHANGED <<sinkVars, window, dataSinks, history, loaded, counted, uiLocks, ub, events>>
      /\ drawing' = c
  BY DEF Draw
<1>5. Holdings'
  BY <1>2, <1>3, <1>4 DEF FrameInv, Holdings
<1>6. Scripts(todo', uiLocks)
  <2>1. Scripts(DrawScript(Kind[c], held), {})
    BY <1>3, Drawn, SinkAssumption
  <2>2. CASE refresh
    BY <1>2, <1>3, <2>1, <2>2, RequestsScripted
  <2>3. CASE ~refresh
    <3>1. <<>> \in Seq(Calls) /\ Guarding(<<>>, uiLocks)
      BY QuietIsGuarding
    <3> QED BY <1>2, <2>1, <2>3, <3>1, Scripted
  <2> QED BY <2>2, <2>3
<1>7. Scripts(todo, uiLocks)'
  BY <1>4, <1>6
<1>8. /\ window' \in [Charts -> {"new", "open", "closed"}]
      /\ history' \in [Charts -> Nat] /\ events' \in 0..MaxEvents
  BY <1>4 DEF FrameInv, TypeOK
<1> QED BY <1>4, <1>5, <1>7, <1>8, ChartWrites

\* The names of a chart change.
LEMMA NamesChanged ==
  ASSUME FrameInv, NEW d \in Charts, NEW names \in Seq(Names), NEW held \in Seq(Sinks),
         OnDataSinksChanged(d, names, held),
         UNCHANGED <<sinkVars, history, loaded, counted, uiLocks, ub>>, CountEvent,
         window' \in [Charts -> {"new", "open", "closed"}]
  PROVE  FrameInv'
<1>1. PICK synced \in SyncSinksFromNames(held, names) :
        /\ signalSinks' = [signalSinks EXCEPT ![d] = synced]
        /\ todo' = Script(RequestsFor(synced), <<>>)
  BY DEF OnDataSinksChanged
<1>2. dataSinks' = [dataSinks EXCEPT ![d] = names] /\ drawing' = d
  BY DEF OnDataSinksChanged
<1>3. synced \in Seq(Sinks)
  BY Synced DEF FrameInv, TypeOK
<1>4. Holdings'
  BY <1>1, <1>2, <1>3, HoldingsChanged DEF FrameInv
<1>5. Scripts(todo, uiLocks)'
  BY <1>1, <1>3, NoScripts, RequestsScripted
<1>6. history' \in [Charts -> Nat] /\ events' \in 0..MaxEvents
  BY SinkAssumption DEF FrameInv, TypeOK, CountEvent
<1> QED BY <1>2, <1>4, <1>5, <1>6, ChartWrites

LEMMA RemoveFrameInv ==
  ASSUME FrameInv, NEW c \in Charts, NEW n \in Names, RemoveSink(c, n)
  PROVE  FrameInv'
<1> DEFINE held == signalSinks[c]
           answering == Selected(held, {i \in DOMAIN held : Answers(held[i], n)})
           gone == {n} \union (IF answering = <<>> THEN {} ELSE {Name[answering[1]]})
           places == {i \in DOMAIN dataSinks[c] : dataSinks[c][i] \notin gone}
           names == Selected(dataSinks[c], places)
<1>1. dataSinks[c] \in Seq(Names) /\ held \in Seq(Sinks)
  BY DEF FrameInv, Holdings
<1>2. /\ dataSinks' = [dataSinks EXCEPT ![c] = names]
      /\ \E synced \in SyncSinksFromNames(held, names) :
           /\ todo' = Script(RequestsFor(synced), <<Draw1>>)
           /\ signalSinks' = [signalSinks EXCEPT ![c] =
                                Selected(synced, {i \in DOMAIN synced : ~Answers(synced[i], n)})]
  BY Zenon DEF RemoveSink
<1>3. names \in Seq(Names)
  <2>1. places \in SUBSET (DOMAIN dataSinks[c])
    OBVIOUS
  <2> HIDE DEF places
  <2> QED BY <1>1, <2>1, SelectedIsSeq
<1> HIDE DEF held, names
<1>4. PICK synced \in SyncSinksFromNames(held, names) :
        /\ todo' = Script(RequestsFor(synced), <<Draw1>>)
        /\ signalSinks' = [signalSinks EXCEPT ![c] =
                             Selected(synced, {i \in DOMAIN synced : ~Answers(synced[i], n)})]
  BY <1>2
<1>5. synced \in Seq(Sinks)
  BY <1>1, <1>3, Synced DEF FrameInv, TypeOK
<1> DEFINE others == {i \in DOMAIN synced : ~Answers(synced[i], n)}
<1>6. Selected(synced, others) \in Seq(Sinks)
  <2>1. others \in SUBSET (DOMAIN synced)
    OBVIOUS
  <2> HIDE DEF others
  <2> QED BY <1>5, <2>1, SelectedIsSeq
<1>7. signalSinks' = [signalSinks EXCEPT ![c] = Selected(synced, others)]
  BY <1>4
<1> HIDE DEF others
<1>8. Holdings'
  BY <1>2, <1>3, <1>6, <1>7, HoldingsChanged DEF FrameInv
<1>9. Scripts(<<Draw1>>, {})
  <2>1. /\ [call |-> "draw"] \in Calls /\ [call |-> "draw"].call # "size"
    BY DEF Calls
  <2>2. Draw1 \in Seq(Calls) /\ Draw1 # <<>> /\ Guarding(Draw1, {})
    <3>1. Draw1 \in Seq(Calls) /\ Len(Draw1) = 1 /\ Draw1[1] = [call |-> "draw"]
      BY <2>1 DEF Draw1
    <3> QED BY <2>1, <3>1 DEF Guarding
  <2> DEFINE u == <<Draw1>>
  <2>3. u \in Seq(Seq(Calls)) /\ Len(u) = 1 /\ u[1] = Draw1
    BY <2>2
  <2> HIDE DEF u
  <2>4. \A i \in 1..Len(u) : u[i] # <<>> /\ Guarding(u[i], IF i = 1 THEN {} ELSE {})
    BY <2>2, <2>3
  <2> QED BY <2>3, <2>4 DEF Scripts, u
<1>10. Scripts(todo, uiLocks)'
  BY <1>4, <1>5, <1>9, RequestsScripted
<1>11. /\ UNCHANGED <<sinkVars, window, history, loaded, counted, uiLocks, ub>>
       /\ CountEvent /\ drawing' = c
  BY DEF RemoveSink
<1>12. /\ window' \in [Charts -> {"new", "open", "closed"}]
       /\ history' \in [Charts -> Nat] /\ events' \in 0..MaxEvents
  BY <1>11, SinkAssumption DEF FrameInv, TypeOK, CountEvent
<1> QED BY <1>8, <1>10, <1>11, <1>12, ChartWrites

LEMMA ChartFrameInv ==
  ASSUME FrameInv, NEW c \in Charts, ChartStep(c)
  PROVE  FrameInv'
<1>0. /\ dataSinks[c] \in Seq(Names) /\ signalSinks[c] \in Seq(Sinks)
      /\ window \in [Charts -> {"new", "open", "closed"}] /\ history \in [Charts -> Nat]
  BY DEF FrameInv, Holdings, TypeOK
<1>1. ASSUME NEW refresh \in BOOLEAN, Draw(c, refresh) PROVE FrameInv'
  BY <1>1, DrawFrameInv
<1>2. ASSUME NEW n \in Names, AddName(c, n) PROVE FrameInv'
  <2>1. Append(dataSinks[c], n) \in Seq(Names)
    BY <1>0
  <2> QED BY <1>0, <1>2, <2>1, NamesChanged DEF AddName
<1>3. ASSUME NEW n \in Names, RemoveSink(c, n) PROVE FrameInv'
  BY <1>3, RemoveFrameInv
<1>4. ASSUME NEW d \in Charts, Transmute(c, d) PROVE FrameInv'
  <2>1. window' \in [Charts -> {"new", "open", "closed"}]
    BY <1>0, <1>4 DEF Transmute
  <2>2. <<>> \in Seq(Sinks)
    OBVIOUS
  <2> QED BY <1>0, <1>4, <2>1, <2>2, NamesChanged DEF Transmute
<1>5. ASSUME NEW n \in Sizes, SetHistory(c, n) PROVE FrameInv'
  <2>1. n \in Nat /\ history' \in [Charts -> Nat]
    BY <1>0, <1>5, SinkAssumption DEF SetHistory
  <2>2. Scripts(todo, uiLocks)'
    BY <1>0, <1>5, NoScripts, RequestsScripted DEF SetHistory
  <2>3. Holdings'
    BY <1>5 DEF SetHistory, FrameInv, Holdings
  <2>4. /\ UNCHANGED <<sinkVars, window, loaded, counted, uiLocks, ub>> /\ CountEvent /\ drawing' = c
    BY <1>5 DEF SetHistory
  <2>5. window' \in [Charts -> {"new", "open", "closed"}] /\ events' \in 0..MaxEvents
    BY <2>4, SinkAssumption DEF FrameInv, TypeOK, CountEvent
  <2> QED BY <2>1, <2>2, <2>3, <2>4, <2>5, ChartWrites
<1> QED BY <1>1, <1>2, <1>3, <1>4, <1>5 DEF ChartStep

-----------------------------------------------------------------------------
\* The size that charts demand of a block is one of theirs, or the default.
LEMMA DemandedIsNumber ==
  ASSUME NEW r \in [Charts -> Nat]
  PROVE  Demanded(r) \in Nat
<1> DEFINE T == {r[c] : c \in Charts}
<1>1. r \in Surjection(Charts, T)
  BY DEF Surjection
<1>2. IsFiniteSet(T)
  BY <1>1, FS_Surjection, SinkAssumption
<1>3. IsFiniteSet(T \cup {Default})
  BY <1>2, FS_AddElement
<1>4. T \cup {Default} = {Default} \union T /\ T \cup {Default} \in SUBSET Nat
  BY SinkAssumption
<1> HIDE DEF T
<1>5. Max(T \cup {Default}) \in Nat
  BY <1>3, <1>4, Greatest
<1> QED BY <1>4, <1>5 DEF Demanded, T

\* What a call of the adapter writes, when it neither takes nor gives back a guard.
LEMMA CallWrites ==
  ASSUME FrameInv, todo # <<>>, Next1.call \notin {"lock", "unlock"}, Done,
         UNCHANGED <<sinkVars, chartVars, drawing, counted, uiLocks, ub, events>>,
         loaded' \in {"no", "null", "block"}
  PROVE  FrameInv'
<1>1. Scripts(todo, uiLocks)'
  <2>1. \A s \in Sinks : todo[1][1] # Call("lock", s)
    BY DEF Next1, Call
  <2>2. Scripts(Script(Tail(todo[1]), Tail(todo)), uiLocks)
    BY <2>1, ScriptDone DEF FrameInv
  <2> QED BY <2>2 DEF Done
<1>2. TypeOK'
  BY DEF FrameInv, TypeOK, sinkVars, chartVars
<1>3. Holdings' /\ Counts'
  BY DEF FrameInv, Holdings, Counts, ReadsStayInside, sinkVars, chartVars
<1> QED BY <1>1, <1>2, <1>3 DEF FrameInv

LEMMA LockFrameInv ==
  ASSUME FrameInv, Lock
  PROVE  FrameInv'
<1> DEFINE s == Next1.sink
<1>1. /\ todo # <<>> /\ Next1.call = "lock"
      /\ UNCHANGED <<sinkVars, chartVars, drawing, loaded, counted, events>>
  BY DEF Lock, Pending
<1>2. s \in Sinks /\ \A t : Next1 = Call("lock", t) => s = t
  BY <1>1, CallOfScript DEF FrameInv
<1> HIDE DEF s
<1>3. Holdings'
  BY <1>1 DEF FrameInv, Holdings, chartVars
<1>4. CASE s \in uiLocks
  <2>1. ub' = "relock" /\ UNCHANGED <<uiLocks, todo>>
    BY <1>4 DEF Lock, s
  <2>2. TypeOK'
    BY <1>1, <2>1 DEF FrameInv, TypeOK, sinkVars, chartVars
  <2>3. Counts' /\ Scripts(todo, uiLocks)'
    BY <1>1, <2>1 DEF FrameInv, Counts, ReadsStayInside, sinkVars
  <2> QED BY <1>3, <2>2, <2>3 DEF FrameInv
<1>5. CASE s \notin uiLocks
  <2>1. uiLocks' = uiLocks \union {s} /\ Done /\ ub' = ub
    BY <1>5 DEF Lock, s
  <2>2. TypeOK'
    BY <1>1, <1>2, <2>1 DEF FrameInv, TypeOK, sinkVars, chartVars
  <2>3. Counts'
    <3>1. counted[s] = 0 /\ size[s] \in Nat
      BY <1>2, <1>5 DEF FrameInv, Counts, TypeOK
    <3> QED BY <1>1, <2>1, <3>1 DEF FrameInv, Counts, ReadsStayInside, sinkVars
  <2>4. Scripts(todo, uiLocks)'
    <3>1. \A t \in Sinks : todo[1][1] = Call("lock", t) => t \in uiLocks'
      BY <1>2, <2>1 DEF Next1
    <3>2. uiLocks \subseteq uiLocks'
      BY <2>1
    <3>3. Scripts(Script(Tail(todo[1]), Tail(todo)), uiLocks')
      BY <1>1, <3>1, <3>2, ScriptDone DEF FrameInv
    <3> QED BY <2>1, <3>3 DEF Done
  <2> QED BY <1>3, <2>2, <2>3, <2>4 DEF FrameInv
<1> QED BY <1>4, <1>5

LEMMA UnlockFrameInv ==
  ASSUME FrameInv, Unlock
  PROVE  FrameInv'
<1> DEFINE s == Next1.sink
<1>1. /\ todo # <<>> /\ Next1.call = "unlock"
      /\ uiLocks' = uiLocks \ {s} /\ counted' = [counted EXCEPT ![s] = 0] /\ Done
      /\ UNCHANGED <<sinkVars, chartVars, drawing, loaded, ub, events>>
  BY DEF Unlock, Pending
<1>2. s \in Sinks
  BY <1>1, CallOfScript DEF FrameInv
<1> HIDE DEF s
<1>3. Holdings'
  BY <1>1 DEF FrameInv, Holdings, chartVars
<1>4. TypeOK'
  BY <1>1, <1>2 DEF FrameInv, TypeOK, sinkVars, chartVars
<1>5. Counts'
  <2>1. counted \in [Sinks -> Nat] /\ size \in [Sinks -> Nat] /\ uiLocks \subseteq Sinks
    BY DEF FrameInv, TypeOK
  <2> QED BY <1>1, <2>1 DEF FrameInv, Counts, ReadsStayInside, sinkVars
<1>6. Scripts(todo, uiLocks)'
  <2>1. todo[1][1].call = "unlock" /\ \A t \in Sinks : todo[1][1] # Call("lock", t)
    BY <1>1 DEF Next1, Call
  <2>2. Scripts(Script(Tail(todo[1]), Tail(todo)), uiLocks')
    BY <1>1, <2>1, ScriptDone DEF FrameInv
  <2> QED BY <1>1, <2>2 DEF Done
<1> QED BY <1>3, <1>4, <1>5, <1>6 DEF FrameInv

\* A request that resizes is for a block whose guard the UI does not hold.
LEMMA RequestFrameInv ==
  ASSUME FrameInv, RequestCapacity
  PROVE  FrameInv'
<1> DEFINE s == Next1.sink
           r == [requests[s] EXCEPT ![drawing] = history[drawing]]
           n == Demanded(r)
<1>1. /\ todo # <<>> /\ Next1.call = "request" /\ phase' = phase /\ registry' = registry
      /\ UNCHANGED <<chartVars, drawing, counted, uiLocks, events>>
  BY DEF RequestCapacity, Pending, sinkVars
<1>2. s \in Sinks
  BY <1>1, CallOfScript DEF FrameInv
<1>3. Holdings'
  BY <1>1 DEF FrameInv, Holdings, chartVars
<1>4. CASE s \in uiLocks
  <2>1. ub' = "relock" /\ UNCHANGED <<sinkVars, todo, loaded>>
    BY <1>4 DEF RequestCapacity
  <2>2. TypeOK'
    BY <1>1, <2>1 DEF FrameInv, TypeOK, sinkVars, chartVars
  <2>3. Counts' /\ Scripts(todo, uiLocks)'
    BY <1>1, <2>1 DEF FrameInv, Counts, ReadsStayInside, sinkVars
  <2> QED BY <1>3, <2>2, <2>3 DEF FrameInv
<1>5. CASE s \notin uiLocks
  <2>1. r \in [Charts -> Nat]
    BY <1>2 DEF FrameInv, TypeOK
  <2>2. n \in Nat
    BY <2>1, DemandedIsNumber
  <2>3. /\ requests' = [requests EXCEPT ![s] = r] /\ loaded' = "no" /\ Done /\ ub' = ub
        /\ \/ UNCHANGED <<required, capacity, size>>
           \/ /\ required' = [required EXCEPT ![s] = n]
              /\ capacity' = [capacity EXCEPT ![s] = n]
              /\ size' = [size EXCEPT ![s] = Min2(@, n)]
    BY <1>5 DEF RequestCapacity, Resize
  <2> DEFINE m == Min2(size[s], n)
  <2> HIDE DEF r, n, s
  <2>4. m \in Nat /\ size[s] \in Nat /\ (size[s] = 0 => m = 0)
    BY <1>2, <2>2 DEF Min2, FrameInv, TypeOK
  <2>5. \/ UNCHANGED <<required, capacity, size>>
        \/ /\ required' = [required EXCEPT ![s] = n]
           /\ capacity' = [capacity EXCEPT ![s] = n]
           /\ size' = [size EXCEPT ![s] = m]
    BY <2>3
  <2> HIDE DEF m
  <2>6. TypeOK'
    <3>1. /\ required' \in [Sinks -> Nat] /\ capacity' \in [Sinks -> Nat]
          /\ size' \in [Sinks -> Nat] /\ requests' \in [Sinks -> [Charts -> Nat]]
      BY <1>2, <2>1, <2>2, <2>3, <2>4, <2>5 DEF FrameInv, TypeOK
    <3> QED BY <1>1, <2>3, <3>1 DEF FrameInv, TypeOK, chartVars
  <2>7. Counts'
    <3>1. \A t \in Sinks : t # s => size'[t] = size[t]
      BY <2>5 DEF FrameInv, TypeOK
    <3>2. size[s] = 0 => size'[s] = 0
      BY <1>2, <2>4, <2>5 DEF FrameInv, TypeOK
    <3>3. \A t \in uiLocks : t \in Sinks /\ t # s
      BY <1>5 DEF FrameInv, TypeOK
    <3> QED BY <1>1, <3>1, <3>2, <3>3 DEF FrameInv, Counts, ReadsStayInside
  <2>8. Scripts(todo, uiLocks)'
    <3>1. \A t \in Sinks : todo[1][1] # Call("lock", t)
      BY <1>1 DEF Next1, Call
    <3>2. Scripts(Script(Tail(todo[1]), Tail(todo)), uiLocks)
      BY <1>1, <3>1, ScriptDone DEF FrameInv
    <3> QED BY <1>1, <2>3, <3>2 DEF Done
  <2> QED BY <1>3, <2>6, <2>7, <2>8 DEF FrameInv
<1> QED BY <1>4, <1>5

\* Samples are counted under the guard of their sink.
LEMMA CountFrameInv ==
  ASSUME FrameInv, CountSamples
  PROVE  FrameInv'
<1> DEFINE s == Next1.sink
<1>1. /\ todo # <<>> /\ Next1.call = "size"
      /\ counted' = [counted EXCEPT ![s] = size[s]] /\ loaded' = "no" /\ Done
      /\ UNCHANGED <<sinkVars, chartVars, drawing, uiLocks, ub, events>>
  BY DEF CountSamples, Pending
<1>2. s \in Sinks /\ s \in uiLocks
  BY <1>1, CallOfScript DEF FrameInv
<1>3. Scripts(todo, uiLocks)'
  <2>1. \A t \in Sinks : todo[1][1] # Call("lock", t)
    BY <1>1 DEF Next1, Call
  <2>2. Scripts(Script(Tail(todo[1]), Tail(todo)), uiLocks)
    BY <1>1, <2>1, ScriptDone DEF FrameInv
  <2> QED BY <1>1, <2>2 DEF Done
<1> HIDE DEF s
<1>4. TypeOK' /\ Holdings'
  BY <1>1, <1>2 DEF FrameInv, TypeOK, Holdings, sinkVars, chartVars
<1>5. Counts'
  <2>1. counted \in [Sinks -> Nat] /\ size \in [Sinks -> Nat] /\ uiLocks \subseteq Sinks
    BY DEF FrameInv, TypeOK
  <2>2. counted'[s] <= size[s]
    BY <1>1, <1>2, <2>1
  <2> QED BY <1>1, <1>2, <2>1, <2>2 DEF FrameInv, Counts, ReadsStayInside, sinkVars
<1> QED BY <1>3, <1>4, <1>5 DEF FrameInv

LEMMA ProbeFrameInv ==
  ASSUME FrameInv, Probe
  PROVE  FrameInv'
<1>1. /\ todo # <<>> /\ Next1.call = "probe" /\ loaded' = "no"
      /\ UNCHANGED <<sinkVars, chartVars, drawing, counted, uiLocks, ub, events>>
  BY DEF Probe, Pending
<1>2. Done \/ todo' = <<Interact \o <<Call("unlock", Next1.sink)>>>>
  BY Zenon DEF Probe
<1>3. CASE Done
  BY <1>1, <1>3, CallWrites
<1>4. CASE todo' = <<Interact \o <<Call("unlock", Next1.sink)>>>>
  <2> DEFINE u == Call("unlock", Next1.sink)
             q == Interact \o <<u>>
  <2>1. Next1.sink \in Sinks
    BY <1>1, CallOfScript DEF FrameInv
  <2>2. u \in Calls /\ u.call # "size"
    BY <2>1, CallTypes
  <2>3. /\ Interact \in Seq(Calls) /\ Interact # <<>>
        /\ Guarding(Interact, uiLocks)
    BY <2>1, CallTypes, QuietIsGuarding
  <2> HIDE DEF u
  <2>4. <<u>> \in Seq(Calls) /\ Len(<<u>>) = 1 /\ \A i \in 1..Len(<<u>>) : <<u>>[i].call # "size"
    BY <2>2
  <2>5. q \in Seq(Calls) /\ Guarding(q, uiLocks) /\ q # <<>>
    <3> DEFINE v == <<u>>
    <3>1. v \in Seq(Calls) /\ Len(v) >= 1 /\ \A i \in 1..Len(v) : v[i].call # "size"
      BY <2>4
    <3> HIDE DEF v
    <3>2. Interact \o v \in Seq(Calls) /\ Guarding(Interact \o v, uiLocks)
      BY <2>3, <3>1, Appended
    <3>3. Interact \o v # <<>>
      BY <2>3, <3>1, NotEmpty
    <3> QED BY <3>2, <3>3 DEF v
  <2> HIDE DEF q
  <2>6. Scripts(Script(q, <<>>), uiLocks)
    BY <2>5, NoScripts, Scripted
  <2>7. Script(q, <<>>) = <<q>>
    BY <2>5 DEF Script
  <2>8. Scripts(todo, uiLocks)'
    BY <1>1, <1>4, <2>6, <2>7 DEF q, u
  <2>9. TypeOK' /\ Holdings' /\ Counts'
    BY <1>1 DEF FrameInv, TypeOK, Holdings, Counts, ReadsStayInside, sinkVars, chartVars
  <2> QED BY <2>8, <2>9 DEF FrameInv
<1> QED BY <1>2, <1>3, <1>4

LEMMA UIFrameInv ==
  ASSUME FrameInv, UICall
  PROVE  FrameInv'
<1>1. CASE Lock
  BY <1>1, LockFrameInv
<1>2. CASE Unlock
  BY <1>2, UnlockFrameInv
<1>3. CASE Ignore
  BY <1>3, CallWrites DEF Ignore, Pending, FrameInv, TypeOK
<1>4. CASE LoadBlock \/ Dangle
  <2>1. /\ UNCHANGED <<sinkVars, chartVars, drawing, todo, counted, uiLocks, events>>
        /\ loaded' \in {"no", "null", "block"} /\ ub' \in {"none", "dangling", "relock"}
    BY <1>4 DEF LoadBlock, Dangle, FrameInv, TypeOK, frameVars
  <2> QED BY <2>1 DEF FrameInv, TypeOK, Holdings, Counts, ReadsStayInside, sinkVars, chartVars
<1>5. CASE NoBlock
  BY <1>5, CallWrites DEF NoBlock, AdapterCall, Pending
<1>6. CASE RequestCapacity
  BY <1>6, RequestFrameInv
<1>7. CASE CountSamples
  BY <1>7, CountFrameInv
<1>8. CASE Probe
  BY <1>8, ProbeFrameInv
<1>9. CASE ReadSamples
  BY <1>9, CallWrites DEF ReadSamples, Pending
<1> QED BY <1>1, <1>2, <1>3, <1>4, <1>5, <1>6, <1>7, <1>8, <1>9 DEF UICall

\* A dropped signal: the requests for it come before the rest of the script.
LEMMA DropFrameInv ==
  ASSUME FrameInv, NEW s \in Sinks, Drop(s)
  PROVE  FrameInv'
<1> DEFINE c     == drawing
           isNew == Name[s] \notin ToSet(dataSinks[c])
           names == IF isNew THEN Append(dataSinks[c], Name[s]) ELSE dataSinks[c]
           first(synced) == IF isNew THEN RequestsFor(synced) ELSE <<>>
           added(synced) == IF s \in ToSet(synced) THEN <<>> ELSE <<s>>
<1>1. /\ todo # <<>> /\ Next1.call = "interact" /\ CountEvent
      /\ dataSinks' = [dataSinks EXCEPT ![c] = names]
      /\ UNCHANGED <<sinkVars, window, history, drawing, loaded, counted, uiLocks, ub>>
  BY DEF Drop, Pending
<1>2. PICK synced \in IF isNew THEN SyncSinksFromNames(signalSinks[c], names)
                               ELSE {signalSinks[c]} :
        /\ signalSinks' = [signalSinks EXCEPT ![c] = synced \o added(synced)]
        /\ todo' = Script(first(synced) \o RequestsFor(added(synced)) \o Tail(todo[1]), Tail(todo))
  BY Zenon DEF Drop
<1>3. c \in Charts /\ dataSinks[c] \in Seq(Names) /\ signalSinks[c] \in Seq(Sinks)
  BY DEF FrameInv, TypeOK, Holdings
<1>4. names \in Seq(Names)
  <2>1. Name[s] \in Names
    BY DEF Names
  <2> QED BY <1>3, <2>1
<1> HIDE DEF isNew, names, c
<1>5. synced \in Seq(Sinks)
  <2>1. CASE isNew
    BY <1>2, <1>3, <1>4, <2>1, Synced DEF FrameInv, TypeOK
  <2>2. CASE ~isNew
    BY <1>2, <1>3, <2>2
  <2> QED BY <2>1, <2>2
<1> DEFINE more == added(synced)  q1 == first(synced)  q2 == RequestsFor(more)
<1>6. more \in Seq(Sinks)
  OBVIOUS
<1>7. Holdings'
  <2> HIDE DEF more
  <2>1. synced \o more \in Seq(Sinks)
    BY <1>5, <1>6
  <2> QED BY <1>1, <1>2, <1>3, <1>4, <2>1, HoldingsChanged DEF FrameInv, more
<1>8. q1 \in Seq(Calls) /\ \A i \in 1..Len(q1) : q1[i].call \notin {"size", "unlock"}
  <2>1. CASE isNew
    BY <1>5, <2>1, Requested
  <2>2. CASE ~isNew
    BY <2>2
  <2> QED BY <2>1, <2>2
<1>9. q2 \in Seq(Calls) /\ \A i \in 1..Len(q2) : q2[i].call \notin {"size", "unlock"}
  <2> HIDE DEF more
  <2> QED BY <1>6, Requested
<1> DEFINE r == Tail(todo[1])
<1>10. r \in Seq(Calls) /\ Guarding(r, uiLocks) /\ Scripts(Tail(todo), {})
  <2>1. \A t \in Sinks : todo[1][1] # Call("lock", t)
    BY <1>1 DEF Next1, Call
  <2> QED BY <1>1, <2>1, CallDone DEF FrameInv
<1>11. todo' = Script(q1 \o q2 \o r, Tail(todo))
  BY <1>2
<1> HIDE DEF q1, q2, r
<1>12. q1 \o q2 \in Seq(Calls) /\ \A i \in 1..Len(q1 \o q2) : (q1 \o q2)[i].call \notin {"size", "unlock"}
  BY <1>8, <1>9, QuietBoth
<1>13. (q1 \o q2) \o r \in Seq(Calls) /\ Guarding((q1 \o q2) \o r, uiLocks)
  BY <1>10, <1>12, Prepended
<1>14. Scripts(todo, uiLocks)'
  <2>1. Scripts(Script((q1 \o q2) \o r, Tail(todo)), uiLocks)
    BY <1>10, <1>13, Scripted
  <2> QED BY <1>1, <1>11, <2>1
<1>15. /\ window' \in [Charts -> {"new", "open", "closed"}]
       /\ history' \in [Charts -> Nat] /\ drawing' \in Charts /\ events' \in 0..MaxEvents
  BY <1>1, SinkAssumption DEF FrameInv, TypeOK, CountEvent
<1> QED BY <1>1, <1>7, <1>14, <1>15, ChartWrites

LEMMA NextFrameInv == FrameInv /\ [Next]_vars => FrameInv'
<1> SUFFICES ASSUME FrameInv, [Next]_vars PROVE FrameInv'
  OBVIOUS
<1>1. ASSUME NEW s \in Sinks, GraphStep(s) PROVE FrameInv'
  BY <1>1, GraphFrameInv
<1>2. ASSUME NEW s \in Sinks, Drop(s) PROVE FrameInv'
  BY <1>2, DropFrameInv
<1>3. ASSUME NEW c \in Charts, ChartStep(c) PROVE FrameInv'
  BY <1>3, ChartFrameInv
<1>4. CASE UICall
  BY <1>4, UIFrameInv
<1>5. CASE UNCHANGED vars
  BY <1>5 DEF FrameInv, TypeOK, Holdings, Counts, ReadsStayInside, vars, sinkVars,
              chartVars, frameVars
<1> QED BY <1>1, <1>2, <1>3, <1>4, <1>5 DEF Next

LEMMA FrameInvariance == Spec => []FrameInv
  BY InitFrameInv, NextFrameInv, PTL DEF Spec

-----------------------------------------------------------------------------
\* The state of blocks, charts and frames keeps its types, whatever the charts and
\* the threads of the graphs do: what a chart looks up, keeps and takes over are
\* sinks and names, and its requests give numbers (Chart.hpp:1151-1211).
THEOREM PlotSinkTypes == Spec => []TypeOK
<1>1. FrameInv => TypeOK
  BY DEF FrameInv
<1> QED BY <1>1, FrameInvariance, PTL

\* What a chart has counted under a guard is still there when it reads it: the
\* scripts count under the guard of each sink and give it back last, and no
\* block resizes its buffers without it (ImPlotSink.hpp:158-165, 350-366).
THEOREM ReadsAreInside == Spec => []ReadsStayInside
<1>1. FrameInv => ReadsStayInside
  BY DEF FrameInv, Counts
<1> QED BY <1>1, FrameInvariance, PTL

=============================================================================
