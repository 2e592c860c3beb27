----------------------------- MODULE EventProofs -----------------------------
(***************************************************************************)
(* Proofs about services that handle a thing once, or up to a limit, for   *)
(* any number of events, threads, passes, instances and requests: the      *)
(* client's events and their ingestion, Slack's events, the feeders'       *)
(* items, the instances and requests that are let in, and the codes that   *)
(* are good for one use.                                                   *)
(***************************************************************************)
EXTENDS EventPipeline, SlackEvents, Feeders, Admission, Invites, SumLemmas

-----------------------------------------------------------------------------
(* The event pipeline. *)

\* The members of a sequence.
Elems(q) == {q[i] : i \in 1 .. Len(q)}

\* None of them is there twice.
Distinct(q) == \A i, j \in 1 .. Len(q) : q[i] = q[j] => i = j

\* The empty one.
LEMMA NoElems == Elems(<<>>) = {} /\ Distinct(<<>>)
BY DEF Elems, Distinct

\* One more.
LEMMA AppendElems ==
    ASSUME NEW E, NEW q \in Seq(E), NEW e \in E, Distinct(q), e \notin Elems(q)
    PROVE  /\ Append(q, e) \in Seq(E) /\ Len(Append(q, e)) = Len(q) + 1
           /\ Elems(Append(q, e)) = Elems(q) \cup {e} /\ Distinct(Append(q, e))
<1>1. PICK r : r = Append(q, e)
  OBVIOUS
<1>2. r \in Seq(E) /\ Len(r) = Len(q) + 1 /\ r[Len(q) + 1] = e
      /\ \A i \in 1 .. Len(q) : r[i] = q[i]
  BY <1>1
<1>3. Elems(r) = Elems(q) \cup {e}
  BY <1>2 DEF Elems
<1>4. Distinct(r)
  BY <1>2 DEF Distinct, Elems
<1> QED BY <1>1, <1>2, <1>3, <1>4

\* One less.
LEMMA TailElems ==
    ASSUME NEW E, NEW q \in Seq(E), q # <<>>, Distinct(q)
    PROVE  /\ Tail(q) \in Seq(E) /\ Len(Tail(q)) = Len(q) - 1
           /\ Head(q) \in Elems(q) /\ Head(q) \in E
           /\ Elems(Tail(q)) = Elems(q) \ {Head(q)} /\ Distinct(Tail(q))
<1>1. PICK r : r = Tail(q)
  OBVIOUS
<1>2. /\ r \in Seq(E) /\ Len(r) = Len(q) - 1 /\ Len(q) >= 1 /\ Len(q) \in Nat
      /\ Head(q) = q[1] /\ \A i \in 1 .. Len(r) : r[i] = q[i + 1]
  BY <1>1
<1>3. Distinct(r)
  BY <1>2 DEF Distinct
<1>4. Elems(r) = Elems(q) \ {q[1]}
  <2>1. ASSUME NEW i \in 1 .. Len(r) PROVE r[i] \in Elems(q) /\ r[i] # q[1]
    BY <1>2 DEF Elems, Distinct
  <2>2. ASSUME NEW i \in 1 .. Len(q), q[i] # q[1] PROVE q[i] \in Elems(r)
    <3>1. i - 1 \in 1 .. Len(r) /\ r[i - 1] = q[i]
      BY <1>2, <2>2
    <3> QED BY <3>1 DEF Elems
  <2> QED BY <2>1, <2>2 DEF Elems
<1>5. q[1] \in Elems(q) /\ q[1] \in E
  BY <1>2 DEF Elems
<1> QED BY <1>1, <1>2, <1>3, <1>4, <1>5

\* A sequence is cut in two.
SplitsAt(q, n, a, b) ==
    n \in 0 .. Len(q) /\ a = SubSeq(q, 1, n) /\ b = SubSeq(q, n + 1, Len(q))

\* Nothing is lost by it.
LEMMA SplitElems ==
    ASSUME NEW E, NEW q \in Seq(E), Distinct(q), NEW n, NEW a, NEW b, SplitsAt(q, n, a, b)
    PROVE  /\ a \in Seq(E) /\ b \in Seq(E) /\ Len(a) = n /\ Len(b) = Len(q) - n
           /\ Distinct(a) /\ Distinct(b)
           /\ Elems(a) \cup Elems(b) = Elems(q) /\ Elems(a) \cap Elems(b) = {}
<1>1. /\ Len(q) \in Nat /\ n \in Nat /\ n <= Len(q)
      /\ a \in Seq(E) /\ Len(a) = n /\ \A i \in 1 .. n : a[i] = q[i]
  BY DEF SplitsAt
<1>2. /\ b \in Seq(E) /\ Len(b) = Len(q) - n
      /\ \A i \in 1 .. Len(q) - n : b[i] = q[n + i]
  BY <1>1 DEF SplitsAt
<1>3. Distinct(a) /\ Distinct(b)
  <2>1. Distinct(a)
    BY <1>1 DEF Distinct
  <2>2. ASSUME NEW i \in 1 .. Len(b), NEW j \in 1 .. Len(b), b[i] = b[j] PROVE i = j
    <3>1. /\ n + i \in 1 .. Len(q) /\ n + j \in 1 .. Len(q)
          /\ q[n + i] = q[n + j] /\ i \in Nat /\ j \in Nat
      BY <1>1, <1>2, <2>2
    <3>2. n + i = n + j
      BY <3>1 DEF Distinct
    <3> QED BY <1>1, <3>1, <3>2
  <2>3. Distinct(b)
    BY <2>2 DEF Distinct
  <2> QED BY <2>1, <2>3
<1>4. Elems(a) \subseteq Elems(q) /\ Elems(b) \subseteq Elems(q)
  <2>1. ASSUME NEW i \in 1 .. Len(a) PROVE a[i] \in Elems(q)
    <3>1. i \in 1 .. Len(q) /\ a[i] = q[i]
      BY <1>1
    <3> QED BY <3>1 DEF Elems
  <2>2. ASSUME NEW i \in 1 .. Len(b) PROVE b[i] \in Elems(q)
    <3>1. n + i \in 1 .. Len(q) /\ b[i] = q[n + i]
      BY <1>1, <1>2
    <3> QED BY <3>1 DEF Elems
  <2> QED BY <2>1, <2>2 DEF Elems
<1>5. ASSUME NEW i \in 1 .. Len(q) PROVE q[i] \in Elems(a) \cup Elems(b)
  <2>1. CASE i <= n
    BY <1>1, <2>1 DEF Elems
  <2>2. CASE i > n
    <3>1. i - n \in 1 .. Len(b) /\ b[i - n] = q[i]
      BY <1>1, <1>2, <2>2
    <3> QED BY <3>1 DEF Elems
  <2> QED BY <1>1, <2>1, <2>2
<1>6. ASSUME NEW i \in 1 .. Len(a), NEW j \in 1 .. Len(b), a[i] = b[j] PROVE FALSE
  <2>1. i \in 1 .. Len(q) /\ n + j \in 1 .. Len(q) /\ q[i] = q[n + j] /\ i # n + j
    BY <1>1, <1>2, <1>6
  <2> QED BY <2>1 DEF Distinct
<1>7. Elems(a) \cap Elems(b) = {}
  BY <1>6 DEF Elems
<1>8. Elems(a) \cup Elems(b) = Elems(q)
  BY <1>4, <1>5 DEF Elems
<1> QED BY <1>1, <1>2, <1>3, <1>7, <1>8

-----------------------------------------------------------------------------
(* The invariant. *)

SenderRec == [phase : Phases, batch : Seq(Events), tries : 0 .. MaxRetries - 1, out : BOOLEAN]

\* The run's row.
RunRec == [there : BOOLEAN, cost : Nat]

\* Queue, rows and counters keep their types.
PipeRows ==
    /\ queue \in Seq(Events) /\ Len(queue) <= MaxQueue
    /\ stop \in BOOLEAN /\ overlap \in BOOLEAN
    /\ run \in RunRec
    /\ rows \in [Events -> Nat] /\ accepted \subseteq Events
    /\ pipeFaults \in 0 .. MaxPipeFaults

\* So do the client's threads.
SendersTyped == sender \in [Senders -> SenderRec]

\* A thread keeps to its own phases, and rests in some of them.
SoundSender(s, x) ==
    /\ Len(x.batch) <= BatchSize /\ Distinct(x.batch)
    /\ x.out => x.batch # <<>>
    /\ s = "loop" => x.phase \in {"ticking", "triggered", "last", "done"}
    /\ s = "main" => x.phase \in {"free", "flushing", "joining", "closing", "closed"}
    /\ x.phase \in {"done", "free", "joining", "closed"} => x.batch = <<>>

\* Each of them is sound.
SendersOK == \A s \in Senders : SoundSender(s, sender[s])

\* A thread that waits has one request, for the first event of its batch.
PostsOK ==
    /\ IsFiniteSet(post) /\ post \subseteq Post
    /\ \A p \in post : p.by # Gone =>
          /\ sender[p.by].out /\ p.event = Head(sender[p.by].batch)
          /\ p.tries = sender[p.by].tries
    /\ \A p, q \in post : p.by = q.by /\ p.by # Gone => p = q
    /\ \A s \in Senders : sender[s].out => \E p \in post : p.by = s

\* An event is in one place at most on its way to a request.
PlacesOK ==
    /\ Distinct(queue) /\ Elems(queue) \subseteq accepted
    /\ \A s \in Senders : /\ Elems(sender[s].batch) \subseteq accepted
                          /\ Elems(sender[s].batch) \cap Elems(queue) = {}
    /\ \A s, t \in Senders : s # t => Elems(sender[s].batch) \cap Elems(sender[t].batch) = {}
    /\ \A p \in post : p.event \in accepted
    /\ \A e \in Events : rows[e] # 0 => e \in accepted

\* Types, and where an event may be.
PipeBase == PipeRows /\ SendersTyped /\ SendersOK /\ PostsOK /\ PlacesOK

\* Events nobody has a request for yet.
Unsent(x) == IF x.out THEN Elems(x.batch) \ {Head(x.batch)} ELSE Elems(x.batch)

\* Events that wait in the queue or with a thread, not on the wire.
Waiting == Elems(queue) \cup Unsent(sender["loop"]) \cup Unsent(sender["main"])

-----------------------------------------------------------------------------
(* What a thread does with its batch. *)

\* A thread that goes on to its next event keeps the rest of its batch.
LEMMA NextEventIs ==
    ASSUME NEW s, NEW x \in SenderRec, SoundSender(s, x), x.out
    PROVE  /\ NextEvent(x) \in SenderRec /\ SoundSender(s, NextEvent(x))
           /\ NextEvent(x).out = FALSE /\ NextEvent(x).tries = 0
           /\ NextEvent(x).phase = x.phase
           /\ Elems(NextEvent(x).batch) = Elems(x.batch) \ {Head(x.batch)}
           /\ Head(x.batch) \in Elems(x.batch) /\ Head(x.batch) \in Events
<1>1. PICK y : y = NextEvent(x)
  OBVIOUS
<1>2. x.batch \in Seq(Events) /\ x.batch # <<>> /\ Distinct(x.batch) /\ Len(x.batch) \in Nat
  BY DEF SoundSender, SenderRec
<1>3. /\ Tail(x.batch) \in Seq(Events) /\ Len(Tail(x.batch)) = Len(x.batch) - 1
      /\ Head(x.batch) \in Elems(x.batch) /\ Head(x.batch) \in Events
      /\ Elems(Tail(x.batch)) = Elems(x.batch) \ {Head(x.batch)} /\ Distinct(Tail(x.batch))
  BY <1>2, TailElems
<1>4. 0 \in 0 .. MaxRetries - 1 /\ BatchSize \in Nat
  BY PipeAssumption
<1>5. /\ y \in SenderRec /\ y.out = FALSE /\ y.tries = 0 /\ y.phase = x.phase
      /\ y.batch = Tail(x.batch)
  BY <1>1, <1>3, <1>4 DEF NextEvent, SenderRec
<1>6. SoundSender(s, y)
  BY <1>2, <1>3, <1>4, <1>5 DEF SoundSender
<1> QED BY <1>1, <1>3, <1>5, <1>6

\* A thread that tries again, or gives up its event.
LEMMA RetriedIs ==
    ASSUME NEW s, NEW x \in SenderRec, SoundSender(s, x), x.out
    PROVE  /\ Retried(x) \in SenderRec /\ SoundSender(s, Retried(x))
           /\ Retried(x).out = FALSE /\ Retried(x).phase = x.phase
           /\ \/ /\ Elems(Retried(x).batch) = Elems(x.batch)
                 /\ Retried(x).tries = x.tries + 1
              \/ /\ Elems(Retried(x).batch) = Elems(x.batch) \ {Head(x.batch)}
                 /\ Retried(x).tries = 0 /\ x.tries + 1 >= MaxRetries
           /\ Head(x.batch) \in Elems(x.batch) /\ Head(x.batch) \in Events
<1>0. x.tries \in Nat /\ MaxRetries \in Nat
  BY PipeAssumption DEF SenderRec
<1>1. CASE x.tries + 1 < MaxRetries
  <2>1. PICK y : y = [x EXCEPT !.tries = @ + 1, !.out = FALSE]
    OBVIOUS
  <2>2. x.tries + 1 \in 0 .. MaxRetries - 1
    BY <1>0, <1>1
  <2>3. /\ y \in SenderRec /\ y.out = FALSE /\ y.tries = x.tries + 1 /\ y.phase = x.phase
        /\ y.batch = x.batch
    BY <2>1, <2>2 DEF SenderRec
  <2>4. SoundSender(s, y)
    BY <2>3 DEF SoundSender
  <2>5. Retried(x) = y
    BY <1>1, <2>1 DEF Retried
  <2>6. Head(x.batch) \in Elems(x.batch) /\ Head(x.batch) \in Events
    BY NextEventIs
  <2> QED BY <2>3, <2>4, <2>5, <2>6
<1>2. CASE ~ (x.tries + 1 < MaxRetries)
  <2>1. Retried(x) = NextEvent(x)
    BY <1>2 DEF Retried
  <2>2. x.tries + 1 >= MaxRetries
    BY <1>0, <1>2
  <2> QED BY <2>1, <2>2, NextEventIs
<1> QED BY <1>1, <1>2

-----------------------------------------------------------------------------
(* The steps: where the events go. *)

\* The invariant, for one thread.
LEMMA SenderFacts ==
    ASSUME PipeBase, NEW s \in Senders
    PROVE  /\ sender[s] \in SenderRec /\ SoundSender(s, sender[s])
           /\ sender[s].batch \in Seq(Events) /\ Len(sender[s].batch) \in Nat
           /\ sender[s].out \in BOOLEAN
           /\ Resting(s) => ~sender[s].out /\ Elems(sender[s].batch) = {} /\ Unsent(sender[s]) = {}
<1>1. sender[s] \in SenderRec /\ SoundSender(s, sender[s])
  BY DEF PipeBase, SendersTyped, SendersOK
<1>2. ASSUME Resting(s)
      PROVE  ~sender[s].out /\ Elems(sender[s].batch) = {} /\ Unsent(sender[s]) = {}
  BY <1>1, <1>2, NoElems DEF Resting, SoundSender, Unsent
<1> QED BY <1>1, <1>2 DEF SenderRec

\* One thread changes.
LEMMA OneSender ==
    ASSUME PipeBase, NEW s \in Senders, NEW y \in SenderRec, SoundSender(s, y),
           sender' = [sender EXCEPT ![s] = y]
    PROVE  /\ SendersTyped' /\ SendersOK' /\ sender'[s] = y
           /\ \A t \in Senders : t # s => sender'[t] = sender[t]
<1>1. /\ sender'[s] = y /\ \A t \in Senders : t # s => sender'[t] = sender[t]
  BY DEF PipeBase, SendersTyped
<1>2. SendersTyped'
  BY DEF PipeBase, SendersTyped
<1>3. SendersOK'
  BY <1>1 DEF PipeBase, SendersOK
<1> QED BY <1>1, <1>2, <1>3

\* Requests stay with those who wait for them.
LEMMA PostsStay ==
    ASSUME PipeBase, post' = post, NEW s \in Senders, ~sender[s].out, ~sender'[s].out,
           \A t \in Senders : t # s => sender'[t] = sender[t]
    PROVE  PostsOK'
<1>1. \A p \in post : p.by \in Senders \cup {Gone}
  BY DEF PipeBase, PostsOK, Post
<1>2. ASSUME NEW p \in post, p.by # Gone PROVE p.by \in Senders /\ sender'[p.by] = sender[p.by]
  BY <1>1, <1>2 DEF PipeBase, PostsOK
<1>3. \A t \in Senders : sender'[t].out => sender[t].out
  OBVIOUS
<1> QED BY <1>2, <1>3 DEF PipeBase, PostsOK

\* An event is emitted.
LEMMA EmitBase ==
    ASSUME PipeBase, NEW e \in Events, Emit(e)
    PROVE  PipeBase' /\ Waiting' = Waiting \cup {e}
<1>0. /\ PipeRows /\ PlacesOK /\ queue \in Seq(Events) /\ e \notin accepted /\ Distinct(queue)
      /\ e \notin Elems(queue)
  BY DEF PipeBase, PipeRows, PlacesOK, Emit
<1>1. /\ queue' \in Seq(Events) /\ Len(queue') = Len(queue) + 1
      /\ Elems(queue') = Elems(queue) \cup {e} /\ Distinct(queue')
  BY <1>0, AppendElems DEF Emit
<1>2. PipeRows'
  <2>1. Len(queue) \in Nat /\ MaxQueue \in Nat
    BY <1>0, PipeAssumption
  <2> QED BY <1>0, <1>1, <2>1 DEF PipeRows, Emit
<1>3. PlacesOK'
  <2>1. /\ sender' = sender /\ post' = post /\ rows' = rows /\ accepted' = accepted \cup {e}
    BY DEF Emit
  <2>2. \A s \in Senders : Elems(sender[s].batch) \cap Elems(queue') = {}
    BY <1>0, <1>1 DEF PlacesOK
  <2>3. Distinct(queue') /\ Elems(queue') \subseteq accepted'
    BY <1>0, <1>1, <2>1 DEF PlacesOK
  <2> QED BY <1>0, <2>1, <2>2, <2>3 DEF PlacesOK
<1>4. SendersTyped' /\ SendersOK' /\ PostsOK'
  BY DEF PipeBase, SendersTyped, SendersOK, PostsOK, Emit
<1>5. Waiting' = Waiting \cup {e}
  BY <1>1 DEF Waiting, Emit
<1> QED BY <1>2, <1>3, <1>4, <1>5 DEF PipeBase

\* A batch is taken from the queue: no event changes its place.
LEMMA DrainsBase ==
    ASSUME PipeBase, NEW s \in Senders, NEW phase \in Phases, Drains(s, phase),
           s = "loop" => phase \in {"ticking", "triggered", "last"},
           s = "main" => phase \in {"flushing", "closing"}
    PROVE  PipeBase' /\ Waiting' = Waiting
<1>a. PICK n : n = Smaller(BatchSize, Len(queue))
  OBVIOUS
<1>b. PICK a : a = SubSeq(queue, 1, n)
  OBVIOUS
<1>c. PICK b : b = SubSeq(queue, n + 1, Len(queue))
  OBVIOUS
<1> DEFINE y == [phase |-> phase, tries |-> 0, out |-> FALSE, batch |-> a]
<1>0. /\ PipeRows /\ PlacesOK /\ queue \in Seq(Events) /\ Distinct(queue) /\ Len(queue) \in Nat
      /\ MaxQueue \in Nat /\ MaxRetries \in Nat \ {0} /\ BatchSize \in Nat
  <2>1. /\ PipeRows /\ PlacesOK /\ queue \in Seq(Events) /\ Distinct(queue)
    BY DEF PipeBase, PipeRows, PlacesOK
  <2>2. MaxQueue \in Nat /\ MaxRetries \in Nat \ {0} /\ BatchSize \in Nat
    BY PipeAssumption
  <2> QED BY <2>1, <2>2
<1>1. n \in 0 .. Len(queue) /\ n <= BatchSize
  BY <1>0, <1>a DEF Smaller
<1>2. /\ a \in Seq(Events) /\ b \in Seq(Events) /\ Len(a) = n /\ Len(b) = Len(queue) - n
      /\ Distinct(a) /\ Distinct(b)
      /\ Elems(a) \cup Elems(b) = Elems(queue) /\ Elems(a) \cap Elems(b) = {}
  <2>1. SplitsAt(queue, n, a, b)
    BY <1>1, <1>b, <1>c DEF SplitsAt
  <2> QED BY <1>0, <2>1, SplitElems
<1>3. /\ Resting(s) /\ queue' = b /\ sender' = [sender EXCEPT ![s] = y]
      /\ UNCHANGED <<stop, post, run, rows, accepted, overlap, pipeFaults>>
  BY <1>a, <1>b, <1>c DEF Drains
<1>4. y \in SenderRec /\ y.batch = a /\ y.out = FALSE /\ y.phase = phase
  <2>1. 0 \in 0 .. MaxRetries - 1
    BY <1>0
  <2> QED BY <1>2, <2>1 DEF SenderRec
<1>5. SoundSender(s, y)
  <2>1. s \in {"loop", "main"} /\ Len(y.batch) <= BatchSize
    BY <1>1, <1>2, <1>4 DEF Senders
  <2>2. phase \notin {"done", "free", "joining", "closed"}
    BY <2>1
  <2> QED BY <2>1, <2>2, <1>2, <1>4 DEF SoundSender
<1> HIDE DEF y
<1>6. /\ SendersTyped' /\ SendersOK' /\ sender'[s] = y
      /\ \A t \in Senders : t # s => sender'[t] = sender[t]
  BY <1>3, <1>4, <1>5, OneSender
<1>7. ~sender[s].out /\ Elems(sender[s].batch) = {} /\ Unsent(sender[s]) = {}
  BY <1>3, SenderFacts
<1>8. PostsOK'
  BY <1>3, <1>4, <1>6, <1>7, PostsStay
<1>9. PipeRows'
  BY <1>0, <1>1, <1>2, <1>3 DEF PipeRows
<1>10. PlacesOK'
  <2>1. Distinct(queue') /\ Elems(queue') \subseteq accepted
    BY <1>0, <1>2, <1>3 DEF PlacesOK
  <2>2. ASSUME NEW t \in Senders
        PROVE  /\ Elems(sender'[t].batch) \subseteq accepted
               /\ Elems(sender'[t].batch) \cap Elems(queue') = {}
    <3>1. CASE t = s
      BY <3>1, <1>0, <1>2, <1>3, <1>4, <1>6 DEF PlacesOK
    <3>2. CASE t # s
      BY <3>2, <1>0, <1>2, <1>3, <1>6 DEF PlacesOK
    <3> QED BY <3>1, <3>2
  <2>3. ASSUME NEW t \in Senders, NEW u \in Senders, t # u
        PROVE  Elems(sender'[t].batch) \cap Elems(sender'[u].batch) = {}
    <3>1. CASE t = s
      BY <2>3, <3>1, <1>0, <1>2, <1>4, <1>6 DEF PlacesOK
    <3>2. CASE u = s
      BY <2>3, <3>2, <1>0, <1>2, <1>4, <1>6 DEF PlacesOK
    <3>3. CASE t # s /\ u # s
      BY <2>3, <3>3, <1>0, <1>6 DEF PlacesOK
    <3> QED BY <3>1, <3>2, <3>3
  <2> QED BY <2>1, <2>2, <2>3, <1>0, <1>3 DEF PlacesOK
<1>11. Waiting' = Waiting
  <2>1. Unsent(sender'[s]) = Elems(a)
    BY <1>4, <1>6 DEF Unsent
  <2>2. \A t \in Senders : t # s => Unsent(sender'[t]) = Unsent(sender[t])
    BY <1>6
  <2>3. "loop" \in Senders /\ "main" \in Senders /\ "loop" # "main" /\ s \in {"loop", "main"}
    BY DEF Senders
  <2>4. CASE s = "loop"
    BY <2>1, <2>2, <2>3, <2>4, <1>2, <1>3, <1>7 DEF Waiting
  <2>5. CASE s = "main"
    BY <2>1, <2>2, <2>3, <2>5, <1>2, <1>3, <1>7 DEF Waiting
  <2> QED BY <2>3, <2>4, <2>5
<1> QED BY <1>6, <1>8, <1>9, <1>10, <1>11 DEF PipeBase

\* A thread with nothing to send goes to another phase.
LEMMA MovesBase ==
    ASSUME PipeBase, NEW s \in Senders, NEW phase \in Phases, MovesTo(s, phase),
           stop' \in BOOLEAN, pipeFaults' \in 0 .. MaxPipeFaults,
           s = "loop" => phase \in {"ticking", "triggered", "last", "done"},
           s = "main" => phase \in {"free", "flushing", "joining", "closing", "closed"}
    PROVE  PipeBase' /\ Waiting' = Waiting
<1>0. /\ sender[s] \in SenderRec /\ SoundSender(s, sender[s]) /\ Resting(s)
      /\ ~sender[s].out
  BY SenderFacts DEF MovesTo
<1>1. PICK y : y = [sender[s] EXCEPT !.phase = phase]
  OBVIOUS
<1>2. y \in SenderRec /\ y.batch = sender[s].batch /\ y.out = sender[s].out /\ y.phase = phase
  BY <1>0, <1>1 DEF SenderRec
<1>3. SoundSender(s, y)
  BY <1>0, <1>2 DEF SoundSender, Resting
<1>4. sender' = [sender EXCEPT ![s] = y]
  BY <1>1 DEF MovesTo
<1>5. /\ SendersTyped' /\ SendersOK' /\ sender'[s] = y
      /\ \A t \in Senders : t # s => sender'[t] = sender[t]
  BY <1>2, <1>3, <1>4, OneSender
<1>6. PostsOK'
  BY <1>0, <1>2, <1>5, PostsStay DEF MovesTo
<1>7. \A t \in Senders : sender'[t].batch = sender[t].batch /\ Unsent(sender'[t]) = Unsent(sender[t])
  BY <1>2, <1>5 DEF Unsent
<1>8. PlacesOK'
  BY <1>7 DEF PipeBase, PlacesOK, MovesTo
<1>9. PipeRows'
  BY DEF PipeBase, PipeRows, MovesTo
<1>10. Waiting' = Waiting
  BY <1>7 DEF Waiting, Senders, MovesTo
<1> QED BY <1>5, <1>6, <1>8, <1>9, <1>10 DEF PipeBase

\* An answer, or the end of waiting for one: thread p.by goes on with y, and p is
\* no longer waited for.
LEMMA LeavesBase ==
    ASSUME PipeBase, NEW p \in post, p.by # Gone, NEW y \in SenderRec, SoundSender(p.by, y),
           y.out = FALSE, Elems(y.batch) \subseteq Elems(sender[p.by].batch),
           sender' = [sender EXCEPT ![p.by] = y], PipeRows',
           queue' = queue, accepted' = accepted,
           \A e \in Events : rows'[e] # 0 => rows[e] # 0 \/ e = p.event,
           IsFiniteSet(post'), post' \subseteq Post, post \ {p} \subseteq post',
           \A q \in post' : q \in post \ {p} \/ (q.by = Gone /\ q.event = p.event)
    PROVE  /\ PipeBase' /\ p.by \in Senders /\ p.event = Head(sender[p.by].batch)
           /\ sender[p.by] \in SenderRec /\ SoundSender(p.by, sender[p.by]) /\ sender[p.by].out
           /\ p.tries = sender[p.by].tries
           /\ sender'[p.by] = y /\ \A t \in Senders : t # p.by => sender'[t] = sender[t]
           /\ Elems(y.batch) = Elems(sender[p.by].batch) => Waiting' = Waiting \cup {p.event}
           /\ Elems(y.batch) = Elems(sender[p.by].batch) \ {p.event} => Waiting' = Waiting
<1>1. /\ p.by \in Senders /\ p.event = Head(sender[p.by].batch) /\ sender[p.by].out
      /\ p.tries = sender[p.by].tries /\ p.event \in Events /\ p.event \in accepted
  BY DEF PipeBase, PostsOK, PlacesOK, Post
<1>2. PICK s \in Senders : s = p.by
  BY <1>1
<1>3. sender[s] \in SenderRec /\ SoundSender(s, sender[s]) /\ sender[s].batch \in Seq(Events)
  BY SenderFacts
<1>4. /\ SendersTyped' /\ SendersOK' /\ sender'[s] = y
      /\ \A t \in Senders : t # s => sender'[t] = sender[t]
  BY <1>2, OneSender
<1>5. PostsOK'
  <2>1. ASSUME NEW q \in post', q.by # Gone
        PROVE  /\ q \in post /\ q # p /\ q.by # s /\ q.by \in Senders
               /\ sender'[q.by] = sender[q.by]
    <3>1. q \in post /\ q # p
      BY <2>1
    <3>2. q.by # s /\ q.by \in Senders
      BY <1>2, <2>1, <3>1 DEF PipeBase, PostsOK, Post
    <3> QED BY <3>1, <3>2, <1>4
  <2>2. ASSUME NEW t \in Senders, sender'[t].out PROVE \E q \in post' : q.by = t
    <3>1. t # s /\ sender[t].out
      BY <1>4, <2>2
    <3>2. PICK q \in post : q.by = t
      BY <3>1 DEF PipeBase, PostsOK
    <3> QED BY <1>2, <3>1, <3>2
  <2>3. \A q \in post' : q.by # Gone =>
          /\ sender'[q.by].out /\ q.event = Head(sender'[q.by].batch)
          /\ q.tries = sender'[q.by].tries
    BY <2>1 DEF PipeBase, PostsOK
  <2>4. \A q, r \in post' : q.by = r.by /\ q.by # Gone => q = r
    BY <2>1 DEF PipeBase, PostsOK
  <2> QED BY <2>2, <2>3, <2>4 DEF PostsOK
<1>6. PlacesOK'
  <2>0. PlacesOK
    BY DEF PipeBase
  <2>1. \A t \in Senders : Elems(sender'[t].batch) \subseteq Elems(sender[t].batch)
    BY <1>2, <1>4
  <2>2. \A q \in post' : q.event \in accepted
    BY <1>1, <2>0 DEF PlacesOK
  <2>3. \A e \in Events : rows'[e] # 0 => e \in accepted
    BY <1>1, <2>0 DEF PlacesOK
  <2>4. \A t \in Senders : /\ Elems(sender'[t].batch) \subseteq accepted
                           /\ Elems(sender'[t].batch) \cap Elems(queue) = {}
    BY <2>0, <2>1 DEF PlacesOK
  <2>5. \A t, u \in Senders : t # u => Elems(sender'[t].batch) \cap Elems(sender'[u].batch) = {}
    BY <2>0, <2>1 DEF PlacesOK
  <2> QED BY <2>0, <2>2, <2>3, <2>4, <2>5 DEF PlacesOK
<1>7. PipeBase'
  BY <1>4, <1>5, <1>6 DEF PipeBase
<1>8. /\ Unsent(sender'[s]) = Elems(y.batch)
      /\ Unsent(sender[s]) = Elems(sender[s].batch) \ {p.event}
      /\ \A t \in Senders : t # s => Unsent(sender'[t]) = Unsent(sender[t])
  BY <1>1, <1>2, <1>4 DEF Unsent
<1>9. "loop" \in Senders /\ "main" \in Senders /\ "loop" # "main" /\ s \in {"loop", "main"}
  BY DEF Senders
<1>10. p.event \in Elems(sender[s].batch)
  <2>1. sender[s].batch # <<>> /\ Distinct(sender[s].batch)
    BY <1>1, <1>2, <1>3 DEF SoundSender
  <2> QED BY <2>1, <1>1, <1>2, <1>3, TailElems
<1>11. ASSUME Elems(y.batch) = Elems(sender[s].batch) PROVE Waiting' = Waiting \cup {p.event}
  <2>1. Unsent(sender'[s]) = Unsent(sender[s]) \cup {p.event}
    BY <1>8, <1>10, <1>11
  <2>2. CASE s = "loop"
    BY <1>8, <1>9, <2>1, <2>2 DEF Waiting
  <2>3. CASE s = "main"
    BY <1>8, <1>9, <2>1, <2>3 DEF Waiting
  <2> QED BY <1>9, <2>2, <2>3
<1>12. ASSUME Elems(y.batch) = Elems(sender[s].batch) \ {p.event} PROVE Waiting' = Waiting
  <2>1. \A t \in Senders : Unsent(sender'[t]) = Unsent(sender[t])
    BY <1>8, <1>12
  <2> QED BY <1>9, <2>1 DEF Waiting
<1> QED BY <1>1, <1>2, <1>3, <1>4, <1>7, <1>11, <1>12

\* A request that nobody waits for ends.
LEMMA OrphanBase ==
    ASSUME PipeBase, NEW p \in post, p.by = Gone, post' = post \ {p}, sender' = sender, PipeRows',
           queue' = queue, accepted' = accepted,
           \A e \in Events : rows'[e] # 0 => rows[e] # 0 \/ e = p.event
    PROVE  PipeBase' /\ Waiting' = Waiting
<1>1. p.event \in accepted
  BY DEF PipeBase, PlacesOK
<1>2. PlacesOK'
  BY <1>1 DEF PipeBase, PlacesOK
<1>3. IsFiniteSet(post')
  BY FS_RemoveElement DEF PipeBase, PostsOK
<1>4. PostsOK'
  <2>1. \A t \in Senders : t # Gone
    BY DEF Senders, Gone
  <2>2. \A t \in Senders : sender'[t].out => \E q \in post' : q.by = t
    BY <2>1 DEF PipeBase, PostsOK
  <2>3. post' \subseteq post
    OBVIOUS
  <2> QED BY <1>3, <2>2, <2>3 DEF PipeBase, PostsOK
<1> QED BY <1>2, <1>4 DEF PipeBase, SendersTyped, SendersOK, Waiting

\* A request is sent.
LEMMA SendBase ==
    ASSUME PipeBase, NEW s \in Senders, Send(s)
    PROVE  /\ PipeBase'
           /\ \E p \in Post : /\ p \notin post /\ post' = post \cup {p} /\ p.read = FALSE
                              /\ p.by = s /\ p.tries = sender[s].tries
                              /\ p.event \in Waiting /\ Waiting' = Waiting \ {p.event}
           /\ sender'[s].tries = sender[s].tries /\ sender'[s].phase = sender[s].phase
           /\ sender'[s].batch = sender[s].batch
           /\ \A t \in Senders : t # s => sender'[t] = sender[t]
<1>0. /\ sender[s] \in SenderRec /\ SoundSender(s, sender[s]) /\ sender[s].batch \in Seq(Events)
      /\ sender[s].batch # <<>> /\ sender[s].out = FALSE /\ Distinct(sender[s].batch)
  <2>1. /\ sender[s] \in SenderRec /\ SoundSender(s, sender[s]) /\ sender[s].batch \in Seq(Events)
        /\ sender[s].out \in BOOLEAN
    BY SenderFacts
  <2> QED BY <2>1 DEF Send, Resting, SoundSender
<1>1. PICK y : y = [sender[s] EXCEPT !.out = TRUE]
  OBVIOUS
<1>2. /\ y \in SenderRec /\ y.batch = sender[s].batch /\ y.out = TRUE /\ y.phase = sender[s].phase
      /\ y.tries = sender[s].tries
  BY <1>0, <1>1 DEF SenderRec
<1>3. SoundSender(s, y)
  BY <1>0, <1>2 DEF SoundSender
<1>4. sender' = [sender EXCEPT ![s] = y]
  BY <1>1 DEF Send
<1>5. /\ SendersTyped' /\ SendersOK' /\ sender'[s] = y
      /\ \A t \in Senders : t # s => sender'[t] = sender[t]
  BY <1>2, <1>3, <1>4, OneSender
<1>6. PICK p : p = [by |-> s, event |-> Head(sender[s].batch),
                    tries |-> sender[s].tries, read |-> FALSE, seen |-> Absent]
  OBVIOUS
<1>7. Head(sender[s].batch) \in Elems(sender[s].batch) /\ Head(sender[s].batch) \in Events
  BY <1>0, TailElems
<1>8. /\ p \in Post /\ p.by = s /\ p.event = Head(sender[s].batch) /\ p.tries = sender[s].tries
      /\ p.read = FALSE
  BY <1>0, <1>6, <1>7 DEF Post, Absent, SenderRec
<1>9. post' = post \cup {p}
  BY <1>6 DEF Send
<1>10. s # Gone /\ \A q \in post : q.by # s
  <2>1. s # Gone
    BY DEF Senders, Gone
  <2> QED BY <1>0, <2>1 DEF PipeBase, PostsOK
<1>11. PostsOK'
  <2>1. IsFiniteSet(post')
    BY <1>9, FS_AddElement DEF PipeBase, PostsOK
  <2>2. post' \subseteq Post
    BY <1>8, <1>9 DEF PipeBase, PostsOK
  <2>3. ASSUME NEW q \in post', q.by # Gone
        PROVE  /\ sender'[q.by].out /\ q.event = Head(sender'[q.by].batch)
               /\ q.tries = sender'[q.by].tries
    <3>1. CASE q = p
      BY <3>1, <1>2, <1>5, <1>8
    <3>2. CASE q \in post
      <4>1. q.by \in Senders /\ q.by # s
        BY <1>10, <2>3, <3>2 DEF PipeBase, PostsOK, Post
      <4>2. sender'[q.by] = sender[q.by]
        BY <1>5, <4>1
      <4> QED BY <2>3, <3>2, <4>2 DEF PipeBase, PostsOK
    <3> QED BY <3>1, <3>2, <1>9
  <2>4. \A q, r \in post' : q.by = r.by /\ q.by # Gone => q = r
    BY <1>8, <1>9, <1>10 DEF PipeBase, PostsOK
  <2>5. ASSUME NEW t \in Senders, sender'[t].out PROVE \E q \in post' : q.by = t
    <3>1. CASE t = s
      BY <3>1, <1>8, <1>9
    <3>2. CASE t # s
      BY <3>2, <2>5, <1>5, <1>9 DEF PipeBase, PostsOK
    <3> QED BY <3>1, <3>2
  <2> QED BY <2>1, <2>2, <2>3, <2>4, <2>5 DEF PostsOK
<1>12. PipeRows'
  BY DEF PipeBase, PipeRows, Send
<1>13. \A t \in Senders : sender'[t].batch = sender[t].batch
  BY <1>2, <1>5
<1>14. PlacesOK'
  <2>1. PlacesOK /\ queue' = queue /\ rows' = rows /\ accepted' = accepted
    BY DEF PipeBase, Send
  <2>2. p.event \in accepted
    BY <2>1, <1>7, <1>8 DEF PlacesOK
  <2>3. \A q \in post' : q.event \in accepted
    BY <2>1, <2>2, <1>9 DEF PlacesOK
  <2> QED BY <2>1, <2>3, <1>13 DEF PlacesOK
<1>15. p.event \in Waiting /\ Waiting' = Waiting \ {p.event}
  <2>1. /\ Unsent(sender[s]) = Elems(sender[s].batch)
        /\ Unsent(sender'[s]) = Elems(sender[s].batch) \ {p.event}
    BY <1>0, <1>2, <1>5, <1>8 DEF Unsent
  <2>2. \A t \in Senders : t # s => /\ Unsent(sender'[t]) = Unsent(sender[t])
                                    /\ p.event \notin Unsent(sender[t])
    BY <1>5, <1>7, <1>8 DEF PipeBase, PlacesOK, Unsent
  <2>3. p.event \notin Elems(queue)
    BY <1>7, <1>8 DEF PipeBase, PlacesOK
  <2>4. /\ "loop" \in Senders /\ "main" \in Senders /\ "loop" # "main" /\ s \in {"loop", "main"}
        /\ queue' = queue
    BY DEF Senders, Send
  <2>5. CASE s = "loop"
    BY <2>1, <2>2, <2>3, <2>4, <2>5, <1>7, <1>8 DEF Waiting
  <2>6. CASE s = "main"
    BY <2>1, <2>2, <2>3, <2>4, <2>6, <1>7, <1>8 DEF Waiting
  <2> QED BY <2>4, <2>5, <2>6
<1>16. p \notin post
  BY <1>8, <1>10
<1>17. PipeBase'
  BY <1>5, <1>11, <1>12, <1>14 DEF PipeBase
<1> QED BY <1>2, <1>5, <1>8, <1>9, <1>15, <1>16, <1>17

\* A request has another column set; it is of the same event.
LEMMA PostChanges ==
    ASSUME PipeBase, NEW p \in post, NEW q \in Post, q.event = p.event,
           post' = (post \ {p}) \cup {q}
    PROVE  IsFiniteSet(post') /\ post' \subseteq Post
<1>1. IsFiniteSet(post \ {p})
  BY FS_RemoveElement DEF PipeBase, PostsOK
<1>2. IsFiniteSet((post \ {p}) \cup {q})
  BY <1>1, FS_AddElement
<1> QED BY <1>2 DEF PipeBase, PostsOK

\* The backend reads: no event changes its place.
LEMMA ReadBase ==
    ASSUME PipeBase, NEW p \in post, PostRead(p)
    PROVE  /\ PipeBase' /\ Waiting' = Waiting
           /\ \E q \in Post : /\ post' = (post \ {p}) \cup {q} /\ q.event = p.event /\ q.by = p.by
                              /\ q.tries = p.tries /\ q.read = TRUE /\ q.seen = run
<1>0. p \in Post /\ run \in RunRec
  BY DEF PipeBase, PipeRows, PostsOK
<1>1. PICK q : q = [p EXCEPT !.read = TRUE, !.seen = run]
  OBVIOUS
<1>2. /\ q \in Post /\ q.event = p.event /\ q.by = p.by /\ q.tries = p.tries /\ q.read = TRUE
      /\ q.seen = run
  BY <1>0, <1>1 DEF Post, RunRec
<1>3. /\ post' = (post \ {p}) \cup {q} /\ sender' = sender /\ queue' = queue
      /\ UNCHANGED <<stop, run, rows, accepted, pipeFaults>>
      /\ overlap' = (overlap \/ \E r \in post : r.read)
  BY <1>1 DEF PostRead
<1>4. IsFiniteSet(post') /\ post' \subseteq Post
  BY <1>2, <1>3, PostChanges
<1>5. PostsOK'
  <2>0. PostsOK
    BY DEF PipeBase
  <2>1. \A r \in post' : r.by # Gone =>
          /\ sender'[r.by].out /\ r.event = Head(sender'[r.by].batch)
          /\ r.tries = sender'[r.by].tries
    BY <2>0, <1>2, <1>3 DEF PostsOK
  <2>2. ASSUME NEW r \in post', NEW u \in post', r.by = u.by, r.by # Gone PROVE r = u
    BY <2>0, <2>2, <1>2, <1>3 DEF PostsOK
  <2>3. ASSUME NEW t \in Senders, sender'[t].out PROVE \E r \in post' : r.by = t
    <3>1. PICK r \in post : r.by = t
      BY <2>0, <2>3, <1>3 DEF PostsOK
    <3> QED BY <3>1, <1>2, <1>3
  <2> QED BY <1>4, <2>1, <2>2, <2>3 DEF PostsOK
<1>6. PlacesOK'
  BY <1>2, <1>3 DEF PipeBase, PlacesOK
<1>7. PipeRows'
  <2>1. overlap' \in BOOLEAN
    BY <1>3
  <2> QED BY <2>1, <1>3 DEF PipeBase, PipeRows
<1>8. PipeBase' /\ Waiting' = Waiting
  BY <1>3, <1>5, <1>6, <1>7 DEF PipeBase, SendersTyped, SendersOK, Waiting
<1> QED BY <1>2, <1>3, <1>8

\* The client is closed: the flush thread ends where it is, and nobody waits for
\* its request.
ClientCloses ==
    /\ Phase("main") = "closing" /\ Resting("main")
    /\ sender' = [sender EXCEPT !["main"].phase = "closed",
            !["loop"] = [phase |-> "done", batch |-> <<>>, tries |-> 0, out |-> FALSE]]
    /\ post' = {IF p.by = "loop" THEN [p EXCEPT !.by = Gone] ELSE p : p \in post}
    /\ UNCHANGED <<queue, run, rows, accepted, overlap, stop>>
    /\ pipeFaults' \in {pipeFaults, pipeFaults + 1} /\ pipeFaults' \in 0 .. MaxPipeFaults

\* The client is closed: what the flush thread had is lost.
LEMMA ClosesBase ==
    ASSUME PipeBase, ClientCloses
    PROVE  /\ PipeBase' /\ Waiting' \subseteq Waiting
           /\ Resting("loop") => Waiting' = Waiting
           /\ \/ post' = post
              \/ \E p \in post, q \in Post :
                    /\ post' = (post \ {p}) \cup {q}
                    /\ p.by = "loop" /\ q.by = Gone /\ q.event = p.event /\ q.tries = p.tries
                    /\ q.read = p.read /\ q.seen = p.seen
           /\ sender'["main"].tries = sender["main"].tries /\ sender'["main"].phase = "closed"
           /\ sender'["main"].batch = <<>>
           /\ sender'["loop"].tries = 0 /\ sender'["loop"].phase = "done"
<1>0. /\ "loop" \in Senders /\ "main" \in Senders /\ "loop" # "main" /\ Senders = {"loop", "main"}
      /\ "loop" # Gone /\ "main" # Gone
  BY DEF Senders, Gone
<1>1. /\ sender["main"] \in SenderRec /\ ~sender["main"].out /\ sender["main"].batch = <<>>
      /\ Unsent(sender["main"]) = {} /\ SoundSender("main", sender["main"])
  BY <1>0, SenderFacts DEF ClientCloses, Resting
<1>2. PICK y : y = [sender["main"] EXCEPT !.phase = "closed"]
  OBVIOUS
<1>3. PICK z : z = [phase |-> "done", batch |-> <<>>, tries |-> 0, out |-> FALSE]
  OBVIOUS
<1>4. /\ y \in SenderRec /\ y.phase = "closed" /\ y.batch = <<>> /\ y.tries = sender["main"].tries
      /\ y.out = FALSE
  BY <1>1, <1>2 DEF SenderRec, Phases
<1>5. z \in SenderRec /\ z.phase = "done" /\ z.batch = <<>> /\ z.tries = 0 /\ z.out = FALSE
  <2>1. 0 \in 0 .. MaxRetries - 1
    BY PipeAssumption
  <2>2. <<>> \in Seq(Events) /\ "done" \in Phases
    BY DEF Phases
  <2> QED BY <1>3, <2>1, <2>2 DEF SenderRec
<1>6. DOMAIN sender = Senders
  BY DEF PipeBase, SendersTyped
<1>7. sender' \in [Senders -> SenderRec] /\ sender'["main"] = y /\ sender'["loop"] = z
  <2>1. sender' = [sender EXCEPT !["main"] = y, !["loop"] = z]
    BY <1>2, <1>3 DEF ClientCloses
  <2> QED BY <2>1, <1>0, <1>4, <1>5, <1>6 DEF PipeBase, SendersTyped
<1>8. SendersTyped' /\ SendersOK'
  <2>1. Len(<<>>) <= BatchSize
    BY PipeAssumption
  <2>2. SoundSender("main", y) /\ SoundSender("loop", z)
    BY <2>1, <1>4, <1>5, NoElems DEF SoundSender
  <2> QED BY <2>2, <1>0, <1>7 DEF SendersTyped, SendersOK
<1>9. \/ post' = post /\ \A p \in post : p.by # "loop"
      \/ \E p \in post, q \in Post :
            /\ post' = (post \ {p}) \cup {q} /\ \A r \in post \ {p} : r.by # "loop"
            /\ p.by = "loop" /\ q.by = Gone /\ q.event = p.event /\ q.tries = p.tries
            /\ q.read = p.read /\ q.seen = p.seen
  <2>1. CASE \A p \in post : p.by # "loop"
    BY <2>1 DEF ClientCloses
  <2>2. ASSUME NEW p \in post, p.by = "loop"
        PROVE  \E q \in Post :
            /\ post' = (post \ {p}) \cup {q} /\ \A r \in post \ {p} : r.by # "loop"
            /\ p.by = "loop" /\ q.by = Gone /\ q.event = p.event /\ q.tries = p.tries
            /\ q.read = p.read /\ q.seen = p.seen
    <3>1. p \in Post /\ \A r \in post \ {p} : r.by # "loop"
      BY <1>0, <2>2 DEF PipeBase, PostsOK
    <3>2. PICK q : q = [p EXCEPT !.by = Gone]
      OBVIOUS
    <3>3. /\ q \in Post /\ q.by = Gone /\ q.event = p.event /\ q.tries = p.tries
          /\ q.read = p.read /\ q.seen = p.seen
      BY <3>1, <3>2 DEF Post
    <3>4. post' = {IF r.by = "loop" THEN [r EXCEPT !.by = Gone] ELSE r : r \in post}
      BY DEF ClientCloses
    <3>5. post' = (post \ {p}) \cup {q}
      BY <2>2, <3>1, <3>2, <3>4
    <3> QED BY <2>2, <3>1, <3>3, <3>5
  <2> QED BY <2>1, <2>2
<1>10. PostsOK /\ PlacesOK /\ PipeRows
  BY DEF PipeBase
<1>11. IsFiniteSet(post') /\ post' \subseteq Post /\ \A e : (\E q \in post' : q.event = e) => (\E p \in post : p.event = e)
  <2>1. CASE post' = post
    BY <2>1, <1>10 DEF PostsOK
  <2>2. ASSUME NEW p \in post, NEW q \in Post, post' = (post \ {p}) \cup {q}, q.event = p.event
        PROVE  IsFiniteSet(post') /\ post' \subseteq Post /\ \A e : (\E r \in post' : r.event = e) => (\E r \in post : r.event = e)
    BY <2>2, PostChanges
  <2> QED BY <1>9, <2>1, <2>2
<1>12. \A q \in post' : q.by # Gone => q \in post /\ q.by = "main"
  <2>1. \A q \in post : q.by \in {"loop", "main", Gone}
    BY <1>0, <1>10 DEF PostsOK, Post
  <2> QED BY <1>9, <2>1
<1>13. PostsOK'
  <2>1. \A q \in post' : q.by = Gone
    BY <1>1, <1>0, <1>10, <1>12 DEF PostsOK
  <2>2. \A t \in Senders : ~sender'[t].out
    BY <1>0, <1>4, <1>5, <1>7
  <2> QED BY <1>11, <2>1, <2>2 DEF PostsOK
<1>14. PlacesOK'
  <2>1. \A t \in Senders : Elems(sender'[t].batch) = {}
    BY <1>0, <1>4, <1>5, <1>7, NoElems
  <2>2. \A q \in post' : q.event \in accepted
    BY <1>10, <1>11 DEF PlacesOK
  <2>3. queue' = queue /\ rows' = rows /\ accepted' = accepted
    BY DEF ClientCloses
  <2> QED BY <2>1, <2>2, <2>3, <1>10 DEF PlacesOK
<1>15. PipeRows'
  BY <1>10 DEF PipeRows, ClientCloses
<1>16. /\ Waiting' \subseteq Waiting
       /\ Resting("loop") => Waiting' = Waiting
  <2>1. Unsent(sender'["main"]) = {} /\ Unsent(sender'["loop"]) = {}
    BY <1>4, <1>5, <1>7, NoElems DEF Unsent
  <2>2. Resting("loop") => Unsent(sender["loop"]) = {}
    BY <1>0, SenderFacts
  <2>3. queue' = queue
    BY DEF ClientCloses
  <2> QED BY <2>1, <2>2, <2>3, <1>1 DEF Waiting
<1>17. PipeBase'
  BY <1>8, <1>13, <1>14, <1>15 DEF PipeBase
<1>18. \/ post' = post
       \/ \E p \in post, q \in Post :
                    /\ post' = (post \ {p}) \cup {q}
                    /\ p.by = "loop" /\ q.by = Gone /\ q.event = p.event /\ q.tries = p.tries
                    /\ q.read = p.read /\ q.seen = p.seen
  BY <1>9
<1>19. /\ sender'["main"].tries = sender["main"].tries /\ sender'["main"].phase = "closed"
       /\ sender'["main"].batch = <<>> /\ sender'["loop"].tries = 0 /\ sender'["loop"].phase = "done"
  BY <1>4, <1>5, <1>7
<1> QED BY <1>16, <1>17, <1>18, <1>19

-----------------------------------------------------------------------------
(* Copies of an event: rows, requests, and the one nobody has sent. *)

Of(e) == {p \in post : p.event = e}

\* How often an event is there: stored, on the wire or waiting.
Copies(e) == rows[e] + Cardinality(Of(e)) + (IF e \in Waiting THEN 1 ELSE 0)

\* How often too often.
Extra(e) == IF Copies(e) > 1 THEN Copies(e) - 1 ELSE 0

\* The same, of every event.
Extras == [e \in Events |-> Extra(e)]

\* Every copy beyond the first has its fault.
FewCopies == Total(Extras, Events) <= pipeFaults

\* An event has finitely many requests.
LEMMA OfIsFinite ==
    ASSUME PipeBase, NEW e
    PROVE  IsFiniteSet(Of(e)) /\ Cardinality(Of(e)) \in Nat
BY FS_Subset, FS_CardinalityType DEF PipeBase, PostsOK, Of

\* So its copies are a number.
LEMMA CopiesAreNumbers ==
    ASSUME PipeBase, NEW e \in Events
    PROVE  rows[e] \in Nat /\ Copies(e) \in Nat /\ Extra(e) \in Nat
<1>1. rows[e] \in Nat /\ Cardinality(Of(e)) \in Nat
  BY OfIsFinite DEF PipeBase, PipeRows
<1>2. Copies(e) \in Nat
  BY <1>1 DEF Copies
<1> QED BY <1>1, <1>2 DEF Extra

\* So are those of every event.
LEMMA AllAreNumbers == PipeBase => \A e \in Events : Copies(e) \in Nat /\ Extra(e) \in Nat
BY CopiesAreNumbers

\* A step at which one event gets d copies more, or its first one.
LEMMA FewStay ==
    ASSUME PipeBase, PipeBase', FewCopies, NEW k \in Events, NEW d \in Nat,
           \A e \in Events : e # k => Copies(e)' <= Copies(e),
           Copies(k)' <= Copies(k) + d \/ Copies(k)' <= 1,
           pipeFaults' >= pipeFaults + d
    PROVE  FewCopies'
<1>1. PICK v : v = Extras
  OBVIOUS
<1>2. PICK w : w = Extras'
  OBVIOUS
<1>3. \A e \in Events : v[e] = Extra(e) /\ w[e] = Extra(e)'
  BY <1>1, <1>2 DEF Extras
<1>4. \A e \in Events : Copies(e) \in Nat /\ Extra(e) \in Nat
  BY CopiesAreNumbers
<1>5. (\A e \in Events : Copies(e) \in Nat /\ Extra(e) \in Nat)'
  BY AllAreNumbers, PTL
<1>6. ASSUME NEW e \in Events, e # k PROVE w[e] <= v[e]
  <2>1. Copies(e)' <= Copies(e) /\ Copies(e) \in Nat /\ Copies(e)' \in Nat
    BY <1>4, <1>5, <1>6
  <2> QED BY <2>1, <1>3 DEF Extra
<1>7. w[k] <= v[k] + d
  <2>1. /\ Copies(k) \in Nat /\ Copies(k)' \in Nat
    BY <1>4, <1>5
  <2> QED BY <2>1, <1>3 DEF Extra
<1>8. Total(w, Events) <= Total(v, Events) + d
  BY <1>3, <1>4, <1>5, <1>6, <1>7, PipeAssumption, TotalGrows
<1>9. Total(v, Events) <= pipeFaults
  BY <1>1 DEF FewCopies
<1>10. Total(v, Events) \in Nat /\ Total(w, Events) \in Nat
  BY <1>3, <1>4, <1>5, PipeAssumption, TotalIsNat
<1>11. pipeFaults \in Nat /\ pipeFaults' \in Nat
  BY PipeAssumption DEF PipeBase, PipeRows
<1>12. Total(w, Events) <= pipeFaults'
  BY <1>8, <1>9, <1>10, <1>11
<1> QED BY <1>2, <1>12 DEF FewCopies

\* Requests that end, come, or change a column.
LEMMA OneLess ==
    ASSUME PipeBase, NEW p \in post, post' = post \ {p}
    PROVE  /\ Cardinality(Of(p.event))' + 1 = Cardinality(Of(p.event))
           /\ \A e : e # p.event => Of(e)' = Of(e)
<1>1. Of(p.event)' = Of(p.event) \ {p} /\ p \in Of(p.event)
  BY DEF Of
<1>2. Cardinality(Of(p.event) \ {p}) = Cardinality(Of(p.event)) - 1
  BY <1>1, OfIsFinite, FS_RemoveElement
<1>3. Cardinality(Of(p.event)) \in Nat
  BY OfIsFinite
<1> QED BY <1>1, <1>2, <1>3 DEF Of

\* One more request.
LEMMA OneMorePost ==
    ASSUME PipeBase, NEW p, p \notin post, post' = post \cup {p}
    PROVE  /\ Cardinality(Of(p.event))' = Cardinality(Of(p.event)) + 1
           /\ \A e : e # p.event => Of(e)' = Of(e)
<1>1. Of(p.event)' = Of(p.event) \cup {p} /\ p \notin Of(p.event)
  BY DEF Of
<1>2. Cardinality(Of(p.event) \cup {p}) = Cardinality(Of(p.event)) + 1
  BY <1>1, OfIsFinite, FS_AddElement
<1> QED BY <1>1, <1>2 DEF Of

\* A request that is another than before, of the same event.
LEMMA NoneMore ==
    ASSUME PipeBase, NEW p \in post, NEW q, q.event = p.event, post' = (post \ {p}) \cup {q}
    PROVE  /\ Cardinality(Of(p.event))' <= Cardinality(Of(p.event))
           /\ \A e : e # p.event => Of(e)' = Of(e)
<1>1. Of(p.event)' = (Of(p.event) \ {p}) \cup {q} /\ p \in Of(p.event)
  BY DEF Of
<1>2. /\ Cardinality(Of(p.event) \ {p}) = Cardinality(Of(p.event)) - 1
      /\ IsFiniteSet(Of(p.event) \ {p}) /\ Cardinality(Of(p.event)) \in Nat
  BY <1>1, OfIsFinite, FS_RemoveElement
<1>3. \/ Cardinality((Of(p.event) \ {p}) \cup {q}) = Cardinality(Of(p.event) \ {p})
      \/ Cardinality((Of(p.event) \ {p}) \cup {q}) = Cardinality(Of(p.event) \ {p}) + 1
  BY <1>2, FS_AddElement
<1>4. Cardinality(Of(p.event))' <= Cardinality(Of(p.event))
  BY <1>1, <1>2, <1>3
<1> QED BY <1>4 DEF Of

\* Nothing gets another copy.
LEMMA FewStaySo ==
    ASSUME PipeBase, PipeBase', FewCopies, pipeFaults' >= pipeFaults,
           \A e \in Events : Copies(e)' <= Copies(e)
    PROVE  FewCopies'
<1>1. CASE Events = {}
  <2>1. Total(Extras', Events) = 0
    BY <1>1, TotalOfZeros, PipeAssumption
  <2>2. pipeFaults' \in Nat
    BY PipeAssumption DEF PipeBase, PipeRows
  <2> QED BY <2>1, <2>2 DEF FewCopies
<1>2. CASE Events # {}
  <2>1. PICK k \in Events : TRUE
    BY <1>2
  <2>2. Copies(k) + 0 = Copies(k) /\ pipeFaults + 0 = pipeFaults
    BY CopiesAreNumbers, PipeAssumption DEF PipeBase, PipeRows
  <2>3. Copies(k)' <= Copies(k) + 0 /\ pipeFaults' >= pipeFaults + 0
    BY <2>2
  <2> QED BY <2>1, <2>3, FewStay
<1> QED BY <1>1, <1>2

-----------------------------------------------------------------------------
(* What the run costs. *)

Costs == [e \in Events |-> rows[e] * Cost(e)]

\* What the stored events cost.
Spent == Total(Costs, Events)

\* What a post read was there, and is still there if no two read at once.
RunOK ==
    /\ run.cost <= Spent
    /\ ~run.there => run.cost = 0 /\ Spent = 0
    /\ \A p \in post : p.read /\ p.seen.there => p.seen.cost <= Spent
    /\ ~overlap => /\ run.cost = Spent
                   /\ \A p, q \in post : p.read /\ q.read => p = q
                   /\ \A p \in post : p.read => p.seen = run

\* Costs are numbers.
LEMMA CostsAreNumbers ==
    ASSUME PipeBase
    PROVE  \A e \in Events : rows[e] \in Nat /\ Cost(e) \in {0, 1} /\ Costs[e] \in Nat
<1>1. ASSUME NEW e \in Events PROVE rows[e] \in Nat /\ Cost(e) \in {0, 1} /\ Costs[e] \in Nat
  <2>1. rows[e] \in Nat
    BY DEF PipeBase, PipeRows
  <2>2. Cost(e) \in {0, 1} /\ Costs[e] = rows[e] * Cost(e)
    BY DEF Cost, Costs
  <2>3. CASE Cost(e) = 0
    BY <2>1, <2>2, <2>3
  <2>4. CASE Cost(e) = 1
    BY <2>1, <2>2, <2>4
  <2> QED BY <2>1, <2>2, <2>3, <2>4
<1> QED BY <1>1

\* Requests that end, come unread, or change another column.
Shifts ==
    \/ post' = post
    \/ \E p \in post : post' = post \ {p}
    \/ \E p : p.read = FALSE /\ post' = post \cup {p}
    \/ \E p \in post : \E q : post' = (post \ {p}) \cup {q} /\ q.read = p.read /\ q.seen = p.seen

\* Who leaves rows and run alone keeps the run's cost.
LEMMA RunStays ==
    ASSUME RunOK, Shifts, run' = run, rows' = rows, overlap' = overlap
    PROVE  RunOK'
<1>1. ASSUME NEW q \in post', q.read PROVE \E p \in post : p.read /\ q.seen = p.seen
  BY <1>1 DEF Shifts
<1>2. ASSUME \A p, q \in post : p.read /\ q.read => p = q,
             NEW q \in post', NEW r \in post', q.read, r.read
      PROVE  q = r
  <2>1. CASE post' = post
    BY <1>2, <2>1
  <2>2. ASSUME NEW p \in post, post' = post \ {p} PROVE q = r
    BY <1>2, <2>2
  <2>3. ASSUME NEW p, p.read = FALSE, post' = post \cup {p} PROVE q = r
    BY <1>2, <2>3
  <2>4. ASSUME NEW p \in post, NEW u, post' = (post \ {p}) \cup {u}, u.read = p.read PROVE q = r
    BY <1>2, <2>4
  <2> QED BY <2>1, <2>2, <2>3, <2>4 DEF Shifts
<1>3. Spent' = Spent
  BY DEF Spent, Costs
<1> QED BY <1>1, <1>2, <1>3 DEF RunOK

\* Who reads the run keeps it, too.
LEMMA RunIsRead ==
    ASSUME PipeBase, RunOK, NEW p \in post, PostRead(p)
    PROVE  RunOK'
<1>1. PICK q \in Post : /\ post' = (post \ {p}) \cup {q} /\ q.read = TRUE /\ q.seen = run
  BY ReadBase
<1>2. /\ run' = run /\ rows' = rows /\ overlap' = (overlap \/ \E r \in post : r.read)
  BY DEF PostRead
<1>3. Spent' = Spent
  BY <1>2 DEF Spent, Costs
<1> QED BY <1>1, <1>2, <1>3 DEF RunOK

\* Who commits an event adds its cost to what was read.
LEMMA RunIsCharged ==
    ASSUME PipeBase, RunOK, NEW p \in post, PostCommit(p)
    PROVE  /\ RunOK' /\ (run.there => run'.there) /\ run' \in RunRec
           /\ rows' \in [Events -> Nat] /\ rows'[p.event] = rows[p.event] + 1
           /\ \A e \in Events : e # p.event => rows'[e] = rows[e]
<1>1. /\ p \in Post /\ p.read /\ (p.seen.there \/ ~run.there) /\ run' = Charged(p)
      /\ rows' = [rows EXCEPT ![p.event] = @ + 1] /\ post' = post \ {p} /\ overlap' = overlap
      /\ run \in RunRec
  BY DEF PostCommit, Answer, PipeBase, PipeRows, PostsOK
<1>2. PICK k \in Events : k = p.event
  BY <1>1 DEF Post
<1>3. PICK c \in {0, 1} : c = Cost(k)
  BY DEF Cost
<1>4. /\ rows' \in [Events -> Nat] /\ rows'[k] = rows[k] + 1
      /\ \A e \in Events : e # k => rows'[e] = rows[e]
  BY <1>1, <1>2 DEF PipeBase, PipeRows
<1>5. PICK v : v = Costs
  OBVIOUS
<1>6. PICK w : w = Costs'
  OBVIOUS
<1>7. \A e \in Events : v[e] \in Nat /\ w[e] \in Nat
  <2>1. ASSUME NEW e \in Events PROVE w[e] \in Nat
    <3>1. w[e] = rows'[e] * Cost(e) /\ rows'[e] \in Nat
      BY <1>4, <1>6 DEF Costs
    <3>2. Cost(e) \in {0, 1}
      BY DEF Cost
    <3>3. CASE Cost(e) = 0
      BY <3>1, <3>3
    <3>4. CASE Cost(e) = 1
      BY <3>1, <3>4
    <3> QED BY <3>2, <3>3, <3>4
  <2> QED BY <2>1, <1>5, CostsAreNumbers
<1>8. \A e \in Events : e # k => w[e] = v[e]
  BY <1>4, <1>5, <1>6 DEF Costs
<1>9. w[k] = v[k] + c
  <2>1. w[k] = (rows[k] + 1) * c /\ v[k] = rows[k] * c /\ rows[k] \in Nat
    BY <1>3, <1>4, <1>5, <1>6 DEF Costs, PipeBase, PipeRows
  <2>2. CASE c = 0
    BY <2>1, <2>2
  <2>3. CASE c = 1
    BY <2>1, <2>3
  <2> QED BY <2>2, <2>3
<1>10. Total(w, Events) + v[k] = Total(v, Events) + w[k]
  BY <1>7, <1>8, PipeAssumption, TotalChanges
<1>11. Total(w, Events) \in Nat /\ Total(v, Events) \in Nat
  BY <1>7, PipeAssumption, TotalIsNat
<1>12. Spent' = Spent + c /\ Spent \in Nat
  BY <1>5, <1>6, <1>7, <1>9, <1>10, <1>11 DEF Spent
<1>13. p.seen \in RunRec
  BY <1>1 DEF Post, RunRec
<1>14. /\ run' \in RunRec /\ run'.cost <= Spent + c /\ (run.there => run'.there)
       /\ ~run'.there => run'.cost = 0 /\ c = 0 /\ Spent = 0
       /\ ~overlap => run'.cost = Spent + c
  <2>0. p.seen.there => p.seen.cost <= Spent
    BY <1>1 DEF RunOK
  <2>1. CASE ~p.seen.there
    <3>1. run' = [there |-> TRUE, cost |-> c] /\ Spent = 0
      BY <1>1, <1>2, <1>3, <2>1 DEF Charged, Row, RunOK
    <3> QED BY <1>12, <3>1 DEF RunRec
  <2>2. CASE p.seen.there /\ c = 0
    <3>1. run' = run
      BY <1>1, <1>2, <1>3, <2>2 DEF Charged
    <3>2. run.cost <= Spent /\ (~run.there => run.cost = 0 /\ Spent = 0) /\ (~overlap => run.cost = Spent)
      BY DEF RunOK
    <3> QED BY <1>1, <1>12, <2>2, <3>1, <3>2
  <2>3. CASE p.seen.there /\ c = 1
    <3>1. run' = [there |-> TRUE, cost |-> p.seen.cost + c]
      BY <1>1, <1>2, <1>3, <2>3 DEF Charged, Row
    <3>2. p.seen.cost \in Nat
      BY <1>13 DEF RunRec
    <3>3. ~overlap => p.seen.cost = Spent
      BY <1>1 DEF RunOK
    <3> QED BY <1>12, <2>0, <2>3, <3>1, <3>2, <3>3 DEF RunRec
  <2> QED BY <2>1, <2>2, <2>3
<1>15. \A q \in post' : q.read /\ q.seen.there => q.seen.cost <= Spent'
  <2>1. SUFFICES ASSUME NEW q \in post, q.read, q.seen.there PROVE q.seen.cost <= Spent + c
    BY <1>1, <1>12
  <2>2. q.seen.cost <= Spent /\ q.seen.cost \in Nat
    BY <2>1 DEF RunOK, PipeBase, PostsOK, Post
  <2> QED BY <1>12, <2>2
<1>16. ~overlap => \A q \in post' : ~q.read
  BY <1>1 DEF RunOK
<1>17. RunOK'
  BY <1>1, <1>12, <1>14, <1>15, <1>16 DEF RunOK
<1> QED BY <1>2, <1>4, <1>14, <1>17

-----------------------------------------------------------------------------
(* Without faults nothing is lost. *)

\* Whoever shuts down has told the flush thread to stop.
StopOK == Phase("main") \in {"joining", "closing", "closed"} => stop

\* An event is stored, or on its way; who tried before finds the run's row; and
\* who closes has waited for the flush thread, and emptied the queue.
NoLoss ==
    pipeFaults = 0 /\ MaxRetries > 1 =>
        /\ \A e \in accepted \ Rejected :
              rows[e] # 0 \/ e \in Waiting \/ \E p \in post : p.event = e
        /\ \A p \in post : p.by # Gone
        /\ \A p \in post : p.tries # 0 => run.there /\ (p.read => p.seen.there)
        /\ \A s \in Senders : sender[s].tries # 0 => run.there
        /\ Phase("main") \in {"closing", "closed"} => Phase("loop") = "done"
        /\ Phase("main") = "closed" => queue = <<>>

\* What every step of the pipeline keeps.
PipeInv == PipeBase /\ FewCopies /\ RunOK /\ StopOK /\ NoLoss

\* 2xx and 422: the thread goes on to its next event.
LEMMA AnswerBase ==
    ASSUME PipeBase, NEW p \in post, Answer(p), PipeRows', queue' = queue, accepted' = accepted,
           \A e \in Events : rows'[e] # 0 => rows[e] # 0 \/ e = p.event
    PROVE  /\ PipeBase' /\ Waiting' = Waiting /\ post' = post \ {p}
           /\ \A s \in Senders : /\ sender'[s].phase = sender[s].phase
                                 /\ sender'[s].tries # 0 => sender'[s].tries = sender[s].tries
<1>1. post' = post \ {p}
  BY DEF Answer
<1>2. CASE p.by = Gone
  <2>1. sender' = sender
    BY <1>2 DEF Answer
  <2> QED BY <1>1, <1>2, <2>1, OrphanBase
<1>3. CASE p.by # Gone
  <2>1. PICK y : y = NextEvent(sender[p.by])
    OBVIOUS
  <2>2. /\ p.by \in Senders /\ sender[p.by] \in SenderRec /\ SoundSender(p.by, sender[p.by])
        /\ sender[p.by].out /\ p.event = Head(sender[p.by].batch)
    BY <1>3 DEF PipeBase, PostsOK, Post, SendersTyped, SendersOK
  <2>3. /\ y \in SenderRec /\ SoundSender(p.by, y) /\ y.out = FALSE /\ y.tries = 0
        /\ y.phase = sender[p.by].phase
        /\ Elems(y.batch) = Elems(sender[p.by].batch) \ {p.event}
    BY <2>1, <2>2, NextEventIs
  <2>4. sender' = [sender EXCEPT ![p.by] = y]
    BY <1>3, <2>1 DEF Answer
  <2>5. IsFiniteSet(post') /\ post' \subseteq Post
    BY <1>1, FS_RemoveElement DEF PipeBase, PostsOK
  <2>6. /\ PipeBase' /\ Waiting' = Waiting
        /\ sender'[p.by] = y /\ \A t \in Senders : t # p.by => sender'[t] = sender[t]
    BY <1>1, <1>3, <2>3, <2>4, <2>5, LeavesBase
  <2> QED BY <1>1, <2>3, <2>6
<1> QED BY <1>2, <1>3

\* The thread tries again, or goes on to its next event: facts of both.
LEMMA RetryFacts ==
    ASSUME PipeBase, NEW p \in post, p.by # Gone, NEW y, y = Retried(sender[p.by])
    PROVE  /\ p.by \in Senders /\ y \in SenderRec /\ SoundSender(p.by, y) /\ y.out = FALSE
           /\ y.phase = sender[p.by].phase /\ p.tries = sender[p.by].tries
           /\ \/ Elems(y.batch) = Elems(sender[p.by].batch)
              \/ Elems(y.batch) = Elems(sender[p.by].batch) \ {p.event} /\ p.tries + 1 >= MaxRetries
<1>1. /\ p.by \in Senders /\ sender[p.by] \in SenderRec /\ SoundSender(p.by, sender[p.by])
      /\ sender[p.by].out /\ p.event = Head(sender[p.by].batch) /\ p.tries = sender[p.by].tries
  BY DEF PipeBase, PostsOK, Post, SendersTyped, SendersOK
<1> QED BY <1>1, RetriedIs

\* An error answers a request: its event waits again, or is given up.
LEMMA ErrorBase ==
    ASSUME PipeBase, NEW p \in post, ErrorAnswer(p), PipeRows', queue' = queue,
           accepted' = accepted, rows' = rows
    PROVE  /\ PipeBase' /\ post' = post \ {p}
           /\ Waiting \subseteq Waiting' /\ Waiting' \subseteq Waiting \cup {p.event}
           /\ p.by # Gone /\ p.tries = 0 /\ MaxRetries > 1 => p.event \in Waiting'
           /\ \A s \in Senders : sender'[s].phase = sender[s].phase
           /\ \A s \in Senders : s # p.by => sender'[s] = sender[s]
<1>1. post' = post \ {p}
  BY DEF ErrorAnswer
<1>2. CASE p.by = Gone
  <2>1. sender' = sender
    BY <1>2 DEF ErrorAnswer
  <2>2. PipeBase' /\ Waiting' = Waiting
    BY <1>1, <1>2, <2>1, OrphanBase
  <2> QED BY <1>1, <1>2, <2>1, <2>2
<1>3. CASE p.by # Gone
  <2>1. PICK y : y = Retried(sender[p.by])
    OBVIOUS
  <2>2. /\ p.by \in Senders /\ y \in SenderRec /\ SoundSender(p.by, y) /\ y.out = FALSE
        /\ y.phase = sender[p.by].phase
        /\ \/ Elems(y.batch) = Elems(sender[p.by].batch)
           \/ Elems(y.batch) = Elems(sender[p.by].batch) \ {p.event} /\ p.tries + 1 >= MaxRetries
    BY <1>3, <2>1, RetryFacts
  <2>3. sender' = [sender EXCEPT ![p.by] = y]
    BY <1>3, <2>1 DEF ErrorAnswer
  <2>4. IsFiniteSet(post') /\ post' \subseteq Post
    BY <1>1, FS_RemoveElement DEF PipeBase, PostsOK
  <2>5. Elems(y.batch) \subseteq Elems(sender[p.by].batch)
    BY <2>2
  <2>6. /\ PipeBase'
        /\ sender'[p.by] = y /\ \A t \in Senders : t # p.by => sender'[t] = sender[t]
        /\ Elems(y.batch) = Elems(sender[p.by].batch) => Waiting' = Waiting \cup {p.event}
        /\ Elems(y.batch) = Elems(sender[p.by].batch) \ {p.event} => Waiting' = Waiting
    BY <1>1, <1>3, <2>2, <2>3, <2>4, <2>5, LeavesBase
  <2>7. p.tries = 0 /\ MaxRetries > 1 => ~ (p.tries + 1 >= MaxRetries)
    BY PipeAssumption
  <2>8. /\ Waiting \subseteq Waiting' /\ Waiting' \subseteq Waiting \cup {p.event}
        /\ p.tries = 0 /\ MaxRetries > 1 => p.event \in Waiting'
    BY <2>2, <2>6, <2>7
  <2>9. \A s \in Senders : sender'[s].phase = sender[s].phase
    BY <2>2, <2>6
  <2> QED BY <1>1, <2>6, <2>8, <2>9
<1> QED BY <1>2, <1>3

\* A request is given up: the backend still has it.
LEMMA TimeoutBase ==
    ASSUME PipeBase, NEW p \in post, Timeout(p)
    PROVE  /\ PipeBase' /\ Waiting' \subseteq Waiting \cup {p.event}
           /\ \E q \in Post : /\ post' = (post \ {p}) \cup {q} /\ q.event = p.event
                              /\ q.read = p.read /\ q.seen = p.seen
           /\ \A s \in Senders : sender'[s].phase = sender[s].phase
<1>1. /\ p.by # Gone /\ p \in Post /\ queue' = queue /\ rows' = rows /\ accepted' = accepted
      /\ sender' = [sender EXCEPT ![p.by] = Retried(@)]
  BY DEF Timeout, PipeBase, PostsOK
<1>2. PICK q : q = [p EXCEPT !.by = Gone]
  OBVIOUS
<1>3. /\ q \in Post /\ q.by = Gone /\ q.event = p.event /\ q.read = p.read /\ q.seen = p.seen
      /\ post' = (post \ {p}) \cup {q}
  BY <1>1, <1>2 DEF Post, Timeout
<1>4. PICK y : y = Retried(sender[p.by])
  OBVIOUS
<1>5. /\ p.by \in Senders /\ y \in SenderRec /\ SoundSender(p.by, y) /\ y.out = FALSE
      /\ y.phase = sender[p.by].phase
      /\ \/ Elems(y.batch) = Elems(sender[p.by].batch)
         \/ Elems(y.batch) = Elems(sender[p.by].batch) \ {p.event} /\ p.tries + 1 >= MaxRetries
  BY <1>1, <1>4, RetryFacts
<1>6. sender' = [sender EXCEPT ![p.by] = y]
  BY <1>1, <1>4
<1>7. IsFiniteSet(post') /\ post' \subseteq Post
  BY <1>3, PostChanges
<1>8. Elems(y.batch) \subseteq Elems(sender[p.by].batch)
  BY <1>5
<1>9. PipeRows'
  <2>1. pipeFaults' \in 0 .. MaxPipeFaults
    BY PipeAssumption DEF PipeBase, PipeRows, Timeout, PipeFault
  <2> QED BY <2>1 DEF PipeBase, PipeRows, Timeout
<1>10. \A r \in post' : r \in post \ {p} \/ (r.by = Gone /\ r.event = p.event)
  BY <1>3
<1>11. post \ {p} \subseteq post'
  BY <1>3
<1>12. \A e \in Events : rows'[e] # 0 => rows[e] # 0 \/ e = p.event
  BY <1>1
<1>13. /\ PipeBase'
       /\ sender'[p.by] = y /\ \A t \in Senders : t # p.by => sender'[t] = sender[t]
       /\ Elems(y.batch) = Elems(sender[p.by].batch) => Waiting' = Waiting \cup {p.event}
       /\ Elems(y.batch) = Elems(sender[p.by].batch) \ {p.event} => Waiting' = Waiting
  <2>1. y \in SenderRec /\ SoundSender(p.by, y) /\ y.out = FALSE
    BY <1>5
  <2>2. queue' = queue /\ accepted' = accepted /\ p.by # Gone
    BY <1>1
  <2> QED BY <2>1, <2>2, <1>6, <1>7, <1>8, <1>9, <1>10, <1>11, <1>12, LeavesBase, Zenon
<1> QED BY <1>3, <1>5, <1>13

-----------------------------------------------------------------------------
(* The steps. *)

\* Copies that stay where they are, or go from one place to another.
LEMMA CopiesStay ==
    ASSUME PipeBase, rows' = rows, post' = post, NEW e \in Events, e \in Waiting' => e \in Waiting
    PROVE  Copies(e)' <= Copies(e)
<1>1. Cardinality(Of(e))' = Cardinality(Of(e)) /\ Cardinality(Of(e)) \in Nat /\ rows[e] \in Nat
  BY OfIsFinite DEF Of, PipeBase, PipeRows
<1> QED BY <1>1 DEF Copies

\* Requests are finitely many.
LEMMA AllOfAreFinite == PipeBase => \A e : Cardinality(Of(e)) \in Nat
BY OfIsFinite

\* Steps of the threads that leave requests and rows alone.
LEMMA ThreadStep ==
    ASSUME PipeInv, PipeBase', Waiting' = Waiting, UNCHANGED <<post, run, rows, accepted, overlap>>,
           pipeFaults' = pipeFaults \/ pipeFaults' = pipeFaults + 1, StopOK',
           \A s \in Senders : sender'[s].tries # 0 => sender'[s].tries = sender[s].tries,
           MaxRetries > 1 /\ pipeFaults' = 0 =>
              /\ (Phase("main") \in {"closing", "closed"} => Phase("loop") = "done")'
              /\ (Phase("main") = "closed" => queue = <<>>)'
    PROVE  PipeInv'
<1>1. PipeBase /\ FewCopies /\ RunOK /\ NoLoss /\ pipeFaults \in Nat
  BY PipeAssumption DEF PipeInv, PipeBase, PipeRows
<1>2. FewCopies'
  <2>1. \A e \in Events : Copies(e)' <= Copies(e)
    BY <1>1, CopiesStay
  <2>2. pipeFaults' >= pipeFaults
    BY <1>1
  <2> QED BY <1>1, <2>1, <2>2, FewStaySo
<1>3. RunOK'
  BY <1>1, RunStays DEF Shifts
<1>4. NoLoss'
  <2>1. SUFFICES ASSUME pipeFaults' = 0, MaxRetries > 1 PROVE NoLoss'
    BY DEF NoLoss
  <2>2. pipeFaults = 0
    BY <1>1, <2>1
  <2> QED BY <1>1, <2>1, <2>2 DEF NoLoss
<1> QED BY <1>2, <1>3, <1>4 DEF PipeInv

\* An event is emitted.
LEMMA EmitStep ==
    ASSUME PipeInv, NEW e \in Events, Emit(e)
    PROVE  PipeInv'
<1>0. PipeBase /\ FewCopies /\ RunOK /\ NoLoss /\ StopOK
  BY DEF PipeInv
<1>1. PipeBase' /\ Waiting' = Waiting \cup {e}
  BY <1>0, EmitBase
<1>2. /\ UNCHANGED <<sender, stop, post, run, rows, overlap, pipeFaults>>
      /\ accepted' = accepted \cup {e} /\ e \notin accepted /\ ~stop
  BY DEF Emit
<1>3. \A f \in Events : f # e => Copies(f)' <= Copies(f)
  BY <1>0, <1>1, <1>2, CopiesStay
<1>4. Copies(e)' <= 1
  <2>1. rows[e] = 0 /\ Of(e) = {}
    BY <1>0, <1>2 DEF PipeBase, PlacesOK, PipeRows, Of
  <2>2. rows'[e] = 0 /\ Of(e)' = {}
    BY <1>2, <2>1 DEF Of
  <2> QED BY <2>2, FS_EmptySet DEF Copies
<1>5. FewCopies'
  <2>1. pipeFaults' >= pipeFaults + 0
    BY <1>2, PipeAssumption DEF PipeInv, PipeBase, PipeRows
  <2> QED BY <1>0, <1>1, <1>3, <1>4, <2>1, FewStay
<1>6. RunOK'
  BY <1>0, <1>2, RunStays DEF Shifts
<1>7. StopOK'
  BY <1>0, <1>2 DEF StopOK, Phase
<1>8. NoLoss'
  <2>1. Phase("main") # "closed"
    BY <1>0, <1>2 DEF StopOK
  <2> QED BY <1>0, <1>1, <1>2, <2>1 DEF NoLoss, Phase
<1> QED BY <1>1, <1>5, <1>6, <1>7, <1>8 DEF PipeInv

\* A batch is taken.
LEMMA DrainsStep ==
    ASSUME PipeInv, NEW s \in Senders, NEW phase \in Phases, Drains(s, phase),
           s = "loop" => phase \in {"ticking", "triggered", "last"} /\ Phase("loop") # "done",
           s = "main" => phase \in {"flushing", "closing"} /\ Phase("main") = phase
    PROVE  PipeInv'
<1>0. PipeBase /\ NoLoss /\ StopOK /\ sender \in [Senders -> SenderRec]
  BY DEF PipeInv, PipeBase, SendersTyped
<1>1. PipeBase' /\ Waiting' = Waiting
  BY <1>0, DrainsBase
<1>2. /\ sender'[s].phase = phase /\ sender'[s].tries = 0
      /\ \A t \in Senders : t # s => sender'[t] = sender[t]
      /\ UNCHANGED <<stop, post, run, rows, accepted, overlap, pipeFaults>>
  BY <1>0 DEF Drains
<1>3. "loop" \in Senders /\ "main" \in Senders /\ s \in {"loop", "main"} /\ "loop" # "main"
  BY DEF Senders
<1>4. StopOK'
  BY <1>0, <1>2, <1>3 DEF StopOK, Phase
<1>5. MaxRetries > 1 /\ pipeFaults' = 0 =>
         /\ (Phase("main") \in {"closing", "closed"} => Phase("loop") = "done")'
         /\ (Phase("main") = "closed" => queue = <<>>)'
  BY <1>0, <1>2, <1>3 DEF NoLoss, Phase
<1>6. \A t \in Senders : sender'[t].tries # 0 => sender'[t].tries = sender[t].tries
  BY <1>2
<1> QED BY <1>1, <1>2, <1>4, <1>5, <1>6, ThreadStep

\* A thread goes on.
LEMMA MovesStep ==
    ASSUME PipeInv, NEW s \in Senders, NEW phase \in Phases, MovesTo(s, phase),
           stop' \in BOOLEAN, pipeFaults' \in 0 .. MaxPipeFaults,
           pipeFaults' = pipeFaults \/ pipeFaults' = pipeFaults + 1, stop => stop',
           s = "loop" => phase \in {"ticking", "triggered", "last", "done"} /\ Phase("loop") # "done",
           s = "main" => /\ phase \in {"free", "flushing", "joining", "closing"}
                         /\ phase \in {"joining", "closing"} => stop'
                         /\ phase = "closing" /\ pipeFaults' = pipeFaults => Phase("loop") = "done"
    PROVE  PipeInv'
<1>0. PipeBase /\ NoLoss /\ StopOK /\ sender[s] \in SenderRec /\ sender \in [Senders -> SenderRec]
  BY DEF PipeInv, PipeBase, SendersTyped
<1>1. PipeBase' /\ Waiting' = Waiting
  BY <1>0, MovesBase
<1>2. /\ sender'[s].phase = phase /\ sender'[s].tries = sender[s].tries
      /\ \A t \in Senders : t # s => sender'[t] = sender[t]
      /\ UNCHANGED <<queue, post, run, rows, accepted, overlap>>
  BY <1>0 DEF MovesTo, SenderRec
<1>3. "loop" \in Senders /\ "main" \in Senders /\ s \in {"loop", "main"} /\ "loop" # "main"
  BY DEF Senders
<1>4. pipeFaults \in Nat
  BY <1>0, PipeAssumption DEF PipeBase, PipeRows
<1>5. \A t \in Senders : sender'[t].tries # 0 => sender'[t].tries = sender[t].tries
  BY <1>2
<1>6. CASE s = "loop"
  <2>1. sender'["main"] = sender["main"]
    BY <1>2, <1>3, <1>6
  <2>2. StopOK'
    BY <1>0, <2>1 DEF StopOK, Phase
  <2>3. MaxRetries > 1 /\ pipeFaults' = 0 => Phase("main") \notin {"closing", "closed"}
    BY <1>0, <1>4, <1>6 DEF NoLoss
  <2>4. MaxRetries > 1 /\ pipeFaults' = 0 => Phase("main")' \notin {"closing", "closed"}
    BY <2>1, <2>3 DEF Phase
  <2>5. MaxRetries > 1 /\ pipeFaults' = 0 =>
         /\ (Phase("main") \in {"closing", "closed"} => Phase("loop") = "done")'
         /\ (Phase("main") = "closed" => queue = <<>>)'
    BY <2>4
  <2> QED BY <1>1, <1>2, <1>5, <2>2, <2>5, ThreadStep
<1>7. CASE s = "main"
  <2>1. sender'["loop"] = sender["loop"]
    BY <1>2, <1>3, <1>7
  <2>2. Phase("main")' = phase /\ Phase("loop")' = Phase("loop")
    BY <1>2, <1>7, <2>1 DEF Phase
  <2>3. StopOK'
    BY <1>7, <2>2 DEF StopOK
  <2>4. pipeFaults' = 0 => pipeFaults' = pipeFaults
    BY <1>4
  <2>5. MaxRetries > 1 /\ pipeFaults' = 0 =>
         /\ (Phase("main") \in {"closing", "closed"} => Phase("loop") = "done")'
         /\ (Phase("main") = "closed" => queue = <<>>)'
    BY <1>7, <2>2, <2>4
  <2> QED BY <1>1, <1>2, <1>5, <2>3, <2>5, ThreadStep
<1> QED BY <1>3, <1>6, <1>7

\* The client is closed.
LEMMA ClosesStep ==
    ASSUME PipeInv, ClientCloses, pipeFaults' = pipeFaults => queue = <<>>
    PROVE  PipeInv'
<1>0. PipeBase /\ FewCopies /\ RunOK /\ NoLoss /\ StopOK /\ pipeFaults \in Nat
  BY PipeAssumption DEF PipeInv, PipeBase, PipeRows
<1>1. /\ PipeBase' /\ Waiting' \subseteq Waiting
      /\ Resting("loop") => Waiting' = Waiting
      /\ sender'["main"].tries = sender["main"].tries /\ sender'["main"].phase = "closed"
      /\ sender'["loop"].tries = 0 /\ sender'["loop"].phase = "done"
      /\ \/ post' = post
         \/ \E p \in post : \E q \in Post :
               /\ post' = (post \ {p}) \cup {q}
               /\ p.by = "loop" /\ q.event = p.event /\ q.read = p.read /\ q.seen = p.seen
  <2>1. PipeBase /\ ClientCloses
    BY <1>0
  <2> QED BY <2>1, ClosesBase
<1>a. PipeBase'
  BY <1>1
<1>b. (\A e : Cardinality(Of(e)) \in Nat)'
  BY <1>a, AllOfAreFinite, PTL
<1>2. UNCHANGED <<queue, run, rows, accepted, overlap, stop>> /\ pipeFaults' \in {pipeFaults, pipeFaults + 1}
      /\ Phase("main") = "closing"
  BY DEF ClientCloses
<1>3. FewCopies'
  <2>1. ASSUME NEW e \in Events PROVE Copies(e)' <= Copies(e)
    <3>1. CASE post' = post
      BY <3>1, <1>0, <1>1, <1>2, CopiesStay
    <3>2. ASSUME NEW p \in post, NEW q \in Post, post' = (post \ {p}) \cup {q}, q.event = p.event
          PROVE  Copies(e)' <= Copies(e)
      <4>1. Cardinality(Of(e))' <= Cardinality(Of(e))
        <5>1. CASE e = p.event
          BY <5>1, <1>0, <3>2, NoneMore
        <5>2. CASE e # p.event
          <6>1. Of(e)' = Of(e) /\ Cardinality(Of(e)) \in Nat
            BY <5>2, <1>0, <3>2, NoneMore, OfIsFinite
          <6> QED BY <6>1
        <5> QED BY <5>1, <5>2
      <4>2. Cardinality(Of(e)) \in Nat /\ rows[e] \in Nat /\ rows'[e] = rows[e]
        BY <1>0, <1>2, OfIsFinite DEF PipeBase, PipeRows
      <4>3. Cardinality(Of(e))' \in Nat
        BY <1>b
      <4> QED BY <1>1, <4>1, <4>2, <4>3 DEF Copies
    <3> QED BY <1>1, <3>1, <3>2
  <2>2. pipeFaults' >= pipeFaults
    BY <1>0, <1>2
  <2> QED BY <1>0, <1>1, <2>1, <2>2, FewStaySo
<1>4. RunOK'
  <2>1. Shifts
    BY <1>1 DEF Shifts
  <2> QED BY <1>0, <1>2, <2>1, RunStays
<1>5. StopOK'
  BY <1>0, <1>2 DEF StopOK
<1>6. NoLoss'
  <2>1. SUFFICES ASSUME pipeFaults' = 0, MaxRetries > 1 PROVE NoLoss'
    BY DEF NoLoss
  <2>2. pipeFaults = 0 /\ queue = <<>> /\ Phase("loop") = "done"
    BY <1>0, <1>2, <2>1 DEF NoLoss
  <2>3. Resting("loop") /\ ~sender["loop"].out /\ "loop" \in Senders /\ "loop" # Gone
    <3>1. "loop" \in Senders /\ "loop" # Gone
      BY DEF Senders, Gone
    <3>2. SoundSender("loop", sender["loop"])
      BY <1>0, <3>1 DEF PipeBase, SendersOK
    <3> QED BY <2>2, <3>1, <3>2 DEF SoundSender, Phase, Resting
  <2>4. post' = post
    BY <1>0, <1>1, <2>3 DEF PipeBase, PostsOK
  <2>5. \A s \in Senders : sender'[s].tries # 0 => sender'[s].tries = sender[s].tries
    BY <1>1 DEF Senders
  <2>6. Phase("loop")' = "done" /\ queue' = <<>>
    BY <1>1, <1>2, <2>2 DEF Phase
  <2> QED BY <1>0, <1>1, <1>2, <2>2, <2>3, <2>4, <2>5, <2>6 DEF NoLoss
<1> QED BY <1>1, <1>3, <1>4, <1>5, <1>6 DEF PipeInv

\* A request is sent.
LEMMA SendStep ==
    ASSUME PipeInv, NEW s \in Senders, Send(s)
    PROVE  PipeInv'
<1>0. PipeBase /\ FewCopies /\ RunOK /\ NoLoss /\ StopOK /\ pipeFaults \in Nat
  BY PipeAssumption DEF PipeInv, PipeBase, PipeRows
<1>1. PICK p \in Post :
         /\ p \notin post /\ post' = post \cup {p} /\ p.read = FALSE
         /\ p.by = s /\ p.tries = sender[s].tries
         /\ p.event \in Waiting /\ Waiting' = Waiting \ {p.event}
  BY <1>0, SendBase
<1>2. /\ PipeBase'
      /\ sender'[s].tries = sender[s].tries /\ sender'[s].phase = sender[s].phase
      /\ \A t \in Senders : t # s => sender'[t] = sender[t]
      /\ UNCHANGED <<queue, stop, run, rows, accepted, overlap, pipeFaults>>
  BY <1>0, SendBase DEF Send
<1>3. FewCopies'
  <2>1. ASSUME NEW e \in Events PROVE Copies(e)' <= Copies(e)
    <3>1. rows[e] \in Nat /\ Cardinality(Of(e)) \in Nat /\ rows'[e] = rows[e]
      BY <1>0, <1>2, OfIsFinite DEF PipeBase, PipeRows
    <3>2. CASE e = p.event
      <4>1. Cardinality(Of(e))' = Cardinality(Of(e)) + 1
        BY <1>0, <1>1, <3>2, OneMorePost
      <4>2. e \in Waiting /\ e \notin Waiting'
        BY <1>1, <3>2
      <4> QED BY <3>1, <4>1, <4>2 DEF Copies
    <3>3. CASE e # p.event
      <4>1. Of(e)' = Of(e) /\ (e \in Waiting' => e \in Waiting)
        BY <1>0, <1>1, <3>3, OneMorePost
      <4> QED BY <3>1, <4>1 DEF Copies
    <3> QED BY <3>2, <3>3
  <2>2. pipeFaults' >= pipeFaults
    BY <1>0, <1>2
  <2> QED BY <1>0, <1>2, <2>1, <2>2, FewStaySo
<1>4. RunOK'
  <2>1. Shifts
    BY <1>1 DEF Shifts
  <2> QED BY <1>0, <1>2, <2>1, RunStays
<1>5. \A t \in Senders : sender'[t].phase = sender[t].phase /\ sender'[t].tries = sender[t].tries
  BY <1>2
<1>6. "loop" \in Senders /\ "main" \in Senders /\ s # Gone
  BY DEF Senders, Gone
<1>7. Phase("main")' = Phase("main") /\ Phase("loop")' = Phase("loop")
  BY <1>5, <1>6 DEF Phase
<1>8. StopOK'
  BY <1>0, <1>2, <1>7 DEF StopOK
<1>9. NoLoss'
  <2>1. SUFFICES ASSUME pipeFaults = 0, MaxRetries > 1 PROVE NoLoss'
    BY <1>2 DEF NoLoss
  <2>2. (\A e \in accepted \ Rejected :
              rows[e] # 0 \/ e \in Waiting \/ \E q \in post : q.event = e)'
    BY <1>0, <1>1, <1>2, <2>1 DEF NoLoss
  <2>3. \A q \in post' : q.by # Gone /\ (q.tries # 0 => run'.there /\ (q.read => q.seen.there))
    BY <1>0, <1>1, <1>2, <1>6, <2>1 DEF NoLoss
  <2>4. (\A t \in Senders : sender[t].tries # 0 => run.there)'
    BY <1>0, <1>2, <1>5, <2>1 DEF NoLoss
  <2>5. /\ (Phase("main") \in {"closing", "closed"} => Phase("loop") = "done")'
        /\ (Phase("main") = "closed" => queue = <<>>)'
    BY <1>0, <1>2, <1>7, <2>1 DEF NoLoss
  <2> QED BY <2>2, <2>3, <2>4, <2>5 DEF NoLoss
<1> QED BY <1>2, <1>3, <1>4, <1>8, <1>9 DEF PipeInv

\* Steps of the server: the threads keep their phases.
LEMMA PhasesStay ==
    ASSUME StopOK, stop' = stop, \A s \in Senders : sender'[s].phase = sender[s].phase
    PROVE  StopOK' /\ Phase("main")' = Phase("main") /\ Phase("loop")' = Phase("loop")
<1>1. "loop" \in Senders /\ "main" \in Senders
  BY DEF Senders
<1>2. Phase("main")' = Phase("main") /\ Phase("loop")' = Phase("loop")
  BY <1>1 DEF Phase
<1> QED BY <1>2 DEF StopOK

\* The backend reads the run.
LEMMA PostReadStep ==
    ASSUME PipeInv, NEW p \in post, PostRead(p)
    PROVE  PipeInv'
<1>0. PipeBase /\ FewCopies /\ RunOK /\ NoLoss /\ StopOK /\ pipeFaults \in Nat
  BY PipeAssumption DEF PipeInv, PipeBase, PipeRows
<1>1. PICK q \in Post : /\ post' = (post \ {p}) \cup {q} /\ q.event = p.event /\ q.by = p.by
                        /\ q.tries = p.tries /\ q.read = TRUE /\ q.seen = run
  BY <1>0, ReadBase
<1>2. PipeBase' /\ Waiting' = Waiting
  BY <1>0, ReadBase
<1>a. PipeBase'
  BY <1>2
<1>b. (\A e : Cardinality(Of(e)) \in Nat)'
  BY <1>a, AllOfAreFinite, PTL
<1>3. UNCHANGED <<queue, sender, stop, run, rows, accepted, pipeFaults>>
  BY DEF PostRead
<1>4. ASSUME NEW e \in Events PROVE Copies(e)' <= Copies(e)
  <2>1. rows[e] \in Nat /\ Cardinality(Of(e)) \in Nat /\ Cardinality(Of(e))' \in Nat /\ rows'[e] = rows[e]
    BY <1>0, <1>3, <1>b, OfIsFinite DEF PipeBase, PipeRows
  <2>2. Cardinality(Of(e))' <= Cardinality(Of(e))
    <3>1. CASE e = p.event
      BY <3>1, <1>0, <1>1, NoneMore
    <3>2. CASE e # p.event
      <4>1. Of(e)' = Of(e)
        BY <3>2, <1>0, <1>1, NoneMore
      <4> QED BY <2>1, <4>1
    <3> QED BY <3>1, <3>2
  <2> QED BY <1>2, <2>1, <2>2 DEF Copies
<1>5. FewCopies'
  <2>1. pipeFaults' >= pipeFaults
    BY <1>0, <1>3
  <2> QED BY <1>0, <1>2, <1>4, <2>1, FewStaySo
<1>6. RunOK'
  BY <1>0, RunIsRead
<1>7. StopOK'
  BY <1>0, <1>3 DEF StopOK, Phase
<1>8. NoLoss'
  <2>1. SUFFICES ASSUME pipeFaults = 0, MaxRetries > 1 PROVE NoLoss'
    BY <1>3 DEF NoLoss
  <2>2. (\A e \in accepted \ Rejected :
              rows[e] # 0 \/ e \in Waiting \/ \E r \in post : r.event = e)'
    BY <1>0, <1>1, <1>2, <1>3, <2>1 DEF NoLoss
  <2>3. \A r \in post' : r.by # Gone /\ (r.tries # 0 => run'.there /\ (r.read => r.seen.there))
    BY <1>0, <1>1, <1>3, <2>1 DEF NoLoss
  <2>4. /\ (\A t \in Senders : sender[t].tries # 0 => run.there)'
        /\ (Phase("main") \in {"closing", "closed"} => Phase("loop") = "done")'
        /\ (Phase("main") = "closed" => queue = <<>>)'
    BY <1>0, <1>3, <2>1 DEF NoLoss, Phase
  <2> QED BY <2>2, <2>3, <2>4 DEF NoLoss
<1> QED BY <1>2, <1>5, <1>6, <1>7, <1>8 DEF PipeInv

\* A request ends, its event stored or refused.
LEMMA AnswerStep ==
    ASSUME PipeInv, NEW p \in post, Answer(p), RunOK', PipeRows',
           UNCHANGED <<queue, stop, accepted, overlap, pipeFaults>>,
           run.there => run'.there,
           \A e \in Events : e # p.event => rows'[e] = rows[e],
           \/ rows'[p.event] = rows[p.event] + 1
           \/ rows'[p.event] = rows[p.event] /\ p.event \in Rejected
    PROVE  PipeInv'
<1>0. PipeBase /\ FewCopies /\ RunOK /\ NoLoss /\ StopOK /\ pipeFaults \in Nat /\ p.event \in Events
  BY PipeAssumption DEF PipeInv, PipeBase, PipeRows, PostsOK, Post
<1>1. \A e \in Events : rows'[e] # 0 => rows[e] # 0 \/ e = p.event
  OBVIOUS
<1>2. /\ PipeBase' /\ Waiting' = Waiting /\ post' = post \ {p}
      /\ \A s \in Senders : /\ sender'[s].phase = sender[s].phase
                            /\ sender'[s].tries # 0 => sender'[s].tries = sender[s].tries
  BY <1>0, <1>1, AnswerBase
<1>a. PipeBase'
  BY <1>2
<1>b. (\A e : Cardinality(Of(e)) \in Nat)'
  BY <1>a, AllOfAreFinite, PTL
<1>3. rows[p.event] \in Nat /\ rows'[p.event] \in Nat
  BY <1>0 DEF PipeBase, PipeRows
<1>4. ASSUME NEW e \in Events PROVE Copies(e)' <= Copies(e)
  <2>1. rows[e] \in Nat /\ Cardinality(Of(e)) \in Nat /\ Cardinality(Of(e))' \in Nat
    BY <1>0, <1>b, OfIsFinite DEF PipeBase, PipeRows
  <2>2. CASE e = p.event
    <3>1. Cardinality(Of(e))' + 1 = Cardinality(Of(e))
      BY <2>2, <1>0, <1>2, OneLess
    <3>2. rows'[e] <= rows[e] + 1 /\ rows'[e] \in Nat
      BY <1>3, <2>2
    <3> QED BY <1>2, <2>1, <3>1, <3>2 DEF Copies
  <2>3. CASE e # p.event
    <3>1. Of(e)' = Of(e) /\ rows'[e] = rows[e]
      BY <2>3, <1>0, <1>2, OneLess
    <3> QED BY <1>2, <2>1, <3>1 DEF Copies
  <2> QED BY <2>2, <2>3
<1>5. FewCopies'
  <2>1. pipeFaults' >= pipeFaults
    BY <1>0
  <2> QED BY <1>0, <1>2, <1>4, <2>1, FewStaySo
<1>6. StopOK' /\ Phase("main")' = Phase("main") /\ Phase("loop")' = Phase("loop")
  BY <1>0, <1>2, PhasesStay
<1>7. NoLoss'
  <2>1. SUFFICES ASSUME pipeFaults = 0, MaxRetries > 1 PROVE NoLoss'
    BY DEF NoLoss
  <2>2. ASSUME NEW e \in accepted' \ Rejected
        PROVE  rows'[e] # 0 \/ e \in Waiting' \/ \E r \in post' : r.event = e
    <3>1. e \in Events /\ (rows[e] # 0 \/ e \in Waiting \/ \E r \in post : r.event = e)
      BY <1>0, <2>1 DEF NoLoss, PipeBase, PipeRows
    <3>2. CASE e = p.event
      BY <3>2, <1>3
    <3>3. CASE e # p.event
      BY <3>1, <3>3, <1>2
    <3> QED BY <3>2, <3>3
  <2>3. \A r \in post' : r.by # Gone /\ (r.tries # 0 => run'.there /\ (r.read => r.seen.there))
    BY <1>0, <1>2, <2>1 DEF NoLoss
  <2>4. (\A t \in Senders : sender[t].tries # 0 => run.there)'
    BY <1>0, <1>2, <2>1 DEF NoLoss
  <2>5. /\ (Phase("main") \in {"closing", "closed"} => Phase("loop") = "done")'
        /\ (Phase("main") = "closed" => queue = <<>>)'
    BY <1>0, <1>6, <2>1 DEF NoLoss
  <2> QED BY <2>2, <2>3, <2>4, <2>5 DEF NoLoss
<1> QED BY <1>2, <1>5, <1>6, <1>7 DEF PipeInv

\* The backend refuses an event.
LEMMA RejectStep ==
    ASSUME PipeInv, NEW p \in post, Reject(p)
    PROVE  PipeInv'
<1>1. /\ Answer(p) /\ p.event \in Rejected
      /\ UNCHANGED <<queue, stop, run, rows, accepted, overlap, pipeFaults>>
  BY DEF Reject
<1>2. RunOK'
  <2>1. Shifts
    BY <1>1 DEF Shifts, Answer
  <2> QED BY <1>1, <2>1, RunStays DEF PipeInv
<1>3. PipeRows'
  BY <1>1 DEF PipeInv, PipeBase, PipeRows
<1> QED BY <1>1, <1>2, <1>3, AnswerStep

\* The backend commits an event.
LEMMA CommitStep ==
    ASSUME PipeInv, NEW p \in post, PostCommit(p)
    PROVE  PipeInv'
<1>1. /\ Answer(p)
      /\ UNCHANGED <<queue, stop, accepted, overlap, pipeFaults>>
  BY DEF PostCommit
<1>2. /\ RunOK' /\ (run.there => run'.there) /\ run' \in RunRec
      /\ rows' \in [Events -> Nat] /\ rows'[p.event] = rows[p.event] + 1
      /\ \A e \in Events : e # p.event => rows'[e] = rows[e]
  BY RunIsCharged DEF PipeInv
<1>3. PipeRows'
  BY <1>1, <1>2 DEF PipeInv, PipeBase, PipeRows
<1> QED BY <1>1, <1>2, <1>3, AnswerStep

\* A request ends with an error: a fault, or the run that another inserted.
LEMMA ErrorStep ==
    ASSUME PipeInv, NEW p \in post, ErrorAnswer(p),
           UNCHANGED <<queue, stop, run, rows, accepted, overlap>>,
           \/ pipeFaults' = pipeFaults /\ p.read /\ ~p.seen.there /\ run.there
           \/ PipeFault
    PROVE  PipeInv'
<1>0. PipeBase /\ FewCopies /\ RunOK /\ NoLoss /\ StopOK /\ pipeFaults \in Nat
  BY PipeAssumption DEF PipeInv, PipeBase, PipeRows
<1>1. PipeRows'
  <2>1. pipeFaults' \in 0 .. MaxPipeFaults
    BY <1>0, PipeAssumption DEF PipeBase, PipeRows, PipeFault
  <2> QED BY <1>0, <2>1 DEF PipeBase, PipeRows
<1>2. /\ PipeBase' /\ post' = post \ {p}
      /\ Waiting \subseteq Waiting' /\ Waiting' \subseteq Waiting \cup {p.event}
      /\ p.by # Gone /\ p.tries = 0 /\ MaxRetries > 1 => p.event \in Waiting'
      /\ \A s \in Senders : sender'[s].phase = sender[s].phase
      /\ \A s \in Senders : s # p.by => sender'[s] = sender[s]
  BY <1>0, <1>1, ErrorBase
<1>a. PipeBase'
  BY <1>2
<1>b. (\A e : Cardinality(Of(e)) \in Nat)'
  BY <1>a, AllOfAreFinite, PTL
<1>3. ASSUME NEW e \in Events PROVE Copies(e)' <= Copies(e)
  <2>1. rows[e] \in Nat /\ Cardinality(Of(e)) \in Nat /\ Cardinality(Of(e))' \in Nat /\ rows'[e] = rows[e]
    BY <1>0, <1>b, OfIsFinite DEF PipeBase, PipeRows
  <2>2. CASE e = p.event
    <3>1. Cardinality(Of(e))' + 1 = Cardinality(Of(e))
      BY <2>2, <1>0, <1>2, OneLess
    <3> QED BY <2>1, <3>1 DEF Copies
  <2>3. CASE e # p.event
    <3>1. Of(e)' = Of(e) /\ (e \in Waiting' => e \in Waiting)
      BY <2>3, <1>0, <1>2, OneLess
    <3> QED BY <2>1, <3>1 DEF Copies
  <2> QED BY <2>2, <2>3
<1>4. FewCopies'
  <2>1. pipeFaults' >= pipeFaults
    BY <1>0 DEF PipeFault
  <2> QED BY <1>0, <1>2, <1>3, <2>1, FewStaySo
<1>5. RunOK'
  <2>1. Shifts
    BY <1>2 DEF Shifts
  <2> QED BY <1>0, <2>1, RunStays
<1>6. StopOK' /\ Phase("main")' = Phase("main") /\ Phase("loop")' = Phase("loop")
  BY <1>0, <1>2, PhasesStay
<1>7. NoLoss'
  <2>1. SUFFICES ASSUME pipeFaults' = 0, MaxRetries > 1 PROVE NoLoss'
    BY DEF NoLoss
  <2>2. pipeFaults = 0 /\ p.read /\ ~p.seen.there /\ run.there
    BY <1>0, <2>1 DEF PipeFault
  <2>3. p.event \in Waiting'
    BY <1>0, <1>2, <2>1, <2>2 DEF NoLoss
  <2>4. (\A e \in accepted \ Rejected :
              rows[e] # 0 \/ e \in Waiting \/ \E r \in post : r.event = e)'
    BY <1>0, <1>2, <2>1, <2>2, <2>3 DEF NoLoss
  <2>5. \A r \in post' : r.by # Gone /\ (r.tries # 0 => run'.there /\ (r.read => r.seen.there))
    BY <1>0, <1>2, <2>1, <2>2 DEF NoLoss
  <2>6. (\A t \in Senders : sender[t].tries # 0 => run.there)'
    BY <2>2
  <2>7. /\ (Phase("main") \in {"closing", "closed"} => Phase("loop") = "done")'
        /\ (Phase("main") = "closed" => queue = <<>>)'
    BY <1>0, <1>6, <2>1, <2>2 DEF NoLoss
  <2> QED BY <2>4, <2>5, <2>6, <2>7 DEF NoLoss
<1> QED BY <1>2, <1>4, <1>5, <1>6, <1>7 DEF PipeInv

\* A request is given up.
LEMMA TimeoutStep ==
    ASSUME PipeInv, NEW p \in post, Timeout(p)
    PROVE  PipeInv'
<1>0. /\ PipeBase /\ FewCopies /\ RunOK /\ NoLoss /\ StopOK /\ pipeFaults \in Nat
      /\ p.event \in Events
  BY PipeAssumption DEF PipeInv, PipeBase, PipeRows, PostsOK, Post
<1>1. PICK q \in Post : /\ post' = (post \ {p}) \cup {q} /\ q.event = p.event
                        /\ q.read = p.read /\ q.seen = p.seen
  BY <1>0, TimeoutBase
<1>2. /\ PipeBase' /\ Waiting' \subseteq Waiting \cup {p.event}
      /\ \A s \in Senders : sender'[s].phase = sender[s].phase
  BY <1>0, TimeoutBase
<1>a. PipeBase'
  BY <1>2
<1>b. (\A e : Cardinality(Of(e)) \in Nat)'
  BY <1>a, AllOfAreFinite, PTL
<1>3. /\ UNCHANGED <<queue, stop, run, rows, accepted, overlap>>
      /\ pipeFaults' = pipeFaults + 1
  BY DEF Timeout, PipeFault
<1>4. /\ \A e \in Events : e # p.event => Copies(e)' <= Copies(e)
      /\ Copies(p.event)' <= Copies(p.event) + 1
  <2>1. \A e \in Events : /\ rows[e] \in Nat /\ Cardinality(Of(e)) \in Nat
                          /\ Cardinality(Of(e))' \in Nat /\ rows'[e] = rows[e]
    BY <1>0, <1>3, <1>b, OfIsFinite DEF PipeBase, PipeRows
  <2>2. Copies(p.event)' <= Copies(p.event) + 1
    <3>1. Cardinality(Of(p.event))' <= Cardinality(Of(p.event))
      BY <1>0, <1>1, NoneMore
    <3> QED BY <1>0, <2>1, <3>1 DEF Copies
  <2>3. ASSUME NEW e \in Events, e # p.event PROVE Copies(e)' <= Copies(e)
    <3>1. Of(e)' = Of(e) /\ (e \in Waiting' => e \in Waiting)
      BY <2>3, <1>0, <1>1, <1>2, NoneMore
    <3> QED BY <2>1, <3>1 DEF Copies
  <2> QED BY <2>2, <2>3
<1>5. FewCopies'
  <2>1. pipeFaults' >= pipeFaults + 1
    BY <1>0, <1>3
  <2> QED BY <1>0, <1>2, <1>4, <2>1, FewStay
<1>6. RunOK'
  <2>1. Shifts
    BY <1>1 DEF Shifts
  <2> QED BY <1>0, <1>3, <2>1, RunStays
<1>7. StopOK'
  BY <1>0, <1>2, <1>3, PhasesStay
<1>8. NoLoss'
  BY <1>0, <1>3 DEF NoLoss
<1> QED BY <1>2, <1>5, <1>6, <1>7, <1>8 DEF PipeInv

\* It holds when nothing was emitted.
LEMMA PipeStart == PipeInit => PipeInv
<1> SUFFICES ASSUME PipeInit PROVE PipeInv
  OBVIOUS
<1>1. /\ queue = <<>> /\ stop = FALSE /\ post = {} /\ run = Absent
      /\ rows = [e \in Events |-> 0] /\ accepted = {} /\ overlap = FALSE /\ pipeFaults = 0
      /\ sender = [s \in Senders |-> [phase |-> IF s = "loop" THEN "ticking" ELSE "free",
                                    batch |-> <<>>, tries |-> 0, out |-> FALSE]]
  BY DEF PipeInit
<1>2. /\ MaxQueue \in Nat \ {0} /\ MaxRetries \in Nat \ {0} /\ BatchSize \in Nat \ {0}
      /\ MaxPipeFaults \in Nat /\ IsFiniteSet(Events)
  BY PipeAssumption
<1>3. "loop" \in Senders /\ "main" \in Senders /\ Senders = {"loop", "main"} /\ "loop" # "main"
  BY DEF Senders
<1>4. PipeRows
  <2>1. <<>> \in Seq(Events) /\ Len(<<>>) <= MaxQueue
    BY <1>2
  <2>2. run \in RunRec
    BY <1>1 DEF Absent, RunRec
  <2>3. rows \in [Events -> Nat] /\ accepted \subseteq Events /\ pipeFaults \in 0 .. MaxPipeFaults
    BY <1>1, <1>2
  <2> QED BY <1>1, <2>1, <2>2, <2>3 DEF PipeRows
<1>5. \A s \in Senders : /\ sender[s].batch = <<>> /\ sender[s].tries = 0 /\ sender[s].out = FALSE
                         /\ sender[s].phase = IF s = "loop" THEN "ticking" ELSE "free"
  BY <1>1
<1>6. SendersTyped
  <2>1. 0 \in 0 .. MaxRetries - 1 /\ <<>> \in Seq(Events)
    BY <1>2
  <2>2. "ticking" \in Phases /\ "free" \in Phases
    BY DEF Phases
  <2> QED BY <1>1, <2>1, <2>2 DEF SendersTyped, SenderRec
<1>7. SendersOK
  <2>1. Len(<<>>) <= BatchSize
    BY <1>2
  <2> QED BY <2>1, <1>3, <1>5, NoElems DEF SendersOK, SoundSender
<1>8. PostsOK
  BY <1>1, <1>5, FS_EmptySet DEF PostsOK
<1>9. PlacesOK
  BY <1>1, <1>5, NoElems DEF PlacesOK
<1>10. Waiting = {}
  BY <1>1, <1>3, <1>5, NoElems DEF Waiting, Unsent
<1>11. FewCopies
  <2>1. ASSUME NEW e \in Events PROVE Extras[e] = 0
    <3>1. rows[e] = 0 /\ Of(e) = {} /\ Cardinality({}) = 0
      BY <1>1, FS_EmptySet DEF Of
    <3>2. Copies(e) = 0
      BY <1>10, <3>1 DEF Copies
    <3> QED BY <3>2 DEF Extras, Extra
  <2>2. Total(Extras, Events) = 0
    BY <1>2, <2>1, TotalOfZeros
  <2> QED BY <1>1, <2>2 DEF FewCopies
<1>12. RunOK
  <2>1. \A e \in Events : Costs[e] = 0
    BY <1>1 DEF Costs, Cost
  <2>2. Spent = 0
    BY <1>2, <2>1, TotalOfZeros DEF Spent
  <2> QED BY <1>1, <2>2 DEF RunOK, Absent
<1>13. Phase("main") = "free"
  BY <1>3, <1>5 DEF Phase
<1>14. StopOK /\ NoLoss
  BY <1>1, <1>5, <1>13 DEF StopOK, NoLoss
<1> QED BY <1>4, <1>6, <1>7, <1>8, <1>9, <1>11, <1>12, <1>14 DEF PipeInv, PipeBase

\* A step of a thread's loop.
LEMMA LoopSteps ==
    ASSUME PipeInv, LoopTick \/ LoopStop \/ LoopEnd
    PROVE  PipeInv'
<1>1. /\ "loop" \in Senders /\ "loop" # "main"
      /\ {"ticking", "triggered", "last", "done"} \subseteq Phases
  BY DEF Senders, Phases
<1>2. stop \in BOOLEAN /\ pipeFaults \in 0 .. MaxPipeFaults
  BY DEF PipeInv, PipeBase, PipeRows
<1>3. CASE LoopTick
  <2>1. Drains("loop", "ticking") /\ Phase("loop") # "done"
    BY <1>3 DEF LoopTick
  <2> QED BY <1>1, <2>1, DrainsStep
<1>4. CASE LoopStop
  <2>1. Phase("loop") # "done" /\ (Drains("loop", "triggered") \/ Drains("loop", "last"))
    BY <1>4 DEF LoopStop
  <2> QED BY <1>1, <2>1, DrainsStep
<1>5. CASE LoopEnd
  <2>1. /\ MovesTo("loop", "done") /\ Phase("loop") # "done"
        /\ stop' = stop /\ pipeFaults' = pipeFaults
    BY <1>5 DEF LoopEnd
  <2> QED BY <1>1, <1>2, <2>1, MovesStep
<1> QED BY <1>3, <1>4, <1>5

\* A step of flush or shutdown.
LEMMA MainSteps ==
    ASSUME PipeInv, Flush \/ FlushBatch \/ FlushEnd \/ CloseClient \/ Join
    PROVE  PipeInv'
<1>1. /\ "main" \in Senders /\ "loop" # "main"
      /\ {"free", "flushing", "joining", "closing"} \subseteq Phases
  BY DEF Senders, Phases
<1>2. stop \in BOOLEAN /\ pipeFaults \in 0 .. MaxPipeFaults /\ MaxPipeFaults \in Nat /\ StopOK
  BY PipeAssumption DEF PipeInv, PipeBase, PipeRows
<1>3. PipeFault => pipeFaults' \in 0 .. MaxPipeFaults /\ pipeFaults' = pipeFaults + 1
                   /\ pipeFaults' # pipeFaults
  BY <1>2 DEF PipeFault
<1>4. CASE Flush
  <2>1. MovesTo("main", "flushing") /\ stop' = stop /\ pipeFaults' = pipeFaults
    BY <1>4 DEF Flush
  <2> QED BY <1>1, <1>2, <2>1, MovesStep
<1>5. CASE FlushBatch
  <2>1. PICK phase \in {"flushing", "closing"} : phase = Phase("main") /\ Drains("main", phase)
    BY <1>5 DEF FlushBatch
  <2> QED BY <1>1, <2>1, DrainsStep
<1>6. CASE FlushEnd
  <2>1. CASE MovesTo("main", "free")
    <3>1. /\ stop' = stop /\ pipeFaults' \in 0 .. MaxPipeFaults
          /\ pipeFaults' = pipeFaults \/ pipeFaults' = pipeFaults + 1
      BY <1>2, <1>3, <1>6 DEF FlushEnd
    <3> QED BY <1>1, <1>2, <2>1, <3>1, MovesStep
  <2>2. CASE ~ MovesTo("main", "free")
    <3>1. ClientCloses
      BY <1>2, <1>3, <1>6, <2>2 DEF FlushEnd, ClientCloses
    <3>2. pipeFaults' = pipeFaults => queue = <<>>
      BY <1>3, <1>6 DEF FlushEnd
    <3> QED BY <3>1, <3>2, ClosesStep
  <2> QED BY <2>1, <2>2
<1>7. CASE CloseClient
  <2>1. MovesTo("main", "joining") /\ stop' = TRUE /\ pipeFaults' = pipeFaults
    BY <1>7 DEF CloseClient, Stops
  <2> QED BY <1>1, <1>2, <2>1, MovesStep
<1>8. CASE Join
  <2>1. /\ MovesTo("main", "closing") /\ stop' = stop /\ pipeFaults' \in 0 .. MaxPipeFaults
        /\ pipeFaults' = pipeFaults \/ pipeFaults' = pipeFaults + 1
        /\ pipeFaults' = pipeFaults => Phase("loop") = "done"
        /\ Phase("main") = "joining"
    BY <1>2, <1>3, <1>8 DEF Join
  <2>2. stop'
    BY <1>2, <2>1 DEF StopOK
  <2> QED BY <1>1, <1>2, <2>1, <2>2, MovesStep
<1> QED BY <1>4, <1>5, <1>6, <1>7, <1>8

\* Every step keeps it.
LEMMA PipeStep == PipeInv /\ PipeNext => PipeInv'
<1> SUFFICES ASSUME PipeInv, PipeNext PROVE PipeInv'
  OBVIOUS
<1>1. CASE \E e \in Events : Emit(e)
  BY <1>1, EmitStep
<1>2. CASE LoopTick \/ LoopStop \/ LoopEnd
  BY <1>2, LoopSteps
<1>3. CASE Flush \/ FlushBatch \/ FlushEnd \/ CloseClient \/ Join
  BY <1>3, MainSteps
<1>4. CASE \E s \in Senders : Send(s)
  BY <1>4, SendStep
<1>5. ASSUME NEW p \in post,
             \/ Timeout(p) \/ Reject(p) \/ PostRead(p) \/ PostCommit(p)
             \/ PostConflict(p) \/ PostFails(p)
      PROVE  PipeInv'
  <2>1. CASE Timeout(p)
    BY <2>1, TimeoutStep
  <2>2. CASE Reject(p)
    BY <2>2, RejectStep
  <2>3. CASE PostRead(p)
    BY <2>3, PostReadStep
  <2>4. CASE PostCommit(p)
    BY <2>4, CommitStep
  <2>5. CASE PostConflict(p)
    BY <2>5, ErrorStep DEF PostConflict
  <2>6. CASE PostFails(p)
    BY <2>6, ErrorStep DEF PostFails
  <2> QED BY <1>5, <2>1, <2>2, <2>3, <2>4, <2>5, <2>6
<1> QED BY <1>1, <1>2, <1>3, <1>4, <1>5 DEF PipeNext

\* And so does no step.
LEMMA PipeHold == PipeInv /\ UNCHANGED pipeVars => PipeInv'
<1> SUFFICES ASSUME PipeInv, UNCHANGED pipeVars PROVE PipeInv'
  OBVIOUS
<1>1. UNCHANGED <<queue, sender, stop, post, run, rows, accepted, overlap, pipeFaults>>
  BY DEF pipeVars
<1>2. Waiting' = Waiting /\ \A e : Of(e)' = Of(e)
  BY <1>1 DEF Waiting, Of
<1>3. PipeBase'
  BY <1>1 DEF PipeInv, PipeBase, PipeRows, SendersTyped, SendersOK, PostsOK, PlacesOK
<1>4. Extras' = Extras /\ Spent' = Spent
  BY <1>1, <1>2 DEF Extras, Extra, Copies, Spent, Costs
<1>5. FewCopies' /\ RunOK' /\ StopOK' /\ NoLoss'
  BY <1>1, <1>2, <1>4 DEF PipeInv, FewCopies, RunOK, StopOK, NoLoss, Phase
<1> QED BY <1>3, <1>5 DEF PipeInv

-----------------------------------------------------------------------------
(* The theorems. *)

\* So it holds throughout.
LEMMA PipeInvHolds == PipeSpec => []PipeInv
<1>1. PipeInv /\ [PipeNext]_pipeVars => PipeInv'
  BY PipeStep, PipeHold
<1> QED BY <1>1, PipeStart, PTL DEF PipeSpec

\* It has the types.
LEMMA PipeTyped == PipeInv => PipeTypeOK
<1> SUFFICES ASSUME PipeInv PROVE PipeTypeOK
  OBVIOUS
<1>1. ASSUME NEW s \in Senders
      PROVE  /\ Len(sender[s].batch) <= BatchSize
             /\ Cardinality({p \in post : p.by = s}) = IF sender[s].out THEN 1 ELSE 0
  <2>1. SoundSender(s, sender[s]) /\ s # Gone
    BY DEF PipeInv, PipeBase, SendersOK, Senders, Gone
  <2>2. CASE sender[s].out
    <3>1. PICK p \in post : p.by = s
      BY <2>2 DEF PipeInv, PipeBase, PostsOK
    <3>2. {q \in post : q.by = s} = {p}
      BY <2>1, <3>1 DEF PipeInv, PipeBase, PostsOK
    <3>3. Cardinality({p}) = 1
      BY FS_Singleton
    <3> QED BY <2>1, <2>2, <3>2, <3>3 DEF SoundSender
  <2>3. CASE ~sender[s].out
    <3>1. {q \in post : q.by = s} = {}
      BY <2>1, <2>3 DEF PipeInv, PipeBase, PostsOK
    <3> QED BY <2>1, <2>3, <3>1, FS_EmptySet DEF SoundSender
  <2> QED BY <2>2, <2>3
<1>2. /\ queue \in Seq(Events) /\ Len(queue) <= MaxQueue
      /\ stop \in BOOLEAN /\ overlap \in BOOLEAN
      /\ post \subseteq Post
      /\ run \in [there : BOOLEAN, cost : Nat]
      /\ rows \in [Events -> Nat] /\ accepted \subseteq Events
      /\ pipeFaults \in 0 .. MaxPipeFaults
  BY DEF PipeInv, PipeBase, PipeRows, PostsOK, RunRec
<1>3. sender \in [Senders -> [phase : Phases, batch : Seq(Events),
                                tries : 0 .. MaxRetries - 1, out : BOOLEAN]]
  BY DEF PipeInv, PipeBase, SendersTyped, SenderRec
<1> QED BY <1>1, <1>2, <1>3 DEF PipeTypeOK

\* Queue, batches and requests keep their types and bounds (sdk/lightsei/_client.py,
\* the ingestion route of main.py).
THEOREM PipeTypesOK == PipeSpec => []PipeTypeOK
BY PipeInvHolds, PipeTyped, PTL

\* The sums of the property are the sums of the invariant.
Surplus == [e \in Events |-> Duplicates(e)]

\* So they are.
LEMMA DuplicatesAre == MapThenSumSet(Duplicates, Events) = Total(Surplus, Events)
<1> DEFINE Sums(h) == h = [s \in SUBSET Events |->
             IF s = {} THEN 0
             ELSE Duplicates(CHOOSE x \in s : TRUE) + h[s \ {CHOOSE x \in s : TRUE}]]
<1>1. \A s \in SUBSET Events : s # {} =>
        Surplus[CHOOSE x \in s : TRUE] = Duplicates(CHOOSE x \in s : TRUE)
  BY DEF Surplus
<1>2. \A h : Sums(h) <=> SumsOf(h, Surplus, Events)
  BY <1>1 DEF SumsOf
<1>3. PICK g : SumsOf(g, Surplus, Events)
  BY SumsExist, PipeAssumption
<1>4. \A h : Sums(h) => h = g
  BY <1>2, <1>3, SumsAreUnique, PipeAssumption
<1>5. Sums(g)
  BY <1>2, <1>3
<1>6. MapThenSumSet(Duplicates, Events) = g[Events]
  BY <1>4, <1>5, Zenon DEF MapThenSumSet, MapThenFoldSet
<1> QED BY <1>3, <1>6, TotalIs, PipeAssumption, Zenon

\* What is spent.
LEMMA SpentIs == MapThenSumSet(LAMBDA e : rows[e] * Cost(e), Events) = Spent
<1> DEFINE Sums(h) == h = [s \in SUBSET Events |->
             IF s = {} THEN 0
             ELSE (rows[CHOOSE x \in s : TRUE] * Cost(CHOOSE x \in s : TRUE))
                  + h[s \ {CHOOSE x \in s : TRUE}]]
<1>1. \A s \in SUBSET Events : s # {} =>
        Costs[CHOOSE x \in s : TRUE] = rows[CHOOSE x \in s : TRUE] * Cost(CHOOSE x \in s : TRUE)
  BY DEF Costs
<1>2. \A h : Sums(h) <=> SumsOf(h, Costs, Events)
  BY <1>1 DEF SumsOf
<1>3. PICK g : SumsOf(g, Costs, Events)
  BY SumsExist, PipeAssumption
<1>4. \A h : Sums(h) => h = g
  BY <1>2, <1>3, SumsAreUnique, PipeAssumption
<1>5. Sums(g) /\ Spent = g[Events]
  BY <1>2, <1>3, TotalIs, PipeAssumption DEF Spent
<1> QED BY <1>4, <1>5, Zenon DEF MapThenSumSet, MapThenFoldSet

\* It is the property.
LEMMA StoredSo == PipeInv => EventsStored
<1> SUFFICES ASSUME PipeInv PROVE EventsStored
  OBVIOUS
<1>0. PipeBase /\ FewCopies /\ RunOK /\ NoLoss /\ StopOK /\ pipeFaults \in Nat /\ IsFiniteSet(Events)
  BY PipeAssumption DEF PipeInv, PipeBase, PipeRows
<1>1. PICK v : v = Surplus
  OBVIOUS
<1>2. \A e \in Events : /\ v[e] \in Nat /\ Extras[e] \in Nat /\ v[e] <= Extras[e]
                        /\ rows[e] \in Nat /\ Copies(e) \in Nat /\ rows[e] <= Copies(e)
                        /\ Extras[e] = Extra(e)
  <2>1. ASSUME NEW e \in Events
        PROVE  /\ v[e] \in Nat /\ Extras[e] \in Nat /\ v[e] <= Extras[e]
               /\ rows[e] \in Nat /\ Copies(e) \in Nat /\ rows[e] <= Copies(e)
               /\ Extras[e] = Extra(e)
    <3>1. rows[e] \in Nat /\ Copies(e) \in Nat /\ Extra(e) \in Nat /\ Cardinality(Of(e)) \in Nat
      BY <1>0, CopiesAreNumbers, OfIsFinite
    <3>2. rows[e] <= Copies(e)
      BY <3>1 DEF Copies
    <3>3. v[e] = IF rows[e] > 1 THEN rows[e] - 1 ELSE 0
      BY <1>1 DEF Surplus, Duplicates
    <3>4. Extras[e] = Extra(e)
      BY DEF Extras
    <3> QED BY <3>1, <3>2, <3>3, <3>4 DEF Extra
  <2> QED BY <2>1
<1>3. Total(v, Events) <= pipeFaults
  <2>1. PICK k : k \notin Events
    BY NoSetContainsEverything
  <2>2. PICK w : w = Extras
    OBVIOUS
  <2>3. \A e \in Events : w[e] \in Nat /\ v[e] \in Nat
    BY <1>2, <2>2
  <2>4. \A e \in Events : e # k => v[e] <= w[e]
    BY <1>2, <2>2
  <2>5. Total(v, Events) <= Total(w, Events) + 0
    BY <1>0, <2>1, <2>3, <2>4, TotalGrows
  <2>6. Total(v, Events) \in Nat /\ Total(w, Events) \in Nat
    BY <1>0, <2>3, TotalIsNat
  <2> QED BY <1>0, <2>2, <2>5, <2>6 DEF FewCopies
<1>4. ASSUME Phase("main") = "closed", pipeFaults = 0, MaxRetries > 1, NEW e \in accepted \ Rejected
      PROVE  rows[e] = 1
  <2>1. /\ e \in Events /\ queue = <<>> /\ Phase("loop") = "done"
        /\ rows[e] # 0 \/ e \in Waiting \/ \E p \in post : p.event = e
    BY <1>0, <1>4 DEF NoLoss, PipeBase, PipeRows
  <2>2. Resting("loop") /\ Resting("main") /\ "loop" \in Senders /\ "main" \in Senders
        /\ ~sender["loop"].out /\ ~sender["main"].out
    <3>1. "loop" \in Senders /\ "main" \in Senders
      BY DEF Senders
    <3> QED BY <1>0, <1>4, <2>1, <3>1 DEF PipeBase, SendersOK, SoundSender, Resting, Phase
  <2>3. Waiting = {}
    BY <1>0, <2>1, <2>2, NoElems, SenderFacts DEF Waiting
  <2>4. post = {}
    <3>1. ASSUME NEW p \in post PROVE FALSE
      <4>1. p.by # Gone /\ p.by \in {"loop", "main"}
        BY <1>0, <1>4 DEF NoLoss, PipeBase, PostsOK, Post, Senders
      <4> QED BY <1>0, <2>2, <4>1 DEF PipeBase, PostsOK
    <3> QED BY <3>1
  <2>5. rows[e] # 0 /\ rows[e] \in Nat
    BY <1>2, <2>1, <2>3, <2>4
  <2>6. Extra(e) = 0
    <3>1. PICK w : w = Extras
      OBVIOUS
    <3>2. PICK z : z = [f \in Events |-> IF f = e THEN w[e] ELSE 0]
      OBVIOUS
    <3>3. PICK o : o = [f \in Events |-> 0]
      OBVIOUS
    <3>4. w[e] \in Nat /\ \A f \in Events : w[f] \in Nat /\ z[f] \in Nat /\ z[f] <= w[f] /\ o[f] = 0
      BY <1>2, <2>1, <3>1, <3>2, <3>3
    <3>5. Total(z, Events) + o[e] = Total(o, Events) + z[e]
      BY <1>0, <2>1, <3>2, <3>3, <3>4, TotalChanges
    <3>6. Total(o, Events) = 0
      BY <1>0, <3>4, TotalOfZeros
    <3>7. Total(z, Events) <= Total(w, Events) + 0
      <4>1. \A f \in Events : w[f] \in Nat /\ z[f] \in Nat
        BY <3>4
      <4>2. \A f \in Events : f # e => z[f] <= w[f]
        BY <3>4
      <4>3. z[e] <= w[e] + 0
        BY <2>1, <3>4
      <4> QED BY <1>0, <4>1, <4>2, <4>3, TotalGrows
    <3>8. Total(z, Events) \in Nat /\ Total(w, Events) \in Nat
      BY <1>0, <3>4, TotalIsNat
    <3>9. Total(w, Events) <= 0
      BY <1>0, <1>4, <3>1 DEF FewCopies
    <3>10. z[e] = w[e] /\ o[e] = 0
      BY <2>1, <3>2, <3>4
    <3>11. w[e] = 0
      BY <3>4, <3>5, <3>6, <3>7, <3>8, <3>9, <3>10
    <3> QED BY <1>2, <2>1, <3>1, <3>11
  <2> QED BY <1>2, <2>1, <2>5, <2>6 DEF Extra
<1>5. run.cost <= Spent /\ (~overlap => run.cost = Spent)
  BY <1>0 DEF RunOK
<1>6. MapThenSumSet(Duplicates, Events) <= pipeFaults
  BY <1>1, <1>3, DuplicatesAre, Zenon
<1>7. LET total == MapThenSumSet(LAMBDA e : rows[e] * Cost(e), Events)
      IN  /\ run.cost <= total
          /\ ~overlap => run.cost = total
  BY <1>5, SpentIs, Zenon
<1> QED BY <1>4, <1>6, <1>7, Zenon DEF EventsStored

\* Every duplicate of an event is the work of a timeout of its own; without
\* faults, and with a second attempt, every event queued before the stop is
\* stored once or was rejected; and a run costs what its events cost unless two
\* posts read it at once (sdk/lightsei/_client.py; main.py, the ingestion).
THEOREM EventsAreStored == PipeSpec => []EventsStored
BY PipeInvHolds, StoredSo, PTL

-----------------------------------------------------------------------------
(* Slack's events. *)

\* The transaction that holds an event's row is the only one, and its row is
\* not there yet: that is why its job is the event's first.
OneHolder ==
    \A d \in delivery : Holds(d) =>
        /\ d.event \notin DOMAIN slackEvent /\ d.outcome \in RowOutcome
        /\ \A c \in delivery : c.event = d.event /\ Holds(c) => c = d

SlackInv ==
    /\ slackJobs \in [SlackIds -> Nat]
    /\ sent \in [SlackIds -> 0 .. MaxDeliveries]
    /\ delivery \subseteq Delivery
    /\ OneHolder
    /\ SlackOnce

\* A request that moves on, and holds the row afterwards only if it may.
LEMMA HolderMoves ==
    ASSUME OneHolder, slackEvent' = slackEvent, NEW d \in delivery, NEW x,
           x.event = d.event, delivery' = (delivery \ {d}) \cup {x},
           Holds(x) => /\ x.outcome \in RowOutcome /\ d.event \notin DOMAIN slackEvent
                       /\ \A c \in delivery \ {d} : c.event = d.event => ~Holds(c)
    PROVE  OneHolder'
<1> SUFFICES ASSUME NEW a \in delivery', Holds(a)
             PROVE  /\ a.event \notin DOMAIN slackEvent' /\ a.outcome \in RowOutcome
                    /\ \A c \in delivery' : c.event = a.event /\ Holds(c) => c = a
  BY DEF OneHolder, Holds
<1>1. CASE a = x
  BY <1>1
<1>2. CASE a \in delivery \ {d}
  <2>1. /\ a.event \notin DOMAIN slackEvent /\ a.outcome \in RowOutcome
        /\ \A c \in delivery : c.event = a.event /\ Holds(c) => c = a
    BY <1>2 DEF OneHolder
  <2>2. x.event = a.event => ~Holds(x)
    BY <1>2
  <2> QED BY <2>1, <2>2
<1> QED BY <1>1, <1>2

\* A row is inserted only if nobody else holds it.
LEMMA InsertKeepsHolder ==
    ASSUME SlackInv, NEW d \in delivery, ~Holds(d), InsertRow(d) \/ Duplicate(d),
           UNCHANGED <<slackEvent, slackJobs, sent>>
    PROVE  SlackInv'
<1> USE DEF SlackInv
<1>1. CASE Duplicate(d)
  <2>1. delivery' \subseteq delivery
    BY <1>1 DEF Duplicate
  <2>2. OneHolder'
    BY <2>1 DEF OneHolder, Holds
  <2>3. SlackOnce'
    BY <1>1 DEF Duplicate, SlackOnce
  <2> QED BY <2>1, <2>2, <2>3
<1>2. CASE InsertRow(d)
  <2>1. PICK x : /\ x = [d EXCEPT !.stage = "inserted",
                           !.outcome = IF installed THEN "queued" ELSE "ignored"]
                 /\ delivery' = (delivery \ {d}) \cup {x}
    BY <1>2 DEF InsertRow, Becomes
  <2>2. x \in Delivery /\ x.event = d.event /\ x.outcome \in RowOutcome
    BY <2>1 DEF Delivery, Stages, RowOutcome
  <2>3. d.event \notin DOMAIN slackEvent
        /\ \A c \in delivery : c.event = d.event => ~Holds(c)
    BY <1>2 DEF InsertRow, Blocked
  <2>4. OneHolder'
    BY <2>1, <2>2, <2>3, HolderMoves
  <2>5. SlackOnce'
    BY <1>2 DEF InsertRow, SlackOnce
  <2> QED BY <2>1, <2>2, <2>4, <2>5
<1> QED BY <1>1, <1>2

\* Every step keeps it.
LEMMA SlackStep ==
    ASSUME SlackInv, [SlackNext]_slackVars
    PROVE  SlackInv'
<1> USE DEF SlackInv
<1>1. ASSUME NEW e \in SlackIds, SlackSends(e) PROVE SlackInv'
  <2>1. PICK x : /\ x = [event |-> e, n |-> sent[e] + 1,
                         stage |-> "sent", outcome |-> "none"]
                 /\ delivery' = delivery \cup {x}
    BY <1>1 DEF SlackSends
  <2>2. x \in Delivery /\ ~Holds(x)
    BY <1>1, <2>1, SlackAssumption DEF SlackSends, Delivery, Stages, RowOutcome, Holds
  <2>3. sent' \in [SlackIds -> 0 .. MaxDeliveries]
    BY <1>1, SlackAssumption DEF SlackSends
  <2>4. OneHolder'
    BY <1>1, <2>1, <2>2 DEF OneHolder, Holds, SlackSends
  <2>5. SlackOnce'
    BY <1>1 DEF SlackSends, SlackOnce
  <2> QED BY <1>1, <2>1, <2>2, <2>3, <2>4, <2>5 DEF SlackSends
<1>2. CASE SlackInstall \/ UNCHANGED slackVars
  BY <1>2 DEF SlackInstall, slackVars, OneHolder, SlackOnce, Holds
<1>3. CASE SlackCrash
  BY <1>3 DEF SlackCrash, OneHolder, SlackOnce, Holds
<1>4. ASSUME NEW d \in delivery, Handle(d) PROVE SlackInv'
  <2>1. CASE Duplicate(d) \/ InsertRow(d)
    BY <1>4, <2>1, InsertKeepsHolder DEF Handle, Holds
  <2>2. CASE Becomes(d, "waiting", "none") /\ UNCHANGED <<acked, slackFaults>>
    <3>1. PICK x : /\ x = [d EXCEPT !.stage = "waiting", !.outcome = "none"]
                   /\ delivery' = (delivery \ {d}) \cup {x}
      BY <2>2 DEF Becomes
    <3>2. x \in Delivery /\ ~Holds(x)
      BY <3>1 DEF Delivery, Stages, Holds
    <3>3. OneHolder' /\ SlackOnce'
      BY <1>4, <2>2, <3>1, <3>2 DEF OneHolder, SlackOnce, Handle, Holds
    <3> QED BY <1>4, <3>1, <3>2, <3>3 DEF Handle
  <2> QED BY <1>4, <2>1, <2>2 DEF Handle
<1>5. ASSUME NEW d \in delivery, Woken(d) PROVE SlackInv'
  BY <1>5, InsertKeepsHolder DEF Woken, Holds
<1>6. ASSUME NEW d \in delivery, StartCommit(d) PROVE SlackInv'
  <2>1. PICK x : /\ x = [d EXCEPT !.stage = "committing", !.outcome = d.outcome]
                 /\ delivery' = (delivery \ {d}) \cup {x}
    BY <1>6 DEF StartCommit, Becomes
  <2>2. x \in Delivery /\ x.event = d.event /\ x.outcome = d.outcome /\ Holds(d)
    BY <1>6, <2>1 DEF Delivery, Stages, StartCommit, Holds
  <2>3. /\ x.outcome \in RowOutcome /\ d.event \notin DOMAIN slackEvent
        /\ \A c \in delivery \ {d} : c.event = d.event => ~Holds(c)
    BY <2>2 DEF OneHolder
  <2>4. OneHolder' /\ SlackOnce'
    BY <1>6, <2>1, <2>2, <2>3, HolderMoves DEF SlackOnce, StartCommit
  <2> QED BY <1>6, <2>1, <2>2, <2>4 DEF StartCommit
<1>7. ASSUME NEW d \in delivery, EndCommit(d) PROVE SlackInv'
  <2>1. /\ d.event \in SlackIds /\ d.event \notin DOMAIN slackEvent
        /\ d.outcome \in RowOutcome /\ slackJobs[d.event] = 0
        /\ \A c \in delivery' : c.event = d.event => ~Holds(c)
    BY <1>7 DEF EndCommit, OneHolder, Holds, Delivery, SlackOnce
  <2>2. delivery' \subseteq delivery /\ sent' = sent
    BY <1>7 DEF EndCommit
  <2>3. CASE /\ Committed(d, TRUE)
             /\ acked' = acked \cup {d.event} \/ acked' = acked
    <3>1. /\ DOMAIN slackEvent' = DOMAIN slackEvent \cup {d.event}
          /\ slackEvent'[d.event] = d.outcome
          /\ \A e \in DOMAIN slackEvent : slackEvent'[e] = slackEvent[e]
      BY <2>1, <2>3 DEF Committed, Inserted
    <3>2. slackJobs' = IF d.outcome = "queued"
                       THEN [slackJobs EXCEPT ![d.event] = @ + 1] ELSE slackJobs
      BY <2>3 DEF Committed
    <3>3. SlackOnce'
      BY <2>1, <2>3, <3>1, <3>2 DEF SlackOnce, RowOutcome
    <3>4. OneHolder'
      BY <2>1, <2>2, <3>1 DEF OneHolder, Holds
    <3> QED BY <2>1, <2>2, <3>2, <3>3, <3>4
  <2>4. CASE UNCHANGED <<slackEvent, slackJobs, acked>>
    BY <2>2, <2>4 DEF OneHolder, Holds, SlackOnce
  <2> QED BY <1>7, <2>3, <2>4 DEF EndCommit, Committed
<1>8. ASSUME NEW d \in delivery, IdleAbort(d) PROVE SlackInv'
  BY <1>8 DEF IdleAbort, OneHolder, SlackOnce, Holds
<1> QED BY <1>1, <1>2, <1>3, <1>4, <1>5, <1>6, <1>7, <1>8
       DEF SlackNext, LoopNext, DatabaseNext

\* An event that Slack was told is handled has been, and none is routed twice
\* (main.py, the Slack webhook): a row and its job are there together.
THEOREM SlackRoutesOnce == SlackSpec => []SlackOnce
<1>1. SlackInit => SlackInv
  BY SlackAssumption DEF SlackInit, SlackInv, OneHolder, SlackOnce, EmptyTable
<1>2. SlackInv => SlackOnce
  BY DEF SlackInv
<1> QED BY <1>1, <1>2, SlackStep, PTL DEF SlackSpec

\* What else SlackTypeOK says; one delivery at most blocks the loop.
SlackTypes ==
    /\ IsTable(slackEvent, SlackIds, RowOutcome)
    /\ installed \in BOOLEAN
    /\ acked \subseteq SlackIds
    /\ slackFaults \in 0 .. MaxSlackFaults
    /\ \A c, d \in delivery : c.stage = "waiting" /\ d.stage = "waiting" => c = d

\* One delivery moves to another stage: it may wait if no other does.
LEMMA OneWaits ==
    ASSUME SlackTypes, NEW d \in delivery, NEW x, delivery' = (delivery \ {d}) \cup {x},
           x.stage = "waiting" => LoopFree
    PROVE  \A a, b \in delivery' : a.stage = "waiting" /\ b.stage = "waiting" => a = b
<1>1. \A a \in delivery' : a = x \/ a \in delivery
  OBVIOUS
<1>2. LoopFree => \A a \in delivery : a.stage # "waiting"
  BY DEF LoopFree
<1> QED BY <1>1, <1>2 DEF SlackTypes

\* A fault is one that may still happen.
LEMMA SlackFaultCounts ==
    ASSUME slackFaults \in 0 .. MaxSlackFaults, SlackFault \/ UNCHANGED slackFaults
    PROVE  slackFaults' \in 0 .. MaxSlackFaults
  BY SlackAssumption DEF SlackFault

\* Every step keeps it.
LEMMA SlackTypesStep ==
    ASSUME SlackInv, SlackTypes, [SlackNext]_slackVars
    PROVE  SlackTypes'
<1>1. ASSUME NEW e \in SlackIds, SlackSends(e) PROVE SlackTypes'
  <2>1. PICK x : /\ x = [event |-> e, n |-> sent[e] + 1,
                         stage |-> "sent", outcome |-> "none"]
                 /\ delivery' = delivery \cup {x}
    BY <1>1 DEF SlackSends
  <2>2. x.stage # "waiting"
    BY <2>1
  <2> QED BY <1>1, <2>1, <2>2 DEF SlackSends, SlackTypes, IsTable
<1>2. CASE SlackInstall
  BY <1>2 DEF SlackInstall, SlackTypes, IsTable
<1>3. CASE UNCHANGED slackVars
  BY <1>3 DEF slackVars, SlackTypes, IsTable
<1>4. CASE SlackCrash
  <2>1. slackFaults' \in 0 .. MaxSlackFaults
    BY <1>4, SlackFaultCounts DEF SlackCrash, SlackTypes
  <2> QED BY <1>4, <2>1 DEF SlackCrash, SlackTypes, IsTable
<1>5. ASSUME NEW d \in delivery, Duplicate(d) \/ InsertRow(d),
             UNCHANGED <<slackEvent, slackJobs, installed, sent>>
      PROVE  SlackTypes'
  <2>1. d.event \in SlackIds
    BY DEF SlackInv, Delivery
  <2>2. CASE Duplicate(d)
    <3>1. slackFaults' \in 0 .. MaxSlackFaults
      BY <2>2, SlackFaultCounts DEF Duplicate, SlackTypes
    <3> QED BY <1>5, <2>1, <2>2, <3>1 DEF Duplicate, SlackTypes, IsTable
  <2>3. CASE InsertRow(d)
    <3>1. PICK x : /\ x = [d EXCEPT !.stage = "inserted",
                             !.outcome = IF installed THEN "queued" ELSE "ignored"]
                   /\ delivery' = (delivery \ {d}) \cup {x}
      BY <2>3 DEF InsertRow, Becomes
    <3>2. x.stage # "waiting"
      BY <3>1 DEF SlackInv, Delivery
    <3>3. \A a, b \in delivery' : a.stage = "waiting" /\ b.stage = "waiting" => a = b
      BY <3>1, <3>2, OneWaits
    <3> QED BY <1>5, <2>3, <3>3 DEF InsertRow, SlackTypes, IsTable
  <2> QED BY <1>5, <2>2, <2>3
<1>6. ASSUME NEW d \in delivery, Handle(d) PROVE SlackTypes'
  <2>1. CASE Becomes(d, "waiting", "none") /\ UNCHANGED <<acked, slackFaults>>
    <3>1. PICK x : delivery' = (delivery \ {d}) \cup {x}
      BY <2>1 DEF Becomes
    <3>2. \A a, b \in delivery' : a.stage = "waiting" /\ b.stage = "waiting" => a = b
      BY <1>6, <3>1, OneWaits DEF Handle
    <3> QED BY <1>6, <2>1, <3>2 DEF Handle, SlackTypes, IsTable
  <2> QED BY <1>5, <1>6, <2>1 DEF Handle
<1>7. ASSUME NEW d \in delivery, Woken(d) PROVE SlackTypes'
  BY <1>5, <1>7 DEF Woken
<1>8. ASSUME NEW d \in delivery, StartCommit(d) PROVE SlackTypes'
  <2>1. PICK x : /\ x = [d EXCEPT !.stage = "committing", !.outcome = d.outcome]
                 /\ delivery' = (delivery \ {d}) \cup {x}
    BY <1>8 DEF StartCommit, Becomes
  <2>2. x.stage # "waiting"
    BY <2>1 DEF SlackInv, Delivery
  <2>3. \A a, b \in delivery' : a.stage = "waiting" /\ b.stage = "waiting" => a = b
    BY <2>1, <2>2, OneWaits
  <2> QED BY <1>8, <2>3 DEF StartCommit, SlackTypes, IsTable
<1>9. ASSUME NEW d \in delivery, EndCommit(d) PROVE SlackTypes'
  <2>1. d.event \in SlackIds /\ d.outcome \in RowOutcome
    BY <1>9 DEF EndCommit, SlackInv, OneHolder, Holds, Delivery
  <2>2. \A there \in BOOLEAN : Committed(d, there) =>
           \/ slackEvent' = Inserted(slackEvent, d.event, d.outcome)
           \/ slackEvent' = slackEvent
    BY DEF Committed
  <2>3. \/ slackEvent' = Inserted(slackEvent, d.event, d.outcome)
        \/ slackEvent' = slackEvent
    BY <1>9, <2>2 DEF EndCommit
  <2>4. IsTable(slackEvent', SlackIds, RowOutcome)
    BY <2>1, <2>3 DEF SlackTypes, IsTable, Inserted
  <2>5. slackFaults' \in 0 .. MaxSlackFaults
    BY <1>9, SlackFaultCounts DEF EndCommit, SlackTypes
  <2> QED BY <1>9, <2>1, <2>4, <2>5 DEF EndCommit, SlackTypes
<1>10. ASSUME NEW d \in delivery, IdleAbort(d) PROVE SlackTypes'
  BY <1>10 DEF IdleAbort, SlackTypes, IsTable
<1> QED BY <1>1, <1>2, <1>3, <1>4, <1>6, <1>7, <1>8, <1>9, <1>10
       DEF SlackNext, LoopNext, DatabaseNext

\* A set no two members of which differ counts one at most.
LEMMA AtMostOne ==
    ASSUME NEW S, \A a, b \in S : a = b
    PROVE  Cardinality(S) <= 1
<1>1. CASE S = {}
  BY <1>1, FS_EmptySet
<1>2. CASE S # {}
  <2>1. PICK a : S = {a}
    BY <1>2
  <2> QED BY <2>1, FS_Singleton
<1> QED BY <1>1, <1>2

\* Rows and requests of the webhook keep their types, an event has one
\* transaction at most that holds its row, none once it is committed, and one
\* delivery at most blocks the loop.
THEOREM SlackTypesOK == SlackSpec => []SlackTypeOK
<1>1. SlackInit => SlackInv /\ SlackTypes
  BY SlackAssumption DEF SlackInit, SlackInv, OneHolder, SlackOnce, EmptyTable,
                         SlackTypes, IsTable
<1>2. SlackInv /\ SlackTypes => SlackTypeOK
  <2> SUFFICES ASSUME SlackInv, SlackTypes PROVE SlackTypeOK
    OBVIOUS
  <2>1. Cardinality({d \in delivery : d.stage = "waiting"}) <= 1
    BY AtMostOne DEF SlackTypes
  <2>2. ASSUME NEW e \in SlackIds
        PROVE  Cardinality({d \in delivery : d.event = e /\ Holds(d)})
                  <= IF e \in DOMAIN slackEvent THEN 0 ELSE 1
    <3>1. CASE e \in DOMAIN slackEvent
      <4>1. {d \in delivery : d.event = e /\ Holds(d)} = {}
        BY <3>1 DEF SlackInv, OneHolder
      <4>2. Cardinality({}) = 0
        BY FS_EmptySet
      <4> QED BY <3>1, <4>1, <4>2
    <3>2. CASE e \notin DOMAIN slackEvent
      <4>1. Cardinality({d \in delivery : d.event = e /\ Holds(d)}) <= 1
        <5>1. \A a, b \in {d \in delivery : d.event = e /\ Holds(d)} : a = b
          BY DEF SlackInv, OneHolder
        <5> QED BY <5>1, AtMostOne
      <4> QED BY <3>2, <4>1
    <3> QED BY <3>1, <3>2
  <2> QED BY <2>1, <2>2 DEF SlackInv, SlackTypes, SlackTypeOK
<1> QED BY <1>1, <1>2, SlackStep, SlackTypesStep, PTL DEF SlackSpec

-----------------------------------------------------------------------------
(* Feeders. *)

FeedersOK ==
    /\ clock \in Clock
    /\ IsTable(pass, Passes, Pass)
    /\ fed \subseteq Command
    /\ \A c \in fed : c.pass \in DOMAIN pass

\* Two commands for the same thing, the second within the first's window.
Repeats(c, d) == /\ c.feed = d.feed /\ c.item = d.item /\ c.pass < d.pass
                 /\ c.feed \in Sweeps => d.at <= c.at + Window

\* Passes are numbered as they open, and one that is open has met every later
\* one; what it found is its own and was fed by nobody it has not met.
FeedersInv ==
    /\ FeedersOK
    /\ \A q \in DOMAIN pass, p \in Passes \ DOMAIN pass : q < p
    /\ \A p \in OpenPasses, q \in DOMAIN pass : p < q => {p, q} \in met
    /\ \A p \in OpenPasses : \A d \in pass[p].new :
          /\ d.pass = p
          /\ \A c \in fed : Repeats(c, d) => {c.pass, p} \in met
    /\ FedOnce

\* The next pass is opened, or a forced digest takes its place.
Numbered(p, x) == /\ NextPass(p)
                  /\ pass' = Inserted(pass, p, x)
                  /\ met' = met \cup {{p, q} : q \in OpenPasses}

\* It has met all that are open.
MeetsAll(p, x) ==
    /\ IsTable(pass', Passes, Pass) /\ DOMAIN pass' = DOMAIN pass \cup {p}
    /\ \A q \in DOMAIN pass', r \in Passes \ DOMAIN pass' : q < r
    /\ \A r \in OpenPasses', q \in DOMAIN pass' : r < q => {r, q} \in met'
    /\ OpenPasses' \subseteq OpenPasses \cup {p}
    /\ \A q \in DOMAIN pass : pass'[q] = pass[q]
    /\ pass'[p] = x /\ \A q \in DOMAIN pass : q < p

\* So it has.
LEMMA NumberedMeets ==
    ASSUME FeedersInv, NEW p \in Passes, NEW x \in Pass, Numbered(p, x)
    PROVE  MeetsAll(p, x)
<1> USE DEF FeedersInv
<1>0. \A r \in Passes : r \in Nat
  BY FeedersAssumption
<1>1. /\ DOMAIN pass' = DOMAIN pass \cup {p} /\ pass'[p] = x /\ p \notin DOMAIN pass
      /\ \A q \in DOMAIN pass : pass'[q] = pass[q]
  BY DEF Numbered, Inserted, NextPass
<1>2. IsTable(pass', Passes, Pass)
  BY <1>0, <1>1 DEF Numbered, FeedersOK, IsTable, Inserted
<1>3. \A r \in Passes \ DOMAIN pass' : p < r
  BY <1>0, <1>1 DEF Numbered, NextPass
<1>4. \A q \in DOMAIN pass : q < p
  BY <1>1
<1>5. OpenPasses' \subseteq OpenPasses \cup {p}
  BY <1>1 DEF OpenPasses
<1>6. ASSUME NEW r \in OpenPasses', NEW q \in DOMAIN pass', r < q
      PROVE  {r, q} \in met'
  <2>1. CASE r = p
    <3>1. q \in Nat /\ p \in Nat /\ (q = p \/ q < p)
      BY <1>0, <1>1, <1>4 DEF FeedersOK, IsTable
    <3> QED BY <1>6, <2>1, <3>1
  <2>2. CASE r \in OpenPasses /\ q = p
    <3>1. {r, q} = {p, r}
      BY <2>2
    <3> QED BY <2>2, <3>1 DEF Numbered
  <2>3. CASE r \in OpenPasses /\ q \in DOMAIN pass
    <3>1. {r, q} \in met
      BY <1>6, <2>3
    <3> QED BY <3>1 DEF Numbered
  <2> QED BY <1>1, <1>5, <2>1, <2>2, <2>3
<1> QED BY <1>1, <1>2, <1>3, <1>4, <1>5, <1>6 DEF MeetsAll

\* Every step keeps it.
LEMMA FeedersStep ==
    ASSUME FeedersInv, [FeedersNext]_feederVars
    PROVE  FeedersInv'
<1> USE DEF FeedersInv
<1>0. /\ \A p \in DOMAIN pass : pass[p] \in Pass /\ p \in Passes
      /\ \A p \in Passes : p \in Nat
      /\ Clock \subseteq Nat /\ Window \in Nat
  BY FeedersAssumption DEF FeedersOK, IsTable, Clock
<1>1. CASE ClockTicks
  <2>1. clock' \in Clock /\ UNCHANGED <<pass, fed, met>>
    BY <1>1, FeedersAssumption DEF ClockTicks, FeedersOK, Clock
  <2>2. FeedersOK'
    BY <2>1 DEF FeedersOK, IsTable
  <2> QED BY <2>1, <2>2 DEF OpenPasses, FedOnce
<1>2. CASE UNCHANGED feederVars
  BY <1>2 DEF feederVars, FeedersOK, IsTable, OpenPasses, FedOnce
<1>4. ASSUME NEW p \in Passes, PassOpen(p) PROVE FeedersInv'
  <2>1. PICK x : /\ x = [at |-> clock, state |-> "open", todo |-> Feeds, new |-> {}]
                 /\ pass' = Inserted(pass, p, x)
    BY <1>4 DEF PassOpen
  <2>2. x \in Pass /\ x.new = {}
    BY <2>1 DEF Pass, FeedersOK
  <2>3. Numbered(p, x) /\ fed' = fed /\ clock' = clock /\ met \subseteq met'
    BY <1>4, <2>1 DEF PassOpen, Numbered
  <2>4. MeetsAll(p, x)
    BY <2>1, <2>2, <2>3, NumberedMeets
  <2>5. FeedersOK'
    BY <2>3, <2>4 DEF MeetsAll, FeedersOK
  <2>6. FedOnce'
    BY <2>3 DEF FedOnce
  <2>7. ASSUME NEW r \in OpenPasses', NEW d \in pass'[r].new
        PROVE  d.pass = r /\ \A c \in fed' : Repeats(c, d) => {c.pass, r} \in met'
    <3>1. r \in OpenPasses /\ d \in pass[r].new
      BY <2>2, <2>4, <2>7 DEF MeetsAll, OpenPasses
    <3> QED BY <2>3, <3>1
  <2> QED BY <2>4, <2>5, <2>6, <2>7 DEF MeetsAll
<1>5. ASSUME NEW p \in Passes, NEW f \in Sweeps, ForceDigest(p, f) PROVE FeedersInv'
  <2>1. PICK x : /\ x = [at |-> clock, state |-> "over", todo |-> {}, new |-> {}]
                 /\ pass' = Inserted(pass, p, x)
    BY <1>5 DEF ForceDigest
  <2>2. x \in Pass /\ x.new = {}
    BY <2>1 DEF Pass, FeedersOK
  <2>3. PICK k : /\ k = [feed |-> f, item |-> Sweep, at |-> clock, pass |-> p,
                         forced |-> TRUE]
                 /\ fed' = fed \cup {k}
    BY <1>5 DEF ForceDigest
  <2>4. k \in Command /\ k.pass = p /\ k.forced
    BY <2>3 DEF Command, FeedersOK, Feeds
  <2>5. Numbered(p, x) /\ clock' = clock /\ met \subseteq met'
    BY <1>5, <2>1 DEF ForceDigest, Numbered
  <2>6. MeetsAll(p, x)
    BY <2>1, <2>2, <2>5, NumberedMeets
  <2>7. FeedersOK'
    BY <2>3, <2>4, <2>5, <2>6 DEF MeetsAll, FeedersOK
  <2>8. \A d \in fed : d.pass < p /\ d.pass \in Nat
    BY <1>0, <2>6 DEF MeetsAll, FeedersOK
  <2>9. FedOnce'
    <3> SUFFICES ASSUME NEW c \in fed', NEW d \in fed', Repeats(c, d), ~d.forced
                 PROVE  {c.pass, d.pass} \in met'
      BY DEF FedOnce, Repeats
    <3>1. d \in fed
      BY <2>3, <2>4
    <3>2. c # k
      BY <1>0, <2>4, <2>8, <3>1 DEF Repeats
    <3>3. {c.pass, d.pass} \in met
      BY <2>3, <3>1, <3>2 DEF FedOnce, Repeats
    <3> QED BY <2>5, <3>3
  <2>10. ASSUME NEW r \in OpenPasses', NEW d \in pass'[r].new
         PROVE  d.pass = r /\ \A c \in fed' : Repeats(c, d) => {c.pass, r} \in met'
    <3>1. r \in OpenPasses /\ d \in pass[r].new /\ r < p /\ r \in Nat
      BY <1>0, <2>2, <2>6, <2>10 DEF MeetsAll, OpenPasses
    <3>2. ~Repeats(k, d)
      BY <1>0, <2>4, <3>1 DEF Repeats
    <3>3. \A c \in fed : Repeats(c, d) => {c.pass, r} \in met
      BY <3>1
    <3>4. \A c \in fed' : c = k \/ c \in fed
      BY <2>3
    <3>5. \A c \in fed' : Repeats(c, d) => {c.pass, r} \in met
      BY <3>2, <3>3, <3>4
    <3> QED BY <2>5, <3>1, <3>5
  <2> QED BY <2>6, <2>7, <2>9, <2>10 DEF MeetsAll
<1>6. ASSUME NEW p \in Passes, NEW f \in Feeds, Feed(p, f) PROVE FeedersInv'
  <2>1. PICK found \in SUBSET ItemsOf(f) : \E N :
           /\ N = {[feed |-> f, item |-> i, at |-> pass[p].at, pass |-> p, forced |-> FALSE] :
                     i \in {j \in found : \A c \in fed \cup pass[p].new :
                                             ~Handled(c, f, j, pass[p].at)}}
           /\ pass' = [pass EXCEPT ![p].todo = @ \ {f}, ![p].new = @ \cup N]
    BY <1>6 DEF Feed
  <2>12. PICK N :
           /\ N = {[feed |-> f, item |-> i, at |-> pass[p].at, pass |-> p, forced |-> FALSE] :
                     i \in {j \in found : \A c \in fed \cup pass[p].new :
                                             ~Handled(c, f, j, pass[p].at)}}
           /\ pass' = [pass EXCEPT ![p].todo = @ \ {f}, ![p].new = @ \cup N]
    BY <2>1
  <2>2. /\ p \in OpenPasses /\ p \in DOMAIN pass /\ UNCHANGED <<clock, fed, met>>
        /\ pass[p] \in Pass
    BY <1>0, <1>6 DEF Feed, OpenPasses
  <2>3. \A d \in N : /\ d \in Command /\ d.pass = p /\ d.feed = f /\ d.at = pass[p].at
                     /\ \A c \in fed : ~Handled(c, f, d.item, d.at)
    <3>1. ItemsOf(f) \subseteq Items \cup {Sweep}
      BY DEF ItemsOf
    <3> SUFFICES ASSUME NEW d \in N
                 PROVE  /\ d \in Command /\ d.pass = p /\ d.feed = f /\ d.at = pass[p].at
                        /\ \A c \in fed : ~Handled(c, f, d.item, d.at)
      OBVIOUS
    <3>2. PICK i \in found :
             /\ d = [feed |-> f, item |-> i, at |-> pass[p].at, pass |-> p,
                     forced |-> FALSE]
             /\ \A c \in fed \cup pass[p].new : ~Handled(c, f, i, pass[p].at)
      BY <2>12
    <3>3. d.item = i /\ d.at = pass[p].at /\ d.feed = f /\ d.pass = p
      BY <3>2
    <3>4. i \in Items \cup {Sweep} /\ pass[p].at \in Clock
      BY <2>2, <3>1 DEF Pass
    <3>5. d \in Command
      BY <3>2, <3>4 DEF Command
    <3> QED BY <3>2, <3>3, <3>5
  <2>13. pass' = [pass EXCEPT ![p].todo = @ \ {f}, ![p].new = @ \cup N]
    BY <2>12
  <2>14. PICK y : y = [pass[p] EXCEPT !.todo = @ \ {f}, !.new = @ \cup N]
    OBVIOUS
  <2>4. y = [pass[p] EXCEPT !.todo = @ \ {f}, !.new = @ \cup N]
        /\ pass' = [pass EXCEPT ![p] = y]
    BY <2>13, <2>14
  <2>5. y \in Pass /\ y.new = pass[p].new \cup N /\ y.state = pass[p].state
    BY <2>2, <2>3, <2>4 DEF Pass
  <2>6. /\ DOMAIN pass' = DOMAIN pass /\ pass'[p] = y
        /\ \A q \in DOMAIN pass : q # p => pass'[q] = pass[q]
    BY <2>2, <2>4
  <2>7. OpenPasses' = OpenPasses
    BY <2>5, <2>6 DEF OpenPasses
  <2>8. FeedersOK'
    BY <2>2, <2>4, <2>5, <2>6 DEF FeedersOK, IsTable
  <2>9. FedOnce'
    BY <2>2 DEF FedOnce
  <2>10. ASSUME NEW d \in N, NEW c \in fed PROVE ~Repeats(c, d)
    <3>1. c.at \in Nat /\ d.at \in Nat
      BY <1>0, <2>3 DEF FeedersOK, Command
    <3>2. ~(c.feed = f /\ c.item = d.item /\ (f \in Sweeps => c.at + Window >= d.at))
      BY <2>3 DEF Handled, Recent
    <3> QED BY <1>0, <2>3, <3>1, <3>2 DEF Repeats
  <2>11. ASSUME NEW r \in OpenPasses', NEW d \in pass'[r].new
         PROVE  d.pass = r /\ \A c \in fed' : Repeats(c, d) => {c.pass, r} \in met'
    <3>1. CASE d \in pass[r].new
      BY <2>2, <2>7, <2>11, <3>1
    <3>2. CASE r = p /\ d \in N
      BY <2>2, <2>3, <2>10, <3>2
    <3> QED BY <2>5, <2>6, <2>7, <2>11, <3>1, <3>2 DEF OpenPasses
  <2> QED BY <2>2, <2>6, <2>7, <2>8, <2>9, <2>11
<1>7. ASSUME NEW p \in Passes, PassCommit(p) PROVE FeedersInv'
  <2>1. /\ p \in OpenPasses /\ p \in DOMAIN pass /\ pass[p] \in Pass
        /\ fed' = fed \cup pass[p].new /\ clock' = clock /\ met' = met
        /\ pass' = [pass EXCEPT ![p] = [pass[p] EXCEPT !.state = "over"]]
    BY <1>0, <1>7 DEF PassCommit, OpenPasses
  <2>2. [pass[p] EXCEPT !.state = "over"] \in Pass
        /\ [pass[p] EXCEPT !.state = "over"].state = "over"
    BY <2>1 DEF Pass
  <2>3. /\ DOMAIN pass' = DOMAIN pass /\ pass'[p] = [pass[p] EXCEPT !.state = "over"]
        /\ \A q \in DOMAIN pass : q # p => pass'[q] = pass[q]
    BY <2>1
  <2>4. OpenPasses' \subseteq OpenPasses \ {p}
    BY <2>2, <2>3 DEF OpenPasses
  <2>5. \A d \in pass[p].new : d \in Command /\ d.pass = p
    BY <2>1 DEF Pass
  <2>6. FeedersOK'
    BY <2>1, <2>2, <2>3, <2>5 DEF FeedersOK, IsTable
  <2>7. FedOnce'
    <3> SUFFICES ASSUME NEW c \in fed', NEW d \in fed', Repeats(c, d), ~d.forced
                 PROVE  {c.pass, d.pass} \in met
      BY <2>1 DEF FedOnce, Repeats
    <3>1. CASE c \in fed /\ d \in fed
      BY <3>1 DEF FedOnce, Repeats
    <3>2. CASE c \in fed /\ d \in pass[p].new
      BY <2>1, <2>5, <3>2
    <3>3. CASE c \in pass[p].new /\ d \in fed
      BY <2>1, <2>5, <3>3 DEF FeedersOK, Repeats
    <3>4. CASE c \in pass[p].new /\ d \in pass[p].new
      BY <1>0, <2>5, <3>4 DEF Repeats
    <3> QED BY <2>1, <3>1, <3>2, <3>3, <3>4
  <2>8. ASSUME NEW r \in OpenPasses', NEW d \in pass'[r].new
        PROVE  d.pass = r /\ \A c \in fed' : Repeats(c, d) => {c.pass, r} \in met'
    <3>1. r \in OpenPasses /\ r # p /\ d \in pass[r].new /\ r \in DOMAIN pass
      BY <2>3, <2>4, <2>8 DEF OpenPasses
    <3>2. \A c \in pass[p].new : Repeats(c, d) => {p, r} \in met
      BY <2>1, <2>5, <3>1 DEF Repeats
    <3> QED BY <2>1, <2>5, <3>1, <3>2
  <2> QED BY <2>1, <2>3, <2>4, <2>6, <2>7, <2>8
<1>9. ASSUME NEW p \in Passes, NEW f \in Feeds, FeedFails(p, f) PROVE FeedersInv'
  <2>1. /\ p \in OpenPasses /\ p \in DOMAIN pass /\ pass[p] \in Pass
        /\ fed' = fed \cup pass[p].new /\ clock' = clock /\ met' = met
        /\ pass' = [pass EXCEPT ![p] = [pass[p] EXCEPT !.todo = @ \ {f}, !.new = {}]]
    BY <1>0, <1>9 DEF FeedFails, OpenPasses
  <2>2. PICK y : y = [pass[p] EXCEPT !.todo = @ \ {f}, !.new = {}]
    OBVIOUS
  <2>3. y \in Pass /\ y.new = {} /\ y.state = pass[p].state
    BY <2>1, <2>2 DEF Pass
  <2>4. /\ DOMAIN pass' = DOMAIN pass /\ pass'[p] = y
        /\ \A q \in DOMAIN pass : q # p => pass'[q] = pass[q]
    BY <2>1, <2>2
  <2>5. OpenPasses' = OpenPasses
    BY <2>3, <2>4 DEF OpenPasses
  <2>6. \A d \in pass[p].new : d \in Command /\ d.pass = p
    BY <2>1 DEF Pass
  <2>7. FeedersOK'
    BY <2>1, <2>3, <2>4, <2>6 DEF FeedersOK, IsTable
  <2>8. FedOnce'
    <3> SUFFICES ASSUME NEW c \in fed', NEW d \in fed', Repeats(c, d), ~d.forced
                 PROVE  {c.pass, d.pass} \in met
      BY <2>1 DEF FedOnce, Repeats
    <3>1. CASE c \in fed /\ d \in fed
      BY <3>1 DEF FedOnce, Repeats
    <3>2. CASE c \in fed /\ d \in pass[p].new
      BY <2>1, <2>6, <3>2
    <3>3. CASE c \in pass[p].new /\ d \in fed
      BY <2>1, <2>6, <3>3 DEF FeedersOK, Repeats
    <3>4. CASE c \in pass[p].new /\ d \in pass[p].new
      BY <1>0, <2>6, <3>4 DEF Repeats
    <3> QED BY <2>1, <3>1, <3>2, <3>3, <3>4
  <2>9. ASSUME NEW r \in OpenPasses', NEW d \in pass'[r].new
        PROVE  d.pass = r /\ \A c \in fed' : Repeats(c, d) => {c.pass, r} \in met'
    <3>1. r \in OpenPasses /\ r # p /\ d \in pass[r].new /\ r \in DOMAIN pass
      BY <2>3, <2>4, <2>5, <2>9 DEF OpenPasses
    <3>2. \A c \in pass[p].new : Repeats(c, d) => {p, r} \in met
      BY <2>1, <2>6, <3>1 DEF Repeats
    <3> QED BY <2>1, <2>6, <3>1, <3>2
  <2> QED BY <2>1, <2>4, <2>5, <2>7, <2>8, <2>9
<1>8. ASSUME NEW p \in Passes, PassAbort(p) PROVE FeedersInv'
  <2>1. /\ p \in DOMAIN pass /\ pass[p] \in Pass /\ UNCHANGED <<clock, fed, met>>
        /\ pass' = [pass EXCEPT ![p] = [pass[p] EXCEPT !.state = "over", !.new = {}]]
    BY <1>0, <1>8 DEF PassAbort, OpenPasses
  <2>2. [pass[p] EXCEPT !.state = "over", !.new = {}] \in Pass
        /\ [pass[p] EXCEPT !.state = "over", !.new = {}].state = "over"
    BY <2>1 DEF Pass
  <2>3. /\ DOMAIN pass' = DOMAIN pass
        /\ pass'[p] = [pass[p] EXCEPT !.state = "over", !.new = {}]
        /\ \A q \in DOMAIN pass : q # p => pass'[q] = pass[q]
    BY <2>1
  <2>4. OpenPasses' \subseteq OpenPasses \ {p}
    BY <2>2, <2>3 DEF OpenPasses
  <2>5. FeedersOK' /\ FedOnce'
    BY <2>1, <2>2, <2>3 DEF FeedersOK, IsTable, FedOnce
  <2> QED BY <2>1, <2>3, <2>4, <2>5 DEF OpenPasses
<1> QED BY <1>1, <1>2, <1>4, <1>5, <1>6, <1>7, <1>8, <1>9 DEF FeedersNext

\* A mail or a review is fed once, a sweep once in its window unless the owner
\* asks (feeder.py), also by passes that a failed connector call commits half
\* way (main.py): twice only by two passes that were open at once.
THEOREM FeedersFeedOnce == FeedersSpec => []FedOnce
<1>1. FeedersInit => FeedersInv
  BY FeedersAssumption
     DEF FeedersInit, FeedersInv, FeedersOK, IsTable, EmptyTable, OpenPasses, FedOnce, Clock
<1>2. FeedersInv => FedOnce
  BY DEF FeedersInv
<1> QED BY <1>1, <1>2, FeedersStep, PTL DEF FeedersSpec

\* What else FeedersTypeOK says: a command is as old as its pass, and what an
\* open pass has found for a feeder it has been through.
FeedersTypes ==
    /\ met \subseteq SUBSET Passes
    /\ \A c \in fed : c.pass \in DOMAIN pass /\ c.at = pass[c.pass].at
    /\ \A p \in OpenPasses : \A c \in pass[p].new :
          c.feed \notin pass[p].todo /\ c.at = pass[p].at

\* A pass that is numbered is met by passes only.
LEMMA MeetsPasses ==
    ASSUME FeedersInv, FeedersTypes, NEW p \in Passes,
           met' = met \cup {{p, q} : q \in OpenPasses}
    PROVE  met' \subseteq SUBSET Passes
<1>1. OpenPasses \subseteq Passes
  BY DEF OpenPasses, FeedersInv, FeedersOK, IsTable
<1> QED BY <1>1 DEF FeedersTypes

\* Every step keeps it.
LEMMA FeedersTypesStep ==
    ASSUME FeedersInv, FeedersTypes, [FeedersNext]_feederVars
    PROVE  FeedersTypes'
<1>0. /\ \A p \in DOMAIN pass : pass[p] \in Pass /\ p \in Passes
      /\ OpenPasses \subseteq DOMAIN pass
  BY DEF FeedersInv, FeedersOK, IsTable, OpenPasses
<1>1. CASE ClockTicks \/ UNCHANGED feederVars
  BY <1>1 DEF ClockTicks, feederVars, FeedersTypes, OpenPasses
<1>2. ASSUME NEW p \in Passes, NEW x \in Pass, x.new = {}, Numbered(p, x)
      PROVE  /\ met' \subseteq SUBSET Passes
             /\ DOMAIN pass' = DOMAIN pass \cup {p} /\ pass'[p] = x
             /\ \A q \in DOMAIN pass : pass'[q] = pass[q]
             /\ \A q \in OpenPasses' : \A c \in pass'[q].new :
                   c.feed \notin pass'[q].todo /\ c.at = pass'[q].at
  <2>1. MeetsAll(p, x)
    BY <1>2, NumberedMeets
  <2>2. met' \subseteq SUBSET Passes
    BY <1>2, MeetsPasses DEF Numbered
  <2> QED BY <1>0, <1>2, <2>1, <2>2 DEF MeetsAll, FeedersTypes
<1>3. ASSUME NEW p \in Passes, PassOpen(p) PROVE FeedersTypes'
  <2>1. PICK x : /\ x = [at |-> clock, state |-> "open", todo |-> Feeds, new |-> {}]
                 /\ pass' = Inserted(pass, p, x)
    BY <1>3 DEF PassOpen
  <2>2. x \in Pass /\ x.new = {}
    BY <2>1 DEF Pass, FeedersInv, FeedersOK
  <2>3. Numbered(p, x) /\ fed' = fed
    BY <1>3, <2>1 DEF PassOpen, Numbered
  <2> QED BY <1>2, <2>2, <2>3 DEF FeedersTypes
<1>4. ASSUME NEW p \in Passes, NEW f \in Sweeps, ForceDigest(p, f) PROVE FeedersTypes'
  <2>1. PICK x : /\ x = [at |-> clock, state |-> "over", todo |-> {}, new |-> {}]
                 /\ pass' = Inserted(pass, p, x)
    BY <1>4 DEF ForceDigest
  <2>2. x \in Pass /\ x.new = {} /\ x.at = clock
    BY <2>1 DEF Pass, FeedersInv, FeedersOK
  <2>3. PICK k : /\ k = [feed |-> f, item |-> Sweep, at |-> clock, pass |-> p,
                         forced |-> TRUE]
                 /\ fed' = fed \cup {k}
    BY <1>4 DEF ForceDigest
  <2>4. k.pass = p /\ k.at = clock
    BY <2>3
  <2>5. Numbered(p, x)
    BY <1>4, <2>1 DEF ForceDigest, Numbered
  <2>6. /\ DOMAIN pass' = DOMAIN pass \cup {p} /\ pass'[p] = x
        /\ \A q \in DOMAIN pass : pass'[q] = pass[q]
    BY <1>2, <2>2, <2>5
  <2>7. \A c \in fed' : c = k \/ c \in fed
    BY <2>3
  <2>8. \A c \in fed' : c.pass \in DOMAIN pass' /\ c.at = pass'[c.pass].at
    BY <2>2, <2>4, <2>6, <2>7 DEF FeedersTypes
  <2> QED BY <1>2, <2>2, <2>5, <2>8 DEF FeedersTypes
<1>5. ASSUME NEW p \in DOMAIN pass, NEW y, pass' = [pass EXCEPT ![p] = y], met' = met,
             y.at = pass[p].at, y.state = "open" => p \in OpenPasses,
             y.state = "open" => \A c \in y.new : c.feed \notin y.todo /\ c.at = y.at,
             \A c \in fed' : c \in fed \/ (c.pass = p /\ c.at = y.at)
      PROVE  FeedersTypes'
  <2>1. /\ DOMAIN pass' = DOMAIN pass /\ pass'[p] = y
        /\ \A q \in DOMAIN pass : q # p => pass'[q] = pass[q]
    BY <1>5
  <2>2. \A c \in fed' : c.pass \in DOMAIN pass' /\ c.at = pass'[c.pass].at
    BY <1>5, <2>1 DEF FeedersTypes
  <2>3. \A q \in OpenPasses' : /\ q = p => y.state = "open"
                               /\ q # p => q \in OpenPasses /\ pass'[q] = pass[q]
    BY <2>1 DEF OpenPasses
  <2> QED BY <1>5, <2>1, <2>2, <2>3 DEF FeedersTypes
<1>6. ASSUME NEW p \in Passes, NEW f \in Feeds, Feed(p, f) PROVE FeedersTypes'
  <2>1. PICK found \in SUBSET ItemsOf(f) : \E N :
           /\ N = {[feed |-> f, item |-> i, at |-> pass[p].at, pass |-> p, forced |-> FALSE] :
                     i \in {j \in found : \A c \in fed \cup pass[p].new :
                                             ~Handled(c, f, j, pass[p].at)}}
           /\ pass' = [pass EXCEPT ![p].todo = @ \ {f}, ![p].new = @ \cup N]
    BY <1>6 DEF Feed
  <2>2. PICK N : /\ \A d \in N : d.feed = f /\ d.at = pass[p].at
                 /\ pass' = [pass EXCEPT ![p].todo = @ \ {f}, ![p].new = @ \cup N]
    <3>1. PICK N :
             /\ N = {[feed |-> f, item |-> i, at |-> pass[p].at, pass |-> p, forced |-> FALSE] :
                       i \in {j \in found : \A c \in fed \cup pass[p].new :
                                               ~Handled(c, f, j, pass[p].at)}}
             /\ pass' = [pass EXCEPT ![p].todo = @ \ {f}, ![p].new = @ \cup N]
      BY <2>1
    <3>2. \A d \in N : d.feed = f /\ d.at = pass[p].at
      BY <3>1
    <3> QED BY <3>1, <3>2
  <2>3. /\ p \in OpenPasses /\ p \in DOMAIN pass /\ UNCHANGED <<fed, met>>
        /\ pass[p] \in Pass
    BY <1>0, <1>6 DEF Feed
  <2>4. PICK y : /\ y = [pass[p] EXCEPT !.todo = @ \ {f}, !.new = @ \cup N]
                 /\ pass' = [pass EXCEPT ![p] = y]
    BY <2>2
  <2>5. /\ y.new = pass[p].new \cup N /\ y.todo = pass[p].todo \ {f}
        /\ y.at = pass[p].at
    BY <2>3, <2>4 DEF Pass
  <2>6. \A c \in y.new : c.feed \notin y.todo /\ c.at = y.at
    BY <2>2, <2>3, <2>5 DEF FeedersTypes
  <2> QED BY <1>5, <2>3, <2>4, <2>5, <2>6
<1>7. ASSUME NEW p \in Passes, PassCommit(p) \/ PassAbort(p) PROVE FeedersTypes'
  <2>1. p \in OpenPasses /\ p \in DOMAIN pass /\ pass[p] \in Pass /\ met' = met
    BY <1>0, <1>7 DEF PassCommit, PassAbort
  <2>2. \A d \in pass[p].new : d.pass = p /\ d.at = pass[p].at
    BY <2>1 DEF FeedersInv, FeedersTypes
  <2>3. PICK y : /\ \/ y = [pass[p] EXCEPT !.state = "over"]
                    \/ y = [pass[p] EXCEPT !.state = "over", !.new = {}]
                 /\ pass' = [pass EXCEPT ![p] = y]
    BY <1>7 DEF PassCommit, PassAbort
  <2>4. y.state = "over" /\ y.at = pass[p].at
    BY <2>1, <2>3 DEF Pass
  <2>5. fed' \subseteq fed \cup pass[p].new
    BY <1>7 DEF PassCommit, PassAbort
  <2>6. \A c \in fed' : c \in fed \/ (c.pass = p /\ c.at = y.at)
    BY <2>2, <2>4, <2>5
  <2> QED BY <1>5, <2>1, <2>3, <2>4, <2>6
<1>8. ASSUME NEW p \in Passes, NEW f \in Feeds, FeedFails(p, f) PROVE FeedersTypes'
  <2>1. /\ p \in OpenPasses /\ p \in DOMAIN pass /\ pass[p] \in Pass
        /\ met' = met /\ fed' = fed \cup pass[p].new
    BY <1>0, <1>8 DEF FeedFails
  <2>2. \A d \in pass[p].new : d.pass = p /\ d.at = pass[p].at
    BY <2>1 DEF FeedersInv, FeedersTypes
  <2>3. PICK y : /\ y = [pass[p] EXCEPT !.todo = @ \ {f}, !.new = {}]
                 /\ pass' = [pass EXCEPT ![p] = y]
    BY <1>8 DEF FeedFails
  <2>4. y.new = {} /\ y.at = pass[p].at
    BY <2>1, <2>3 DEF Pass
  <2>5. \A c \in fed' : c \in fed \/ (c.pass = p /\ c.at = y.at)
    BY <2>1, <2>2, <2>4
  <2>6. \A c \in y.new : c.feed \notin y.todo /\ c.at = y.at
    BY <2>4
  <2>7. pass' = [pass EXCEPT ![p] = y] /\ y.at = pass[p].at
    BY <2>3, <2>4
  <2> QED BY <1>5, <2>1, <2>5, <2>6, <2>7
<1> QED BY <1>1, <1>3, <1>4, <1>6, <1>7, <1>8 DEF FeedersNext

\* Passes and commands of the feeders keep their types, a command is as old as
\* its pass, and a pass has been through the feeders it found something for.
THEOREM FeedersTypesOK == FeedersSpec => []FeedersTypeOK
<1>1. FeedersInit => FeedersInv
  BY FeedersAssumption
     DEF FeedersInit, FeedersInv, FeedersOK, IsTable, EmptyTable, OpenPasses, FedOnce, Clock
<1>2. FeedersInit => FeedersTypes
  BY DEF FeedersInit, FeedersTypes, EmptyTable, OpenPasses
<1>3. FeedersInv /\ FeedersTypes => FeedersTypeOK
  BY DEF FeedersInv, FeedersOK, FeedersTypes, FeedersTypeOK
<1> QED BY <1>1, <1>2, <1>3, FeedersStep, FeedersTypesStep, PTL DEF FeedersSpec

-----------------------------------------------------------------------------
(* Instances and requests. *)

-----------------------------------------------------------------------------
(* Instances on a host. *)

\* Types that the steps of the host disturb.
HostTypes ==
    /\ instant \in Instant /\ life \in [Instances -> Lives]
    /\ IsTable(beat, Instances, Instant)
    /\ beating \subseteq Beating
    /\ \A b, c \in beating : b.id = c.id => b = c
    /\ lostBeats \in 0 .. MaxLostBeats

\* Who is not registered yet found room, not counting who came since.
RoomFound == \A b \in beating : b.id \notin DOMAIN beat =>
                 Cardinality(Active(instant) \ b.since) < HostCap

\* Instances that run without a row.
Unregistered == {i \in Instances : life[i] = "running" /\ i \notin DOMAIN beat}

\* Each of them has its failed heartbeat.
FewUnregistered == Cardinality(Unregistered) <= lostBeats

\* What every step keeps of the instances.
HostInv == HostTypes /\ RoomFound /\ FewUnregistered

\* A smaller set of instances has no more of them.
LEMMA FewerInstances ==
    ASSUME NEW S \in SUBSET Instances, NEW T \in SUBSET Instances, T \subseteq S
    PROVE  /\ IsFiniteSet(S) /\ IsFiniteSet(T)
           /\ Cardinality(S) \in Nat /\ Cardinality(T) \in Nat /\ Cardinality(T) <= Cardinality(S)
<1>1. IsFiniteSet(S) /\ IsFiniteSet(T)
  BY AdmissionAssumption, FS_Subset
<1> QED BY <1>1, FS_Subset, FS_CardinalityType

\* The instances that are active, at a time.
LEMMA ActiveAre ==
    ASSUME HostTypes
    PROVE  /\ DOMAIN beat \subseteq Instances /\ \A i \in DOMAIN beat : beat[i] \in Instant
           /\ \A at : Active(at) \subseteq Instances
BY DEF HostTypes, IsTable, Active

\* Fewer active ones leave the room that a heartbeat has found.
LEMMA RoomStays ==
    ASSUME HostTypes, RoomFound,
           Active(instant)' \subseteq Active(instant), DOMAIN beat \subseteq DOMAIN beat',
           \A b \in beating' : b \in beating
    PROVE  RoomFound'
<1>1. SUFFICES ASSUME NEW b \in beating, b.id \notin DOMAIN beat
               PROVE  Cardinality(Active(instant)' \ b.since) < HostCap
  BY DEF RoomFound
<1>2. Cardinality(Active(instant) \ b.since) < HostCap
  BY <1>1 DEF RoomFound
<1>3. PICK S \in SUBSET Instances : S = Active(instant) \ b.since
  BY ActiveAre
<1>4. PICK T \in SUBSET Instances : T = Active(instant)' \ b.since
  BY ActiveAre
<1>5. Cardinality(T) <= Cardinality(S) /\ Cardinality(T) \in Nat /\ Cardinality(S) \in Nat
  BY <1>3, <1>4, FewerInstances
<1>6. HostCap \in Nat
  BY AdmissionAssumption
<1> QED BY <1>2, <1>3, <1>4, <1>5, <1>6

\* One more unregistered costs one more failed heartbeat.
LEMMA FewStayUnregistered ==
    ASSUME FewUnregistered, HostTypes, NEW d \in Nat, lostBeats' = lostBeats + d,
           \/ Unregistered' \subseteq Unregistered
           \/ d = 1 /\ \E i \in Instances : Unregistered' \subseteq Unregistered \cup {i}
    PROVE  FewUnregistered'
<1>1. PICK S \in SUBSET Instances : S = Unregistered
  BY DEF Unregistered
<1>2. PICK T \in SUBSET Instances : T = Unregistered'
  BY DEF Unregistered
<1>3. Cardinality(S) <= lostBeats /\ lostBeats \in Nat
  BY <1>1, AdmissionAssumption DEF FewUnregistered, HostTypes
<1>4. CASE T \subseteq S
  <2>1. Cardinality(T) <= Cardinality(S) /\ Cardinality(T) \in Nat /\ Cardinality(S) \in Nat
    BY <1>4, FewerInstances
  <2> QED BY <1>2, <1>3, <2>1 DEF FewUnregistered
<1>5. ASSUME NEW i \in Instances, T \subseteq S \cup {i}, d = 1 PROVE FewUnregistered'
  <2>1. IsFiniteSet(S) /\ Cardinality(S) \in Nat
    BY FewerInstances
  <2>2. Cardinality(S \cup {i}) <= Cardinality(S) + 1
    <3>1. \/ Cardinality(S \cup {i}) = Cardinality(S)
          \/ Cardinality(S \cup {i}) = Cardinality(S) + 1
      BY <2>1, FS_AddElement
    <3>2. PICK n \in Nat : n = Cardinality(S)
      BY <2>1
    <3> QED BY <3>1, <3>2
  <2>3. PICK U \in SUBSET Instances : U = S \cup {i}
    OBVIOUS
  <2>4. Cardinality(T) <= Cardinality(U) /\ Cardinality(T) \in Nat /\ Cardinality(U) \in Nat
    BY <1>5, <2>3, FewerInstances
  <2> QED BY <1>2, <1>3, <1>5, <2>1, <2>2, <2>3, <2>4 DEF FewUnregistered
<1> QED BY <1>1, <1>2, <1>4, <1>5

\* Time passes: fewer are active.
LEMMA TickHost ==
    ASSUME HostInv, Tick
    PROVE  HostInv'
<1>1. /\ instant' = instant + 1 /\ instant' \in Instant /\ instant \in Nat
      /\ UNCHANGED <<life, beat, beating, lostBeats>>
  BY AdmissionAssumption DEF Tick, hostVars, HostInv, HostTypes, Instant
<1>2. HostTypes'
  BY <1>1 DEF HostInv, HostTypes
<1>3. Active(instant)' \subseteq Active(instant)
  <2>1. ASSUME NEW i \in DOMAIN beat, beat[i] + ActiveWindow >= instant + 1
        PROVE  beat[i] + ActiveWindow >= instant
    <3>1. beat[i] \in Nat /\ ActiveWindow \in Nat
      BY ActiveAre, AdmissionAssumption DEF HostInv, Instant
    <3> QED BY <1>1, <2>1, <3>1
  <2> QED BY <1>1, <2>1 DEF Active
<1>4. RoomFound'
  BY <1>1, <1>3, RoomStays DEF HostInv
<1>5. FewUnregistered'
  BY <1>1 DEF HostInv, FewUnregistered, Unregistered
<1> QED BY <1>2, <1>4, <1>5 DEF HostInv

\* Instances start, die and are refused.
LEMMA LifeStep ==
    ASSUME HostInv, NEW i \in Instances, InstanceStarts(i) \/ InstanceDies(i) \/ BeatRefused(i)
    PROVE  HostInv'
<1>1. /\ UNCHANGED <<instant, beat, beating, lostBeats>>
      /\ \E l \in {"starting", "dead", "refused", life[i]} : life' = [life EXCEPT ![i] = l]
  BY DEF InstanceStarts, InstanceDies, BeatRefused
<1>2. PICK l \in {"starting", "dead", "refused", life[i]} : life' = [life EXCEPT ![i] = l]
  BY <1>1
<1>3. life \in [Instances -> Lives] /\ l \in Lives
  BY DEF HostInv, HostTypes, Lives
<1>4. HostTypes'
  BY <1>1, <1>2, <1>3 DEF HostInv, HostTypes
<1>5. Active(instant)' = Active(instant)
  BY <1>1 DEF Active
<1>6. RoomFound'
  BY <1>1, <1>5, RoomStays DEF HostInv
<1>7. Unregistered' \subseteq Unregistered
  BY <1>1, <1>2, <1>3 DEF Unregistered
<1>8. lostBeats' = lostBeats + 0
  BY <1>1, AdmissionAssumption DEF HostInv, HostTypes
<1>9. FewUnregistered'
  BY <1>7, <1>8, FewStayUnregistered DEF HostInv
<1> QED BY <1>4, <1>6, <1>9 DEF HostInv

\* A heartbeat that is not refused has found room.
LEMMA BeatReadStep ==
    ASSUME HostInv, NEW i \in Instances, BeatRead(i)
    PROVE  HostInv'
<1>1. PICK b : b = [id |-> i, at |-> instant, since |-> {}]
  OBVIOUS
<1>2. /\ Beats(i) /\ ~Refuses(i) /\ beating' = beating \cup {b}
      /\ UNCHANGED <<instant, life, beat, lostBeats>>
  BY <1>1 DEF BeatRead
<1>3. b \in Beating /\ b.id = i /\ b.since = {}
  BY <1>1 DEF Beating, HostInv, HostTypes
<1>4. HostTypes'
  <2>1. \A c, d \in beating' : c.id = d.id => c = d
    BY <1>2, <1>3 DEF Beats, HostInv, HostTypes
  <2>2. beating' \subseteq Beating
    BY <1>2, <1>3 DEF HostInv, HostTypes
  <2> QED BY <1>2, <2>1, <2>2 DEF HostInv, HostTypes
<1>5. Active(instant)' = Active(instant)
  BY <1>2 DEF Active
<1>6. RoomFound'
  <2>1. ASSUME NEW c \in beating', c.id \notin DOMAIN beat
        PROVE  Cardinality(Active(instant) \ c.since) < HostCap
    <3>1. CASE c = b
      <4>1. ~ (Cardinality(Active(instant)) >= HostCap)
        BY <1>2, <1>3, <2>1, <3>1 DEF Refuses
      <4>2. Cardinality(Active(instant)) \in Nat /\ HostCap \in Nat
        BY ActiveAre, FewerInstances, AdmissionAssumption DEF HostInv
      <4>3. Active(instant) \ c.since = Active(instant)
        BY <1>3, <3>1
      <4> QED BY <4>1, <4>2, <4>3
    <3>2. CASE c \in beating
      BY <2>1, <3>2 DEF HostInv, RoomFound
    <3> QED BY <1>2, <3>1, <3>2
  <2> QED BY <1>2, <1>5, <2>1 DEF RoomFound
<1>7. FewUnregistered'
  BY <1>2 DEF HostInv, FewUnregistered, Unregistered
<1> QED BY <1>4, <1>6, <1>7 DEF HostInv

\* A heartbeat commits, which every other one is told.
LEMMA BeatCommitStep ==
    ASSUME HostInv, NEW b \in beating, BeatCommit(b)
    PROVE  HostInv'
<1>1. /\ beat' = Inserted(beat, b.id, b.at)
      /\ beating' = {[x EXCEPT !.since = @ \cup {b.id}] : x \in beating \ {b}}
      /\ life' = [life EXCEPT ![b.id] = IF @ = "starting" THEN "running" ELSE @]
      /\ UNCHANGED <<instant, lostBeats>>
  BY DEF BeatCommit, Runs
<1>2. /\ HostTypes /\ b.id \in Instances /\ b.at \in Instant
      /\ \A x \in beating : x \in Beating
      /\ DOMAIN beat \subseteq Instances /\ \A i \in DOMAIN beat : beat[i] \in Instant
  BY ActiveAre DEF HostInv, HostTypes, Beating
<1>3. /\ DOMAIN beat' = DOMAIN beat \cup {b.id} /\ beat'[b.id] = b.at
      /\ \A i \in DOMAIN beat : i # b.id => beat'[i] = beat[i]
      /\ beat' = [i \in DOMAIN beat' |-> beat'[i]]
  BY <1>1 DEF Inserted
<1>4. \A y \in beating' : \E x \in beating :
        /\ x # b /\ y \in Beating /\ y.id = x.id /\ y.at = x.at /\ y.since = x.since \cup {b.id}
        /\ y = [x EXCEPT !.since = @ \cup {b.id}]
  BY <1>1, <1>2 DEF Beating
<1>5. HostTypes'
  <2>1. IsTable(beat', Instances, Instant)
    BY <1>2, <1>3 DEF IsTable
  <2>2. ASSUME NEW c \in beating', NEW d \in beating', c.id = d.id PROVE c = d
    <3>1. PICK x \in beating : x.id = c.id /\ c = [x EXCEPT !.since = @ \cup {b.id}]
      BY <1>4
    <3>2. PICK y \in beating : y.id = d.id /\ d = [y EXCEPT !.since = @ \cup {b.id}]
      BY <1>4
    <3>3. x = y
      BY <1>2, <2>2, <3>1, <3>2 DEF HostTypes
    <3> QED BY <3>1, <3>2, <3>3
  <2>3. life' \in [Instances -> Lives]
    BY <1>1, <1>2 DEF HostTypes, Lives
  <2> QED BY <1>1, <1>2, <1>4, <2>1, <2>2, <2>3 DEF HostTypes
<1>6. RoomFound'
  <2>1. SUFFICES ASSUME NEW y \in beating', y.id \notin DOMAIN beat'
                 PROVE  Cardinality(Active(instant)' \ y.since) < HostCap
    BY DEF RoomFound
  <2>2. PICK x \in beating : y.id = x.id /\ y.since = x.since \cup {b.id}
    BY <1>4
  <2>3. Cardinality(Active(instant) \ x.since) < HostCap
    BY <1>3, <2>1, <2>2 DEF HostInv, RoomFound
  <2>4. PICK S \in SUBSET Instances : S = Active(instant) \ x.since
    BY <1>2, ActiveAre
  <2>5. Active(instant)' \subseteq Active(instant) \cup {b.id}
    BY <1>1, <1>3 DEF Active
  <2>6. PICK T \in SUBSET Instances : T = Active(instant)' \ y.since
    BY <1>2, <2>5, ActiveAre
  <2>7. T \subseteq S
    BY <2>2, <2>4, <2>5, <2>6
  <2>8. Cardinality(T) <= Cardinality(S) /\ Cardinality(T) \in Nat /\ Cardinality(S) \in Nat
    BY <2>7, FewerInstances
  <2>9. HostCap \in Nat
    BY AdmissionAssumption
  <2> QED BY <2>3, <2>4, <2>6, <2>8, <2>9
<1>7. FewUnregistered'
  <2>1. Unregistered' \subseteq Unregistered
    BY <1>1, <1>2, <1>3 DEF Unregistered, HostTypes
  <2>2. lostBeats' = lostBeats + 0
    BY <1>1, <1>2, AdmissionAssumption DEF HostTypes
  <2> QED BY <2>1, <2>2, FewStayUnregistered DEF HostInv
<1> QED BY <1>5, <1>6, <1>7 DEF HostInv

\* A heartbeat fails.
LEMMA BeatLostStep ==
    ASSUME HostInv, NEW i \in Instances, BeatLost(i)
    PROVE  HostInv'
<1>1. /\ lostBeats < MaxLostBeats /\ lostBeats' = lostBeats + 1
      /\ beating' = {b \in beating : b.id # i}
      /\ life' = [life EXCEPT ![i] = IF @ = "starting" THEN "running" ELSE @]
      /\ UNCHANGED <<instant, beat>>
  BY DEF BeatLost, Runs
<1>2. HostTypes'
  <2>1. lostBeats' \in 0 .. MaxLostBeats
    BY <1>1, AdmissionAssumption DEF HostInv, HostTypes
  <2>2. life' \in [Instances -> Lives]
    BY <1>1 DEF HostInv, HostTypes, Lives
  <2> QED BY <1>1, <2>1, <2>2 DEF HostInv, HostTypes
<1>3. Active(instant)' = Active(instant)
  BY <1>1 DEF Active
<1>4. RoomFound'
  BY <1>1, <1>3, RoomStays DEF HostInv
<1>5. Unregistered' \subseteq Unregistered \cup {i}
  BY <1>1 DEF Unregistered, HostInv, HostTypes
<1>6. FewUnregistered'
  BY <1>1, <1>5, FewStayUnregistered DEF HostInv
<1> QED BY <1>2, <1>4, <1>6 DEF HostInv

\* It holds when nothing runs.
LEMMA HostStart == AdmissionInit => HostInv
<1> SUFFICES ASSUME AdmissionInit PROVE HostInv
  OBVIOUS
<1>1. /\ instant = 0 /\ life = [i \in Instances |-> "off"] /\ beat = EmptyTable /\ beating = {}
      /\ lostBeats = 0
  BY DEF AdmissionInit
<1>2. 0 \in Instant /\ 0 \in 0 .. MaxLostBeats
  BY AdmissionAssumption DEF Instant
<1>3. IsTable(beat, Instances, Instant)
  BY <1>1 DEF IsTable, EmptyTable
<1>4. HostTypes
  BY <1>1, <1>2, <1>3 DEF HostTypes, Lives
<1>5. Unregistered = {}
  BY <1>1 DEF Unregistered
<1>6. FewUnregistered
  BY <1>1, <1>5, FS_EmptySet DEF FewUnregistered
<1> QED BY <1>1, <1>4, <1>6 DEF HostInv, RoomFound

\* Requests leave the instances alone.
LEMMA HostStays ==
    ASSUME HostInv, UNCHANGED <<instant, life, beat, beating, lostBeats>>
    PROVE  HostInv'
BY DEF HostInv, HostTypes, RoomFound, FewUnregistered, Unregistered, Active

\* Every step keeps it.
LEMMA HostStep ==
    ASSUME HostInv, [AdmissionNext]_admissionVars
    PROVE  HostInv'
<1>1. CASE HostNext
  <2>1. ASSUME NEW i \in Instances,
               \/ InstanceStarts(i) \/ InstanceDies(i)
               \/ BeatRead(i) \/ BeatRefused(i) \/ BeatLost(i)
        PROVE  HostInv'
    BY <2>1, LifeStep, BeatReadStep, BeatLostStep
  <2> QED BY <1>1, <2>1, BeatCommitStep DEF HostNext
<1>2. CASE RateNext \/ UNCHANGED admissionVars
  <2>1. UNCHANGED <<instant, life, beat, beating, lostBeats>>
    BY <1>2 DEF RateNext, HitRead, HitRecord, hostVars, admissionVars
  <2> QED BY <2>1, HostStays
<1> QED BY <1>1, <1>2, TickHost DEF AdmissionNext

\* Who commits a first heartbeat had found room.
LEMMA CapStep ==
    ASSUME HostInv, [AdmissionNext]_admissionVars
    PROVE  [\A b \in beating :
              b.id \in DOMAIN beat' \ DOMAIN beat =>
                  Cardinality(Active(instant) \ b.since) < HostCap]_admissionVars
BY DEF HostInv, RoomFound

-----------------------------------------------------------------------------
(* Requests in a window. *)

RateTypes ==
    /\ instant \in Instant /\ reading \in [Threads -> SUBSET Instant]
    /\ hits \in Seq(Instant) /\ bucket \in Seq(Instant) /\ Len(bucket) <= RateLimit

\* The counter keeps the last of the requests let in.
Dropped == Len(hits) - Len(bucket)

\* The counter keeps the end of the history.
Suffix == Len(bucket) <= Len(hits) /\ \A i \in 1 .. Len(bucket) : bucket[i] = hits[Dropped + i]

\* What it dropped had expired when a request came that was let in.
DroppedFor == \A i \in 1 .. Dropped : \E m \in DOMAIN hits : hits[m] > hits[i] + RateWindow

\* A request that nobody of later time had overtaken is within the limit, counted
\* from any before it that is in its window.
WithinLimit ==
    \A k \in DOMAIN hits : (\A m \in DOMAIN hits : m < k => hits[m] <= hits[k]) =>
        \A i \in DOMAIN hits : i <= k /\ hits[k] <= hits[i] + RateWindow => k - i < RateLimit

\* What every step keeps of the counter.
RateInv == RateTypes /\ Suffix /\ DroppedFor /\ WithinLimit

\* What the counter keeps at a time: all from some place on, and what it drops has
\* expired.
LEMMA KeptIs ==
    ASSUME RateTypes, NEW now \in Instant
    PROVE  \E c \in 0 .. Len(bucket) :
              /\ Kept(now) \in Seq(Instant) /\ Len(Kept(now)) = Len(bucket) - c
              /\ \A i \in 1 .. Len(bucket) - c : Kept(now)[i] = bucket[c + i]
              /\ \A i \in 1 .. c : Expired(bucket[i], now)
<1> DEFINE first == {i \in DOMAIN bucket : ~Expired(bucket[i], now)}
<1>0. bucket \in Seq(Instant) /\ Len(bucket) \in Nat /\ DOMAIN bucket = 1 .. Len(bucket)
  BY DEF RateTypes
<1>1. CASE first = {}
  <2>1. Kept(now) = <<>>
    BY <1>1 DEF Kept
  <2>2. \A i \in 1 .. Len(bucket) : Expired(bucket[i], now)
    BY <1>0, <1>1
  <2>0. Len(bucket) \in 0 .. Len(bucket)
    BY <1>0
  <2>3. PICK c \in 0 .. Len(bucket) : c = Len(bucket)
    BY <2>0
  <2>4. Len(<<>>) = Len(bucket) - c /\ 1 .. Len(bucket) - c = {} /\ <<>> \in Seq(Instant)
    BY <1>0, <2>3
  <2> QED BY <2>1, <2>2, <2>3, <2>4
<1>2. CASE first # {}
  <2>1. PICK a : a = CHOOSE i \in first : \A j \in first : i <= j
    OBVIOUS
  <2>2. \E i \in first : \A j \in first : i <= j
    <3>1. first \subseteq Nat
      BY <1>0
    <3> QED BY <1>2, <3>1, LeastOne
  <2>3. a \in first /\ \A j \in first : a <= j
    BY <2>1, <2>2
  <2>4. Kept(now) = SubSeq(bucket, a, Len(bucket))
    BY <1>2, <2>1 DEF Kept
  <2>5. a \in 1 .. Len(bucket)
    BY <1>0, <2>3
  <2>6. PICK c \in 0 .. Len(bucket) : c = a - 1
    BY <1>0, <2>5
  <2>7. \A i \in 1 .. c : Expired(bucket[i], now)
    BY <1>0, <2>3, <2>5, <2>6
  <2>8. PICK r : r = SubSeq(bucket, a, Len(bucket))
    OBVIOUS
  <2>9. /\ r \in Seq(Instant) /\ Len(r) = Len(bucket) - c
        /\ \A i \in 1 .. Len(bucket) - c : r[i] = bucket[c + i]
    <3> HIDE DEF first
    <3> QED BY <1>0, <2>5, <2>6, <2>8
  <2> QED BY <2>4, <2>7, <2>8, <2>9
<1> QED BY <1>1, <1>2

\* A request is counted, or refused.
LEMMA RecordStep ==
    ASSUME RateInv, NEW t \in Threads, HitRecord(t)
    PROVE  RateInv'
<1>1. PICK now \in reading[t] :
        /\ IF Len(Kept(now)) >= RateLimit
           THEN bucket' = Kept(now) /\ UNCHANGED hits
           ELSE bucket' = Append(Kept(now), now) /\ hits' = Append(hits, now)
        /\ reading' = [reading EXCEPT ![t] = {}]
        /\ instant' = instant
  BY DEF HitRecord
<1>2. /\ RateTypes /\ now \in Instant /\ now \in Nat /\ RateLimit \in Nat \ {0} /\ RateWindow \in Nat
      /\ hits \in Seq(Instant) /\ bucket \in Seq(Instant) /\ Len(hits) \in Nat /\ Len(bucket) \in Nat
      /\ Len(bucket) <= RateLimit /\ Len(bucket) <= Len(hits) /\ DOMAIN hits = 1 .. Len(hits)
      /\ \A i \in 1 .. Len(bucket) : bucket[i] \in Nat
      /\ \A i \in 1 .. Len(hits) : hits[i] \in Nat
  <2>1. /\ hits \in Seq(Instant) /\ bucket \in Seq(Instant) /\ Len(bucket) <= RateLimit
        /\ Len(bucket) <= Len(hits) /\ RateTypes /\ now \in Instant
    BY DEF RateInv, RateTypes, Suffix
  <2>2. Instant \subseteq Nat
    BY DEF Instant
  <2>3. RateLimit \in Nat \ {0} /\ RateWindow \in Nat
    BY AdmissionAssumption
  <2>4. /\ now \in Nat /\ Len(hits) \in Nat /\ Len(bucket) \in Nat
        /\ DOMAIN hits = 1 .. Len(hits)
    BY <2>1, <2>2
  <2>5. \A i \in 1 .. Len(bucket) : bucket[i] \in Instant
    BY <2>1
  <2>6. \A i \in 1 .. Len(hits) : hits[i] \in Instant
    BY <2>1
  <2>7. /\ \A i \in 1 .. Len(bucket) : bucket[i] \in Nat
        /\ \A i \in 1 .. Len(hits) : hits[i] \in Nat
    BY <2>2, <2>5, <2>6, Zenon
  <2> QED BY <2>1, <2>3, <2>4, <2>7
<1>3. PICK r : r = Kept(now)
  OBVIOUS
<1>4. PICK c \in 0 .. Len(bucket) :
              /\ r \in Seq(Instant) /\ Len(r) = Len(bucket) - c
              /\ \A i \in 1 .. Len(bucket) - c : r[i] = bucket[c + i]
              /\ \A i \in 1 .. c : Expired(bucket[i], now)
  BY <1>2, <1>3, KeptIs
<1>5. reading' \in [Threads -> SUBSET Instant]
  BY <1>1, <1>2 DEF RateTypes
<1>6. CASE Len(r) >= RateLimit
  <2>1. c = 0 /\ Len(r) = Len(bucket)
    BY <1>2, <1>4, <1>6
  <2>2. r = bucket
    BY <1>2, <1>4, <2>1
  <2>3. bucket' = bucket /\ hits' = hits
    BY <1>1, <1>3, <1>6, <2>2
  <2> QED BY <1>1, <1>5, <2>3 DEF RateInv, RateTypes, Suffix, Dropped, DroppedFor, WithinLimit
<1>7. CASE ~ (Len(r) >= RateLimit)
  <2>1. PICK h : h = Append(hits, now)
    OBVIOUS
  <2>2. PICK b : b = Append(r, now)
    OBVIOUS
  <2>3. hits' = h /\ bucket' = b
    BY <1>1, <1>3, <1>7, <2>1, <2>2
  <2>4. PICK n \in Nat : n = Len(hits)
    BY <1>2
  <2>5. /\ h \in Seq(Instant) /\ Len(h) = n + 1 /\ h[n + 1] = now /\ DOMAIN h = 1 .. n + 1
        /\ \A i \in 1 .. n : h[i] = hits[i]
    BY <1>2, <2>1, <2>4
  <2>a. PICK q \in Nat : q = Len(bucket)
    BY <1>2
  <2>b. q <= n /\ c \in Nat /\ c <= q /\ Len(r) = q - c
    BY <1>2, <1>4, <2>4, <2>a
  <2>6. PICK l \in Nat : l = Len(r)
    BY <2>b
  <2>7. /\ b \in Seq(Instant) /\ Len(b) = l + 1 /\ b[l + 1] = now
        /\ \A i \in 1 .. l : b[i] = r[i]
    BY <1>2, <1>4, <2>2, <2>6
  <2>8. l + 1 <= RateLimit /\ l + c = Len(bucket) /\ l <= n /\ c \in Nat
    BY <1>2, <1>4, <1>7, <2>4, <2>6
  <2>c. n - q \in Nat /\ Dropped = n - q
    BY <2>4, <2>a, <2>b DEF Dropped
  <2>9. PICK d \in Nat : d = n - Len(bucket) /\ d = Dropped
    BY <2>a, <2>c
  <2>d. d + c + l = n
    BY <2>6, <2>9, <2>a, <2>b
  <2>e. Dropped' = (n + 1) - (l + 1)
    BY <2>3, <2>5, <2>7 DEF Dropped
  <2>10. Dropped' = d + c /\ d + c + l = n
    BY <2>b, <2>d, <2>e
  <2>11. RateTypes'
    BY <1>1, <1>2, <1>5, <2>3, <2>5, <2>7, <2>8 DEF RateTypes
  <2>12. Suffix'
    <3>1. ASSUME NEW i \in 1 .. l + 1 PROVE b[i] = h[d + c + i]
      <4>1. CASE i = l + 1
        <5>1. d + c + i = n + 1
          BY <2>8, <2>10, <4>1
        <5> QED BY <2>5, <2>7, <4>1, <5>1
      <4>2. CASE i # l + 1
        <5>1. i \in 1 .. l /\ c + i \in 1 .. Len(bucket) /\ d + c + i \in 1 .. n
          BY <2>8, <2>9, <2>10, <4>2
        <5>2. b[i] = bucket[c + i]
          BY <1>4, <2>6, <2>7, <5>1
        <5>3. bucket[c + i] = hits[d + (c + i)]
          BY <2>9, <5>1 DEF RateInv, Suffix
        <5>4. d + (c + i) = d + c + i
          BY <2>8
        <5> QED BY <2>5, <5>1, <5>2, <5>3, <5>4
      <4> QED BY <4>1, <4>2
    <3>2. Len(b) <= Len(h)
      BY <2>5, <2>7, <2>8
    <3> QED BY <2>3, <2>7, <2>10, <3>1, <3>2 DEF Suffix
  <2>13. \A i \in 1 .. d : \E m \in 1 .. n : hits[m] > hits[i] + RateWindow
    BY <1>2, <2>4, <2>9 DEF RateInv, DroppedFor
  <2>14. ASSUME NEW i \in d + 1 .. d + c PROVE i \in 1 .. n /\ now > hits[i] + RateWindow
    <3>0. PICK k \in 1 .. c : i = d + k
      <4>1. i - d \in 1 .. c /\ i = d + (i - d)
        BY <2>8, <2>9
      <4> QED BY <4>1
    <3>1. i - d = k /\ k \in 1 .. Len(bucket) /\ i \in 1 .. n /\ d + k = i
      <4>1. k <= c + l /\ c + l = Len(bucket) /\ l \in Nat
        BY <2>6, <2>8
      <4>2. d + k <= n
        BY <2>9, <2>10, <4>1
      <4> QED BY <2>4, <2>8, <2>9, <3>0, <4>1, <4>2
    <3>2. Expired(bucket[k], now)
      BY <1>4, <3>1
    <3>3. bucket[k] = hits[i]
      BY <2>9, <3>1 DEF RateInv, Suffix
    <3> QED BY <1>2, <2>4, <3>1, <3>2, <3>3 DEF Expired
  <2>15. DroppedFor'
    <3>1. ASSUME NEW i \in 1 .. d + c PROVE \E m \in 1 .. n + 1 : h[m] > h[i] + RateWindow
      <4>1. CASE i \in 1 .. d
        <5>1. PICK m \in 1 .. n : hits[m] > hits[i] + RateWindow
          BY <2>13, <4>1
        <5>2. i \in 1 .. n /\ m \in 1 .. n + 1
          BY <2>8, <2>10, <4>1
        <5> QED BY <2>5, <5>1, <5>2
      <4>2. CASE i \notin 1 .. d
        <5>1. i \in d + 1 .. d + c
          BY <2>8, <4>2
        <5>2. i \in 1 .. n /\ now > hits[i] + RateWindow /\ n + 1 \in 1 .. n + 1
          BY <2>14, <5>1
        <5> QED BY <2>5, <5>2
      <4> QED BY <4>1, <4>2
    <3> QED BY <2>3, <2>5, <2>10, <3>1 DEF DroppedFor
  <2>16. WithinLimit'
    <3>1. SUFFICES ASSUME NEW k \in 1 .. n + 1, \A m \in 1 .. n + 1 : m < k => h[m] <= h[k],
                          NEW i \in 1 .. n + 1, i <= k, h[k] <= h[i] + RateWindow
                   PROVE  k - i < RateLimit
      BY <2>3, <2>5 DEF WithinLimit
    <3>2. CASE k # n + 1
      <4>1. k \in 1 .. n /\ i \in 1 .. n
        BY <3>1, <3>2
      <4>2. \A m \in 1 .. n : m < k => hits[m] <= hits[k]
        BY <2>5, <3>1, <4>1
      <4>3. hits[k] <= hits[i] + RateWindow
        BY <2>5, <3>1, <4>1
      <4> QED BY <1>2, <2>4, <3>1, <4>1, <4>2, <4>3 DEF RateInv, WithinLimit
    <3>3. CASE k = n + 1
      <4>1. h[k] = now
        BY <2>5, <3>3
      <4>2. CASE i \in 1 .. d
        <5>1. PICK m \in 1 .. n : hits[m] > hits[i] + RateWindow
          BY <2>13, <4>2
        <5>2. m \in 1 .. n + 1 /\ m < k /\ i \in 1 .. n
          BY <2>8, <2>10, <3>3, <4>2
        <5>3. hits[m] <= now /\ now <= hits[i] + RateWindow
          BY <2>5, <3>1, <4>1, <5>2
        <5>4. /\ hits[m] \in Nat /\ hits[i] \in Nat
              /\ now \in Nat /\ RateWindow \in Nat
          BY <1>2, <2>4, <5>2
        <5> QED BY <5>1, <5>3, <5>4
      <4>3. CASE i \in d + 1 .. d + c
        <5>1. i \in 1 .. n /\ now > hits[i] + RateWindow
          BY <2>14, <4>3
        <5>2. now <= hits[i] + RateWindow /\ hits[i] \in Nat
          BY <1>2, <2>4, <2>5, <3>1, <4>1, <5>1
        <5> QED BY <1>2, <5>1, <5>2
      <4>4. CASE i \notin 1 .. d /\ i \notin d + 1 .. d + c
        <5>1. i > d + c /\ i \in Nat /\ RateLimit \in Nat
          BY <1>2, <2>8, <4>4
        <5>2. k - i <= l
          BY <2>8, <2>10, <3>3, <5>1
        <5>3. k - i \in Int
          BY <3>3, <5>1
        <5> QED BY <2>8, <5>1, <5>2, <5>3
      <4> QED BY <4>2, <4>3, <4>4
    <3> QED BY <3>2, <3>3
  <2> QED BY <2>11, <2>12, <2>15, <2>16 DEF RateInv
<1> QED BY <1>6, <1>7

\* Every step keeps it.
LEMMA RateStep ==
    ASSUME RateInv, HostTypes', [AdmissionNext]_admissionVars
    PROVE  RateInv'
<1>1. ASSUME NEW t \in Threads, HitRead(t) PROVE RateInv'
  <2>1. UNCHANGED <<instant, bucket, hits>> /\ reading' = [reading EXCEPT ![t] = {instant}]
    BY <1>1 DEF HitRead
  <2> QED BY <2>1 DEF RateInv, RateTypes, Suffix, Dropped, DroppedFor, WithinLimit
<1>2. CASE Tick \/ HostNext \/ UNCHANGED admissionVars
  <2>1. UNCHANGED <<reading, bucket, hits>>
    BY <1>2 DEF Tick, HostNext, InstanceStarts, InstanceDies, BeatRead, BeatRefused, BeatLost,
                BeatCommit, rateVars, admissionVars
  <2>2. instant' \in Instant
    BY DEF HostTypes
  <2> QED BY <2>1, <2>2 DEF RateInv, RateTypes, Suffix, Dropped, DroppedFor, WithinLimit
<1> QED BY <1>1, <1>2, RecordStep DEF AdmissionNext, RateNext

\* It holds when no request was made.
LEMMA RateStart == AdmissionInit => RateInv
<1> SUFFICES ASSUME AdmissionInit PROVE RateInv
  OBVIOUS
<1>1. /\ instant = 0 /\ reading = [t \in Threads |-> {}] /\ bucket = <<>> /\ hits = <<>>
  BY DEF AdmissionInit
<1>2. 0 \in Instant /\ RateLimit \in Nat
  BY AdmissionAssumption DEF Instant
<1>3. <<>> \in Seq(Instant) /\ Len(<<>>) = 0 /\ DOMAIN <<>> = {}
  OBVIOUS
<1>4. RateTypes
  BY <1>1, <1>2, <1>3 DEF RateTypes
<1>5. Dropped = 0
  BY <1>1, <1>3 DEF Dropped
<1> QED BY <1>1, <1>3, <1>4, <1>5 DEF RateInv, Suffix, DroppedFor, WithinLimit

\* A set of places no two of which are n apart has n at most.
LEMMA ShortSpan ==
    ASSUME NEW N, N \subseteq Nat, NEW n \in Nat, \A i, k \in N : i <= k => k - i < n
    PROVE  IsFiniteSet(N) /\ Cardinality(N) \in Nat /\ Cardinality(N) <= n
<1>1. CASE N = {}
  BY <1>1, FS_EmptySet
<1>2. CASE N # {}
  <2>1. PICK a \in N : \A k \in N : a <= k
    BY <1>2, LeastOne
  <2>2. a \in Nat /\ a \in Int /\ a + n - 1 \in Int
    BY <2>1
  <2>3. N \subseteq a .. a + n - 1
    <3>1. ASSUME NEW k \in N PROVE k \in a .. a + n - 1
      <4>1. a <= k /\ k - a < n /\ k \in Nat
        BY <2>1
      <4> QED BY <2>2, <4>1
    <3> QED BY <3>1
  <2>4. IsFiniteSet(a .. a + n - 1) /\ Cardinality(a .. a + n - 1) <= n
    BY <2>2, FS_Interval
  <2>5. IsFiniteSet(N) /\ Cardinality(N) <= Cardinality(a .. a + n - 1)
    BY <2>3, <2>4, FS_Subset
  <2>6. Cardinality(N) \in Nat /\ Cardinality(a .. a + n - 1) \in Nat
    BY <2>4, <2>5, FS_CardinalityType
  <2> QED BY <2>4, <2>5, <2>6
<1> QED BY <1>1, <1>2

\* A set added to one of n elements at most.
LEMMA CountWith ==
    ASSUME NEW A, NEW B, IsFiniteSet(A), IsFiniteSet(B), A \cap B = {},
           NEW n \in Nat, Cardinality(A) <= n
    PROVE  Cardinality(A \cup B) <= n + Cardinality(B)
<1>1. PICK a \in Nat : a = Cardinality(A)
  BY FS_CardinalityType
<1>2. PICK b \in Nat : b = Cardinality(B)
  BY FS_CardinalityType
<1>3. Cardinality(A \cup B) = Cardinality(A) + Cardinality(B) - Cardinality(A \cap B)
  BY FS_Union
<1>4. Cardinality(A \cap B) = 0
  BY FS_EmptySet
<1>5. Cardinality(A \cup B) = a + b
  BY <1>1, <1>2, <1>3, <1>4
<1> QED BY <1>1, <1>2, <1>5

\* It bounds the requests of every window.
LEMMA WindowSo == RateInv => WindowLimit
<1> SUFFICES ASSUME RateInv, NEW from \in Instant,
                    NEW inside, inside = {i \in DOMAIN hits : hits[i] \in from .. from + RateWindow},
                    NEW late, late = {i \in inside : \E j \in DOMAIN hits : j < i /\ hits[j] > hits[i]}
             PROVE  Cardinality(inside) <= RateLimit + Cardinality(late)
  BY DEF WindowLimit
<1>1. /\ Len(hits) \in Nat /\ DOMAIN hits = 1 .. Len(hits) /\ RateLimit \in Nat /\ RateWindow \in Nat
      /\ from \in Nat /\ \A i \in DOMAIN hits : hits[i] \in Nat
  BY AdmissionAssumption DEF RateInv, RateTypes, Instant
<1>2. IsFiniteSet(DOMAIN hits)
  BY <1>1, FS_Interval
<1>3. IsFiniteSet(inside) /\ IsFiniteSet(late) /\ Cardinality(late) \in Nat
  <2>1. IsFiniteSet(inside) /\ IsFiniteSet(late)
    BY <1>2, FS_Subset
  <2> QED BY <2>1, FS_CardinalityType
<1>4. PICK N : N = inside \ late
  OBVIOUS
<1>5. IsFiniteSet(N) /\ Cardinality(N) \in Nat /\ Cardinality(N) <= RateLimit
  <2>1. ASSUME NEW i \in N, NEW k \in N, i <= k PROVE k - i < RateLimit
    <3>1. i \in DOMAIN hits /\ k \in DOMAIN hits
      BY <1>4
    <3>2. \A m \in DOMAIN hits : m < k => hits[m] <= hits[k]
      BY <1>1, <1>4, <3>1
    <3>3. hits[k] <= hits[i] + RateWindow
      BY <1>1, <1>4, <3>1
    <3> QED BY <2>1, <3>1, <3>2, <3>3 DEF RateInv, WithinLimit
  <2>2. N \subseteq Nat
    BY <1>1, <1>4
  <2> QED BY <1>1, <2>1, <2>2, ShortSpan
<1>6. inside = N \cup late /\ N \cap late = {}
  BY <1>4
<1>7. Cardinality(N \cup late) <= RateLimit + Cardinality(late)
  BY <1>1, <1>3, <1>5, <1>6, CountWith
<1> QED BY <1>6, <1>7

-----------------------------------------------------------------------------
(* The theorems. *)

\* So both hold throughout.
LEMMA AdmissionInv == AdmissionSpec => []HostInv /\ []RateInv
<1>1. HostInv => HostTypes
  BY DEF HostInv
<1> QED BY <1>1, HostStart, HostStep, RateStart, RateStep, PTL DEF AdmissionSpec

\* Instances, heartbeats and counters keep their types; the counter never holds
\* more than its limit (main.py, the heartbeat; limits.py).
THEOREM AdmissionTypesOK == AdmissionSpec => []AdmissionTypeOK
<1>1. HostInv /\ RateInv => AdmissionTypeOK
  BY DEF HostInv, HostTypes, RateInv, RateTypes, AdmissionTypeOK
<1> QED BY <1>1, AdmissionInv, PTL

\* The cap and the rate limit hold but for who had overlapped, and no bot runs
\* unregistered unless a heartbeat of it failed.
THEOREM LimitsDoHold == AdmissionSpec => LimitsHold
<1>1. HostInv => Cardinality({i \in Instances : life[i] = "running" /\ i \notin DOMAIN beat})
                    <= lostBeats
  BY DEF HostInv, FewUnregistered, Unregistered
<1> QED BY <1>1, AdmissionInv, CapStep, WindowSo, PTL DEF AdmissionSpec, LimitsHold, CapHolds

-----------------------------------------------------------------------------
(* Codes that are good for one use. *)

InvitesOK ==
    /\ IsTable(token, Links \cup Codes, Token)
    /\ IsTable(spending, Requests, Spending)
    /\ used \subseteq DOMAIN spending
    /\ \A b \in DOMAIN bond : bond[b] \in {"there", "removed"}

\* Requests that are open have overlapped, a code that was used is good no
\* more, and whoever still has it open has overlapped with who used it.
InvitesInv ==
    /\ InvitesOK
    /\ \A r \in DOMAIN spending : spending[r].code \in DOMAIN token
    /\ \A r, q \in OpenRequests : r # q => {r, q} \in lapped
    /\ \A r \in used : token[spending[r].code].state # "good"
    /\ \A r \in used, q \in OpenRequests :
          spending[r].code = spending[q].code => r # q /\ {r, q} \in lapped
    /\ CodesSpentOnce

\* A request that only moves, or is over, changes no history.
RequestsMove ==
    /\ DOMAIN spending' = DOMAIN spending
    /\ \A r \in DOMAIN spending : spending'[r] \in Spending
                                  /\ spending'[r].code = spending[r].code
    /\ OpenRequests' \subseteq OpenRequests
    /\ used' = used /\ lapped' = lapped

\* Who only moves keeps the codes.
LEMMA MovesKeepInvites ==
    ASSUME InvitesInv, RequestsMove, IsTable(spending', Requests, Spending),
           UNCHANGED token, \A b \in DOMAIN bond' : bond'[b] \in {"there", "removed"}
    PROVE  InvitesInv'
<1>1. InvitesOK'
  BY DEF InvitesInv, InvitesOK, RequestsMove
<1>2. CodesSpentOnce'
  BY DEF InvitesInv, InvitesOK, RequestsMove, CodesSpentOnce
<1>3. \A r \in used', q \in OpenRequests' :
         spending'[r].code = spending'[q].code => r # q /\ {r, q} \in lapped'
  BY DEF InvitesInv, InvitesOK, RequestsMove, OpenRequests
<1> QED BY <1>1, <1>2, <1>3 DEF InvitesInv, InvitesOK, RequestsMove

\* A new or changed code that was not spent and is not.
LEMMA TokensKeepInvites ==
    ASSUME InvitesInv, UNCHANGED <<spending, used, lapped, bond>>,
           IsTable(token', Links \cup Codes, Token), DOMAIN token \subseteq DOMAIN token',
           \A c \in DOMAIN token' : \/ c \notin DOMAIN token /\ token'[c].state = "good"
                                    \/ c \in DOMAIN token /\ token'[c] = token[c]
                                    \/ token'[c].state \in {"expired", "deleted"}
    PROVE  InvitesInv'
<1>1. InvitesOK'
  BY DEF InvitesInv, InvitesOK
<1>2. CodesSpentOnce'
  BY DEF InvitesInv, CodesSpentOnce
<1>3. \A r \in used' : token'[spending'[r].code].state # "good"
  BY DEF InvitesInv, InvitesOK
<1> QED BY <1>1, <1>2, <1>3 DEF InvitesInv, OpenRequests

\* Every step keeps it.
LEMMA InvitesStep ==
    ASSUME InvitesInv, [InvitesNext]_inviteVars
    PROVE  InvitesInv'
<1>0. /\ \A r \in DOMAIN spending : r \in Requests /\ spending[r] \in Spending
      /\ \A c \in DOMAIN token : token[c] \in Token
      /\ OpenRequests \subseteq DOMAIN spending
  BY DEF InvitesInv, InvitesOK, IsTable, OpenRequests
<1>1. ASSUME NEW c \in Links \cup Codes, NEW o \in People \cup Vendors, Issue(c, o)
      PROVE  InvitesInv'
  <2>1. PICK x : x = [owner |-> o, state |-> "good"] /\ token' = Inserted(token, c, x)
    BY <1>1 DEF Issue
  <2>2. x \in Token /\ x.state = "good" /\ c \notin DOMAIN token
    BY <1>1, <2>1 DEF Token, Issue
  <2>3. /\ IsTable(token', Links \cup Codes, Token)
        /\ DOMAIN token' = DOMAIN token \cup {c} /\ token'[c] = x
        /\ \A d \in DOMAIN token : token'[d] = token[d]
    BY <2>1, <2>2 DEF InvitesInv, InvitesOK, IsTable, Inserted
  <2> QED BY <1>1, <2>2, <2>3, TokensKeepInvites DEF Issue
<1>2. ASSUME NEW c \in Links \cup Codes, Expire(c) \/ Revoke(c) PROVE InvitesInv'
  <2>1. PICK s \in {"expired", "deleted"} : token' = [token EXCEPT ![c].state = s]
    BY <1>2 DEF Expire, Revoke
  <2>2. c \in DOMAIN token /\ UNCHANGED <<spending, used, lapped, bond>>
    BY <1>2 DEF Expire, Revoke, Good
  <2>3. token' = [token EXCEPT ![c] = [token[c] EXCEPT !.state = s]]
    BY <2>1
  <2>4. [token[c] EXCEPT !.state = s] \in Token /\ [token[c] EXCEPT !.state = s].state = s
    BY <1>0, <2>2 DEF Token
  <2>5. /\ IsTable(token', Links \cup Codes, Token) /\ DOMAIN token' = DOMAIN token
        /\ token'[c].state = s /\ \A d \in DOMAIN token : d # c => token'[d] = token[d]
    BY <2>2, <2>3, <2>4 DEF InvitesInv, InvitesOK, IsTable
  <2> QED BY <2>2, <2>5, TokensKeepInvites
<1>3. ASSUME NEW r \in Requests, NEW c \in Links \cup Codes, NEW p \in People,
             SpendRead(r, c, p)
      PROVE  InvitesInv'
  <2>1. PICK x : /\ x = [code |-> c, by |-> p, stage |-> "read", seen |-> "unread"]
                 /\ spending' = Inserted(spending, r, x)
    BY <1>3 DEF SpendRead
  <2>2. /\ x \in Spending /\ x.code = c /\ r \notin DOMAIN spending
        /\ c \in DOMAIN token /\ token[c].state = "good" /\ UNCHANGED <<token, used, bond>>
        /\ lapped' = lapped \cup {{r, q} : q \in OpenRequests}
    BY <1>3, <2>1 DEF Spending, SpendRead, Good
  <2>3. /\ DOMAIN spending' = DOMAIN spending \cup {r} /\ spending'[r] = x
        /\ \A q \in DOMAIN spending : spending'[q] = spending[q]
    BY <2>1, <2>2 DEF Inserted
  <2>4. InvitesOK'
    BY <2>2, <2>3, <2>1 DEF InvitesInv, InvitesOK, IsTable, Inserted
  <2>5. OpenRequests' \subseteq OpenRequests \cup {r}
    BY <2>3 DEF OpenRequests
  <2>6. \A q \in used : q \in DOMAIN spending /\ spending'[q].code # c
    BY <2>2, <2>3 DEF InvitesInv, InvitesOK
  <2>7. ASSUME NEW q \in OpenRequests', NEW k \in OpenRequests', q # k
        PROVE  {q, k} \in lapped'
    <3>1. CASE q \in OpenRequests /\ k \in OpenRequests
      <4>1. {q, k} \in lapped
        BY <2>7, <3>1 DEF InvitesInv
      <4> QED BY <2>2, <4>1
    <3>2. CASE q = r /\ k \in OpenRequests
      BY <2>2, <3>2
    <3>3. CASE k = r /\ q \in OpenRequests
      <4>1. {q, k} = {r, q}
        BY <3>3
      <4> QED BY <2>2, <3>3, <4>1
    <3> QED BY <2>5, <2>7, <3>1, <3>2, <3>3
  <2>8. ASSUME NEW u \in used', NEW q \in OpenRequests',
               spending'[u].code = spending'[q].code
        PROVE  u # q /\ {u, q} \in lapped'
    <3>1. q # r /\ q \in OpenRequests /\ u \in used /\ u \in DOMAIN spending
      BY <2>2, <2>3, <2>5, <2>6, <2>8
    <3>2. u # q /\ {u, q} \in lapped
      BY <1>0, <2>3, <2>8, <3>1 DEF InvitesInv
    <3> QED BY <2>2, <3>2
  <2>9. CodesSpentOnce'
    <3>1. \A u, q \in used : spending'[u].code = spending'[q].code /\ u # q
                                => {u, q} \in lapped
      BY <2>3, <2>6 DEF InvitesInv, CodesSpentOnce
    <3>2. lapped \subseteq lapped'
      BY <2>2
    <3> QED BY <2>2, <2>3, <2>6, <3>1, <3>2 DEF InvitesInv, CodesSpentOnce
  <2> QED BY <2>2, <2>3, <2>4, <2>6, <2>7, <2>8, <2>9 DEF InvitesInv
<1>4. ASSUME NEW r \in DOMAIN spending, NEW x \in Spending, x.code = spending[r].code,
             spending' = [spending EXCEPT ![r] = x],
             r \in OpenRequests \/ x.stage = "over", used' = used, lapped' = lapped
      PROVE  RequestsMove /\ IsTable(spending', Requests, Spending)
  <2>1. /\ DOMAIN spending' = DOMAIN spending /\ spending'[r] = x
        /\ \A q \in DOMAIN spending : q # r => spending'[q] = spending[q]
    BY <1>4
  <2>2. OpenRequests' \subseteq OpenRequests
    BY <1>4, <2>1 DEF OpenRequests
  <2>3. IsTable(spending', Requests, Spending)
    BY <1>0, <1>4, <2>1 DEF IsTable
  <2> QED BY <1>0, <1>4, <2>1, <2>2, <2>3 DEF RequestsMove
<1>5. ASSUME NEW r \in OpenRequests, NEW s \in {"locked", "looked", "over"}, Moves(r, s),
             UNCHANGED <<token, used, lapped, bond>>
      PROVE  InvitesInv'
  <2>1. PICK x : x = [spending[r] EXCEPT !.stage = s]
                 /\ spending' = [spending EXCEPT ![r] = x]
    BY <1>5 DEF Moves
  <2>2. x \in Spending /\ x.code = spending[r].code
    BY <1>0, <2>1 DEF Spending
  <2>3. \A b \in DOMAIN bond' : bond'[b] \in {"there", "removed"}
    BY <1>5 DEF InvitesInv, InvitesOK
  <2> QED BY <1>0, <1>4, <1>5, <2>1, <2>2, <2>3, MovesKeepInvites
<1>6. ASSUME NEW r \in Requests, SpendLock(r) \/ SpendFails(r) \/ SpendAborts(r)
      PROVE  InvitesInv'
  BY <1>5, <1>6 DEF SpendLock, SpendFails, SpendAborts
<1>7. ASSUME NEW r \in Requests, SpendLook(r) PROVE InvitesInv'
  <2>1. PICK v : /\ v = IF ~IsLink(spending[r].code)
                        THEN BondOf(spending[r].by, token[spending[r].code].owner)
                        ELSE IF spending[r].by \in person THEN "there" ELSE "none"
                 /\ spending' = [spending EXCEPT ![r].stage = "looked", ![r].seen = v]
    BY <1>7 DEF SpendLook
  <2>2. v \in {"none", "there", "removed"}
    BY <2>1 DEF BondOf, InvitesInv, InvitesOK
  <2>3. PICK x : x = [spending[r] EXCEPT !.stage = "looked", !.seen = v]
                 /\ spending' = [spending EXCEPT ![r] = x]
    BY <2>1
  <2>4. r \in OpenRequests /\ r \in DOMAIN spending /\ UNCHANGED <<token, used, lapped, bond>>
    BY <1>0, <1>7 DEF SpendLook
  <2>5. x \in Spending /\ x.code = spending[r].code
    BY <1>0, <2>2, <2>3, <2>4 DEF Spending
  <2>6. \A b \in DOMAIN bond' : bond'[b] \in {"there", "removed"}
    BY <2>4 DEF InvitesInv, InvitesOK
  <2> QED BY <1>4, <2>3, <2>4, <2>5, <2>6, MovesKeepInvites
<1>8. ASSUME NEW r \in Requests, SpendCommit(r) PROVE InvitesInv'
  <2>1. PICK c : c = spending[r].code
    OBVIOUS
  <2>2. /\ r \in OpenRequests /\ r \in DOMAIN spending /\ c \in DOMAIN token
        /\ token' = [token EXCEPT ![c].state = "spent"]
        /\ used' = used \cup {r} /\ lapped' = lapped
        /\ spending' = [spending EXCEPT ![r].stage = "over"]
    BY <1>0, <1>8, <2>1 DEF SpendCommit, Moves, InvitesInv
  <2>3. /\ DOMAIN token' = DOMAIN token /\ token'[c].state = "spent" /\ token'[c] \in Token
        /\ \A d \in DOMAIN token : d # c => token'[d] = token[d]
    <3>1. token' = [token EXCEPT ![c] = [token[c] EXCEPT !.state = "spent"]]
      BY <2>2
    <3>2. /\ [token[c] EXCEPT !.state = "spent"] \in Token
          /\ [token[c] EXCEPT !.state = "spent"].state = "spent"
      BY <1>0, <2>2 DEF Token
    <3> QED BY <2>2, <3>1, <3>2
  <2>4. /\ DOMAIN spending' = DOMAIN spending /\ spending'[r].stage = "over"
        /\ spending'[r] \in Spending /\ spending'[r].code = c
        /\ \A q \in DOMAIN spending : q # r => spending'[q] = spending[q]
    <3>1. spending' = [spending EXCEPT ![r] = [spending[r] EXCEPT !.stage = "over"]]
      BY <2>2
    <3>2. /\ [spending[r] EXCEPT !.stage = "over"] \in Spending
          /\ [spending[r] EXCEPT !.stage = "over"].stage = "over"
          /\ [spending[r] EXCEPT !.stage = "over"].code = c
      BY <1>0, <2>1, <2>2 DEF Spending
    <3> QED BY <2>2, <3>1, <3>2
  <2>5. \A q \in DOMAIN spending : spending'[q].code = spending[q].code
    BY <2>1, <2>4
  <2>6. OpenRequests' \subseteq OpenRequests \ {r}
    BY <2>4 DEF OpenRequests
  <2>7. \A b \in DOMAIN bond' : bond'[b] \in {"there", "removed"}
    BY <1>8 DEF SpendCommit, Inserted, InvitesInv, InvitesOK
  <2>8. InvitesOK'
    BY <1>0, <2>2, <2>3, <2>4, <2>7 DEF InvitesInv, InvitesOK, IsTable
  <2>9. \A u \in used' : token'[spending'[u].code].state # "good"
    BY <2>2, <2>3, <2>4, <2>5 DEF InvitesInv, InvitesOK
  <2>10. ASSUME NEW u \in used', NEW q \in OpenRequests',
                spending'[u].code = spending'[q].code
         PROVE  u # q /\ {u, q} \in lapped'
    BY <1>0, <2>2, <2>5, <2>6, <2>10 DEF InvitesInv, InvitesOK
  <2>11. CodesSpentOnce'
    <3>1. ASSUME NEW u \in used', NEW q \in used', u # q,
                 spending'[u].code = spending'[q].code
          PROVE  {u, q} \in lapped'
      <4>1. CASE u \in used /\ q \in used
        BY <2>2, <2>5, <3>1, <4>1 DEF InvitesInv, InvitesOK, CodesSpentOnce
      <4>2. CASE u \in used /\ q = r
        BY <2>2, <2>5, <3>1, <4>2 DEF InvitesInv, InvitesOK
      <4>3. CASE u = r /\ q \in used
        <5>1. {u, q} = {q, r} /\ {q, r} \in lapped
          BY <2>2, <2>5, <3>1, <4>3 DEF InvitesInv, InvitesOK
        <5> QED BY <2>2, <5>1
      <4> QED BY <2>2, <3>1, <4>1, <4>2, <4>3
    <3>2. ASSUME NEW d \in DOMAIN token', token'[d].state = "spent"
          PROVE  \E u \in used' : spending'[u].code = d
      <4>1. CASE d = c
        BY <2>2, <2>4, <4>1
      <4>2. CASE d # c
        <5>1. d \in DOMAIN token /\ token[d].state = "spent"
          BY <2>3, <3>2, <4>2
        <5>2. PICK u \in used : spending[u].code = d
          BY <5>1 DEF InvitesInv, CodesSpentOnce
        <5>3. u \in used' /\ spending'[u].code = d
          BY <2>2, <2>5, <5>2 DEF InvitesInv, InvitesOK
        <5> QED BY <5>3
      <4> QED BY <4>1, <4>2
    <3> QED BY <3>1, <3>2 DEF CodesSpentOnce
  <2> QED BY <1>0, <2>2, <2>3, <2>5, <2>6, <2>8, <2>9, <2>10, <2>11, <2>4 DEF InvitesInv
<1>9. ASSUME NEW p \in People, Leave(p) PROVE InvitesInv'
  <2>1. /\ spending' = [r \in DOMAIN spending |->
                          IF r \in Needs(p) THEN [spending[r] EXCEPT !.stage = "over"]
                          ELSE spending[r]]
        /\ UNCHANGED <<token, used, lapped>>
    BY <1>9 DEF Leave
  <2>2. ASSUME NEW r \in DOMAIN spending
        PROVE  /\ [spending[r] EXCEPT !.stage = "over"] \in Spending
               /\ [spending[r] EXCEPT !.stage = "over"].stage = "over"
               /\ [spending[r] EXCEPT !.stage = "over"].code = spending[r].code
    BY <1>0 DEF Spending
  <2>3. /\ DOMAIN spending' = DOMAIN spending
        /\ \A r \in DOMAIN spending : \/ spending'[r] = spending[r]
                                       \/ /\ spending'[r] \in Spending
                                          /\ spending'[r].stage = "over"
                                          /\ spending'[r].code = spending[r].code
    BY <2>1, <2>2
  <2>4. OpenRequests' \subseteq OpenRequests
    BY <2>3 DEF OpenRequests
  <2>5. RequestsMove
    BY <1>0, <2>1, <2>3, <2>4 DEF RequestsMove
  <2>6. IsTable(spending', Requests, Spending)
    BY <1>0, <2>1, <2>2 DEF IsTable
  <2>7. \A b \in DOMAIN bond' : bond'[b] \in {"there", "removed"}
    BY <1>9 DEF Leave, Removed, InvitesInv, InvitesOK
  <2> QED BY <2>1, <2>5, <2>6, <2>7, MovesKeepInvites
<1>10. ASSUME NEW p \in People, NEW v \in Vendors, Unlink(p, v) PROVE InvitesInv'
  <2>1. UNCHANGED <<token, spending, used, lapped>>
        /\ bond' = [bond EXCEPT ![<<p, v>>] = "removed"]
    BY <1>10 DEF Unlink
  <2>2. \A b \in DOMAIN bond' : bond'[b] \in {"there", "removed"}
    BY <2>1 DEF InvitesInv, InvitesOK
  <2>3. RequestsMove /\ IsTable(spending', Requests, Spending)
    BY <1>0, <2>1 DEF RequestsMove, OpenRequests, InvitesInv, InvitesOK
  <2> QED BY <2>1, <2>2, <2>3, MovesKeepInvites
<1>11. CASE UNCHANGED inviteVars
  <2>1. RequestsMove /\ IsTable(spending', Requests, Spending)
    BY <1>0, <1>11 DEF inviteVars, RequestsMove, OpenRequests, InvitesInv, InvitesOK
  <2>2. \A b \in DOMAIN bond' : bond'[b] \in {"there", "removed"}
    BY <1>11 DEF inviteVars, InvitesInv, InvitesOK
  <2> QED BY <1>11, <2>1, <2>2, MovesKeepInvites DEF inviteVars
<1> QED BY <1>1, <1>2, <1>3, <1>6, <1>7, <1>8, <1>9, <1>10, <1>11 DEF InvitesNext

\* A code is used twice only by requests that were open at once, and spent only
\* by one that succeeded (main.py, magic links and invite codes).
THEOREM CodesAreSpentOnce == InvitesSpec => []CodesSpentOnce
<1>1. InvitesInit => InvitesInv
  BY DEF InvitesInit, InvitesInv, InvitesOK, IsTable, EmptyTable, OpenRequests,
         CodesSpentOnce
<1>2. InvitesInv => CodesSpentOnce
  BY DEF InvitesInv
<1> QED BY <1>1, <1>2, InvitesStep, PTL DEF InvitesSpec

Writes(r) == spending[r].stage \in {"locked", "looked"}

\* What else InvitesTypeOK says; a code belongs to a vendor unless it is a link.
InvitesTypes ==
    /\ person \subseteq People
    /\ IsTable(bond, person \X Vendors, {"there", "removed"})
    /\ lapped \subseteq SUBSET Requests
    /\ \A c \in DOMAIN token : ~IsLink(c) => token[c].owner \in Vendors
    /\ \A r, q \in DOMAIN spending :
          Writes(r) /\ Writes(q) /\ spending[r].code = spending[q].code => r = q

\* Requests that go on without having written more than before.
LEMMA WritersMove ==
    ASSUME InvitesTypes, DOMAIN spending' = DOMAIN spending,
           \A r \in DOMAIN spending : spending'[r].code = spending[r].code
                                      /\ (Writes(r)' => Writes(r))
    PROVE  \A r, q \in DOMAIN spending' :
              (Writes(r) /\ Writes(q))' /\ spending'[r].code = spending'[q].code => r = q
  BY DEF InvitesTypes

\* Every step keeps it.
LEMMA InvitesTypesStep ==
    ASSUME InvitesInv, InvitesTypes, [InvitesNext]_inviteVars
    PROVE  InvitesTypes'
<1>0. /\ \A r \in DOMAIN spending : r \in Requests /\ spending[r] \in Spending
                                      /\ spending[r].code \in DOMAIN token
      /\ \A c \in DOMAIN token : token[c] \in Token
      /\ OpenRequests \subseteq DOMAIN spending
  BY DEF InvitesInv, InvitesOK, IsTable, OpenRequests
<1>1. ASSUME NEW c \in Links \cup Codes, NEW o \in People \cup Vendors, Issue(c, o)
      PROVE  InvitesTypes'
  <2>1. PICK x : x = [owner |-> o, state |-> "good"] /\ token' = Inserted(token, c, x)
    BY <1>1 DEF Issue
  <2>2. /\ DOMAIN token' = DOMAIN token \cup {c} /\ token'[c] = x
        /\ \A d \in DOMAIN token : token'[d] = token[d]
    BY <1>1, <2>1 DEF Inserted, Issue
  <2>3. ~IsLink(c) => x.owner \in Vendors
    BY <1>1, <2>1 DEF Issue
  <2>4. \A d \in DOMAIN token' : ~IsLink(d) => token'[d].owner \in Vendors
    BY <2>2, <2>3 DEF InvitesTypes
  <2> QED BY <1>1, <2>4 DEF Issue, InvitesTypes, IsTable, Writes
<1>2. ASSUME NEW c \in Links \cup Codes, Expire(c) \/ Revoke(c) PROVE InvitesTypes'
  <2>1. PICK s : token' = [token EXCEPT ![c].state = s]
    BY <1>2 DEF Expire, Revoke
  <2>2. c \in DOMAIN token /\ token[c] \in Token
    BY <1>0, <1>2 DEF Expire, Revoke, Good
  <2>3. /\ DOMAIN token' = DOMAIN token
        /\ \A d \in DOMAIN token : token'[d].owner = token[d].owner
    BY <2>1, <2>2 DEF Token
  <2> QED BY <1>2, <2>3 DEF Expire, Revoke, InvitesTypes, IsTable, Writes
<1>3. ASSUME NEW r \in Requests, NEW c \in Links \cup Codes, NEW p \in People,
             SpendRead(r, c, p)
      PROVE  InvitesTypes'
  <2>1. PICK x : /\ x = [code |-> c, by |-> p, stage |-> "read", seen |-> "unread"]
                 /\ spending' = Inserted(spending, r, x)
    BY <1>3 DEF SpendRead
  <2>2. /\ DOMAIN spending' = DOMAIN spending \cup {r} /\ spending'[r] = x
        /\ x.stage = "read" /\ \A q \in DOMAIN spending : spending'[q] = spending[q]
    BY <1>3, <2>1 DEF Inserted, SpendRead
  <2>3. lapped' \subseteq SUBSET Requests
    BY <1>0, <1>3 DEF SpendRead, InvitesTypes
  <2>4. \A a, b \in DOMAIN spending' :
           (Writes(a) /\ Writes(b))' /\ spending'[a].code = spending'[b].code => a = b
    BY <2>2 DEF InvitesTypes, Writes
  <2> QED BY <1>3, <2>3, <2>4 DEF SpendRead, InvitesTypes, IsTable
<1>4. ASSUME NEW r \in DOMAIN spending, NEW s, Moves(r, s)
      PROVE  /\ DOMAIN spending' = DOMAIN spending /\ spending'[r].stage = s
             /\ \A q \in DOMAIN spending : spending'[q].code = spending[q].code
             /\ \A q \in DOMAIN spending : q # r => spending'[q] = spending[q]
  BY <1>0, <1>4 DEF Moves, Spending
<1>5. ASSUME NEW r \in OpenRequests, Moves(r, "over"), UNCHANGED <<person, token, bond, lapped>>
      PROVE  InvitesTypes'
  <2>1. \A q \in DOMAIN spending : Writes(q)' => Writes(q)
    BY <1>0, <1>4, <1>5 DEF Writes
  <2>2. \A a, b \in DOMAIN spending' :
           (Writes(a) /\ Writes(b))' /\ spending'[a].code = spending'[b].code => a = b
    BY <1>0, <1>4, <1>5, <2>1, WritersMove
  <2> QED BY <1>5, <2>2 DEF InvitesTypes, IsTable
<1>6. ASSUME NEW r \in Requests, SpendFails(r) \/ SpendAborts(r) PROVE InvitesTypes'
  BY <1>5, <1>6 DEF SpendFails, SpendAborts
<1>7. ASSUME NEW r \in Requests, SpendLock(r) PROVE InvitesTypes'
  <2>1. CASE Moves(r, "over")
    BY <1>5, <1>7, <2>1 DEF SpendLock
  <2>2. CASE Moves(r, "locked")
    <3>1. r \in DOMAIN spending /\ UNCHANGED <<person, token, bond, lapped>>
          /\ \A q \in DOMAIN spending : Writes(q) => spending[q].code # spending[r].code
      BY <1>0, <1>7 DEF SpendLock, Locked, Writes
    <3>2. \A q \in DOMAIN spending : q # r => (Writes(q)' <=> Writes(q))
      BY <1>4, <2>2, <3>1 DEF Writes
    <3>3. \A a, b \in DOMAIN spending' :
             (Writes(a) /\ Writes(b))' /\ spending'[a].code = spending'[b].code => a = b
      BY <1>4, <2>2, <3>1, <3>2 DEF InvitesTypes
    <3> QED BY <3>1, <3>3 DEF InvitesTypes, IsTable
  <2> QED BY <1>7, <2>1, <2>2 DEF SpendLock
<1>8. ASSUME NEW r \in Requests, SpendLook(r) PROVE InvitesTypes'
  <2>1. PICK v : spending' = [spending EXCEPT ![r].stage = "looked", ![r].seen = v]
    BY <1>8 DEF SpendLook
  <2>2. /\ r \in DOMAIN spending /\ Writes(r) /\ spending[r] \in Spending
        /\ UNCHANGED <<person, token, bond, lapped>>
    BY <1>0, <1>8 DEF SpendLook, Writes
  <2>3. /\ DOMAIN spending' = DOMAIN spending
        /\ \A q \in DOMAIN spending : spending'[q].code = spending[q].code
        /\ \A q \in DOMAIN spending : q # r => spending'[q] = spending[q]
    BY <2>1, <2>2 DEF Spending
  <2>4. \A q \in DOMAIN spending : Writes(q)' => Writes(q)
    BY <2>2, <2>3 DEF Writes
  <2>5. \A a, b \in DOMAIN spending' :
           (Writes(a) /\ Writes(b))' /\ spending'[a].code = spending'[b].code => a = b
    BY <2>3, <2>4, WritersMove
  <2> QED BY <2>2, <2>5 DEF InvitesTypes, IsTable
<1>9. ASSUME NEW r \in Requests, SpendCommit(r) PROVE InvitesTypes'
  <2>1. /\ r \in OpenRequests /\ r \in DOMAIN spending /\ Moves(r, "over")
        /\ spending[r] \in Spending /\ spending[r].by \in People
        /\ spending[r].code \in DOMAIN token /\ lapped' = lapped
        /\ person' = person \cup {spending[r].by}
        /\ token' = [token EXCEPT ![spending[r].code].state = "spent"]
    BY <1>0, <1>9 DEF SpendCommit, Spending
  <2>2. \A q \in DOMAIN spending : Writes(q)' => Writes(q)
    BY <1>4, <2>1 DEF Writes
  <2>3. \A a, b \in DOMAIN spending' :
           (Writes(a) /\ Writes(b))' /\ spending'[a].code = spending'[b].code => a = b
    BY <1>4, <2>1, <2>2, WritersMove
  <2>4. /\ DOMAIN token' = DOMAIN token
        /\ \A d \in DOMAIN token : token'[d].owner = token[d].owner
    BY <1>0, <2>1 DEF Token
  <2>5. IsTable(bond', person' \X Vendors, {"there", "removed"})
    <3>1. CASE bond' = bond
      BY <2>1, <3>1 DEF InvitesTypes, IsTable
    <3>2. CASE /\ ~IsLink(spending[r].code)
               /\ bond' = Inserted(bond, <<spending[r].by, token[spending[r].code].owner>>, "there")
      <4>1. PICK k : k = <<spending[r].by, token[spending[r].code].owner>>
        OBVIOUS
      <4>2. k \in person' \X Vendors
        BY <2>1, <3>2, <4>1 DEF InvitesTypes
      <4>3. bond' = Inserted(bond, k, "there") /\ person \X Vendors \subseteq person' \X Vendors
        BY <2>1, <3>2, <4>1
      <4> QED BY <4>2, <4>3 DEF Inserted, IsTable, InvitesTypes
    <3> QED BY <1>9, <3>1, <3>2 DEF SpendCommit
  <2> QED BY <2>1, <2>3, <2>4, <2>5 DEF InvitesTypes
<1>10. ASSUME NEW p \in People, Leave(p) PROVE InvitesTypes'
  <2>1. /\ spending' = [r \in DOMAIN spending |->
                          IF r \in Needs(p) THEN [spending[r] EXCEPT !.stage = "over"]
                          ELSE spending[r]]
        /\ person' = person \ {p} /\ UNCHANGED <<token, lapped>>
        /\ bond' = Removed(bond, {b \in DOMAIN bond : b[1] = p})
    BY <1>10 DEF Leave
  <2>2. /\ DOMAIN spending' = DOMAIN spending
        /\ \A q \in DOMAIN spending :
              spending'[q].code = spending[q].code /\ (Writes(q)' => Writes(q))
    BY <1>0, <2>1 DEF Spending, Writes
  <2>3. \A a, b \in DOMAIN spending' :
           (Writes(a) /\ Writes(b))' /\ spending'[a].code = spending'[b].code => a = b
    BY <2>2, WritersMove
  <2>4. \A b \in DOMAIN bond' : b \in person \X Vendors /\ b[1] # p
                                 /\ bond'[b] \in {"there", "removed"}
    BY <2>1 DEF Removed, InvitesTypes, IsTable
  <2>5. DOMAIN bond' \subseteq person' \X Vendors
    BY <2>1, <2>4
  <2>6. bond' \in [DOMAIN bond' -> {"there", "removed"}]
    BY <2>1, <2>4 DEF Removed
  <2> QED BY <2>1, <2>3, <2>5, <2>6 DEF InvitesTypes, IsTable
<1>11. ASSUME NEW p \in People, NEW v \in Vendors, Unlink(p, v) PROVE InvitesTypes'
  <2>1. /\ UNCHANGED <<person, token, spending, lapped>>
        /\ bond' = [bond EXCEPT ![<<p, v>>] = "removed"]
    BY <1>11 DEF Unlink
  <2>2. IsTable(bond', person \X Vendors, {"there", "removed"})
    BY <2>1 DEF InvitesTypes, IsTable
  <2> QED BY <2>1, <2>2 DEF InvitesTypes, Writes
<1>12. CASE UNCHANGED inviteVars
  BY <1>12 DEF inviteVars, InvitesTypes, IsTable, Writes
<1> QED BY <1>1, <1>2, <1>3, <1>6, <1>7, <1>8, <1>9, <1>10, <1>11, <1>12 DEF InvitesNext

\* End users, codes, links and requests keep their types, an end user is linked
\* only while there is one, and one transaction at a time has written a code.
THEOREM InvitesTypesOK == InvitesSpec => []InvitesTypeOK
<1>1. InvitesInit => InvitesInv
  BY DEF InvitesInit, InvitesInv, InvitesOK, IsTable, EmptyTable, OpenRequests,
         CodesSpentOnce
<1>2. InvitesInit => InvitesTypes
  BY DEF InvitesInit, InvitesTypes, IsTable, EmptyTable
<1>3. InvitesInv /\ InvitesTypes => InvitesTypeOK
  <2> SUFFICES ASSUME InvitesInv, InvitesTypes PROVE InvitesTypeOK
    OBVIOUS
  <2>1. ASSUME NEW r \in OpenRequests, NEW q \in OpenRequests,
               {spending[r].stage, spending[q].stage} \subseteq {"locked", "looked"},
               spending[r].code = spending[q].code
        PROVE  r = q
    BY <2>1 DEF InvitesTypes, Writes, OpenRequests
  <2> QED BY <2>1 DEF InvitesInv, InvitesOK, InvitesTypes, InvitesTypeOK
<1> QED BY <1>1, <1>2, <1>3, InvitesStep, InvitesTypesStep, PTL DEF InvitesSpec

=============================================================================
