----------------------------- MODULE Admission -----------------------------
(***************************************************************************)
(* Two limits that are checked and taken in separate steps: the number of  *)
(* instances of an agent that may be active on a host (backend/main.py,    *)
(* sdk/lightsei/_instance.py), and the number of requests that a key may   *)
(* make in a window (backend/limits.py).                                   *)
(*                                                                         *)
(* A first heartbeat counts the active instances and inserts a row when it *)
(* commits; heartbeats that commit in between are not counted.  A request  *)
(* reads the clock before it takes the lock of the counters.               *)
(*                                                                         *)
(* Abstractions.  One agent, one host, one key; an instance's id is new    *)
(* with every start.  hits keeps the time of every request that was let    *)
(* in; since keeps, for a first heartbeat, who committed after its count.  *)
(*                                                                         *)
(* A definition marked "broken" is no part of the model: it is the one     *)
(* below it with a plausible bug, there to show that a property notices.   *)
(***************************************************************************)
EXTENDS Naturals, FiniteSets, Sequences, Tables

CONSTANTS
    Instances,      \* instances that may be started
    HostCap,        \* MAX_INSTANCES_PER_HOSTNAME
    ActiveWindow,   \* INSTANCE_ACTIVE_WINDOW
    Threads,        \* threads that serve requests
    RateLimit,
    RateWindow,
    MaxInstant,     \* bound on the clock
    MaxLostBeats    \* bound on heartbeats that fail

Instant == 0 .. MaxInstant

ASSUME AdmissionAssumption ==
    /\ IsFiniteSet(Instances)
    /\ {HostCap, RateLimit} \subseteq Nat \ {0}
    /\ {ActiveWindow, RateWindow, MaxInstant, MaxLostBeats} \subseteq Nat

VARIABLES
    instant,        \* the clock
    life,           \* what has become of each instance
    beat,           \* the rows: the last heartbeat of each instance
    beating,        \* heartbeats that have read and not committed
    lostBeats,
    reading,        \* what each thread read from the clock
    bucket,         \* the times that the counter keeps
    hits            \* history: the times of all requests let in

admissionVars == <<instant, life, beat, beating, lostBeats, reading, bucket, hits>>

hostVars == <<life, beat, beating, lostBeats>>
rateVars == <<reading, bucket, hits>>

Lives == {"off", "starting", "running", "refused", "dead"}

Beating == [id : Instances, at : Instant, since : SUBSET Instances]

Tick ==
    /\ instant < MaxInstant /\ instant' = instant + 1
    /\ UNCHANGED <<hostVars, rateVars>>

-----------------------------------------------------------------------------
(* Instances. *)

InstanceStarts(i) ==
    /\ life[i] = "off"
    /\ life' = [life EXCEPT ![i] = "starting"]
    /\ UNCHANGED <<instant, beat, beating, lostBeats, rateVars>>

InstanceDies(i) ==
    /\ life[i] \in {"starting", "running"}
    /\ life' = [life EXCEPT ![i] = "dead"]
    /\ UNCHANGED <<instant, beat, beating, lostBeats, rateVars>>

Active(at) == {i \in DOMAIN beat : beat[i] + ActiveWindow >= at}

Beats(i) == life[i] \in {"starting", "running"} /\ \A b \in beating : b.id # i

\* broken: the count goes one too far.
Refuses_Late(i) == i \notin DOMAIN beat /\ Cardinality(Active(instant)) > HostCap

\* The cap is for new instances only.
Refuses(i) == i \notin DOMAIN beat /\ Cardinality(Active(instant)) >= HostCap

BeatRead(i) ==
    /\ Beats(i) /\ ~Refuses(i)
    /\ beating' = beating \cup {[id |-> i, at |-> instant, since |-> {}]}
    /\ UNCHANGED <<instant, life, beat, lostBeats, rateVars>>

\* 409: init raises; a heartbeat after it is only logged.
BeatRefused(i) ==
    /\ Beats(i) /\ Refuses(i)
    /\ life' = [life EXCEPT ![i] = IF @ = "starting" THEN "refused" ELSE @]
    /\ UNCHANGED <<instant, beat, beating, lostBeats, rateVars>>

Runs(i) == life' = [life EXCEPT ![i] = IF @ = "starting" THEN "running" ELSE @]

BeatCommit(b) ==
    /\ b \in beating
    /\ beat' = Inserted(beat, b.id, b.at)
    /\ beating' = {[x EXCEPT !.since = @ \cup {b.id}] : x \in beating \ {b}}
    /\ Runs(b.id)
    /\ UNCHANGED <<instant, lostBeats, rateVars>>

\* A heartbeat that fails stops nobody.
BeatLost(i) ==
    /\ life[i] \in {"starting", "running"}
    /\ lostBeats < MaxLostBeats /\ lostBeats' = lostBeats + 1
    /\ beating' = {b \in beating : b.id # i}
    /\ Runs(i)
    /\ UNCHANGED <<instant, beat, rateVars>>

-----------------------------------------------------------------------------
(* _Counter.hit *)

HitRead(t) ==
    /\ reading[t] = {}
    /\ reading' = [reading EXCEPT ![t] = {instant}]
    /\ UNCHANGED <<instant, hostVars, bucket, hits>>

Expired(time, now) == time + RateWindow < now

\* Times are dropped from the front, up to the first that counts.
Kept(now) ==
    LET first == {i \in DOMAIN bucket : ~Expired(bucket[i], now)}
    IN  IF first = {} THEN <<>>
        ELSE SubSeq(bucket, CHOOSE i \in first : \A j \in first : i <= j, Len(bucket))

\* Under the lock, by the time that was read before it.
HitRecord(t) ==
    \E now \in reading[t] :
        /\ IF Len(Kept(now)) >= RateLimit
           THEN bucket' = Kept(now) /\ UNCHANGED hits
           ELSE bucket' = Append(Kept(now), now) /\ hits' = Append(hits, now)
        /\ reading' = [reading EXCEPT ![t] = {}]
        /\ UNCHANGED <<instant, hostVars>>

-----------------------------------------------------------------------------
AdmissionInit ==
    /\ instant = 0
    /\ life = [i \in Instances |-> "off"]
    /\ beat = EmptyTable
    /\ beating = {}
    /\ lostBeats = 0
    /\ reading = [t \in Threads |-> {}]
    /\ bucket = <<>>
    /\ hits = <<>>

HostNext ==
    \/ \E i \in Instances : \/ InstanceStarts(i) \/ InstanceDies(i)
                            \/ BeatRead(i) \/ BeatRefused(i) \/ BeatLost(i)
    \/ \E b \in beating : BeatCommit(b)

RateNext == \E t \in Threads : HitRead(t) \/ HitRecord(t)

AdmissionNext == Tick \/ HostNext \/ RateNext

AdmissionSpec == AdmissionInit /\ [][AdmissionNext]_admissionVars

-----------------------------------------------------------------------------
\* Rows, requests and the counter keep their types; the counter never holds
\* more than its limit, and each instance has one heartbeat under way.
AdmissionTypeOK ==
    /\ instant \in Instant
    /\ life \in [Instances -> Lives]
    /\ IsTable(beat, Instances, Instant)
    /\ beating \subseteq Beating
    /\ \A b, c \in beating : b.id = c.id => b = c
    /\ lostBeats \in 0 .. MaxLostBeats
    /\ reading \in [Threads -> SUBSET Instant]
    /\ bucket \in Seq(Instant) /\ Len(bucket) <= RateLimit
    /\ hits \in Seq(Instant)

\* An instance is registered next to fewer active ones than the cap, not
\* counting those whose heartbeat committed after it had counted.
CapHolds ==
    [][\A b \in beating :
          b.id \in DOMAIN beat' \ DOMAIN beat =>
              Cardinality(Active(instant) \ b.since) < HostCap]_admissionVars

\* No window sees more requests than the limit, but for those recorded after a
\* later one: a thread that was overtaken between the clock and the lock.
WindowLimit ==
    \A from \in Instant :
        LET inside == {i \in DOMAIN hits : hits[i] \in from .. from + RateWindow}
            late == {i \in inside : \E j \in DOMAIN hits : j < i /\ hits[j] > hits[i]}
        IN  Cardinality(inside) <= RateLimit + Cardinality(late)

\* What exceeds either limit had overlapped with others that were let in: the
\* steps between check and record admit nobody else.  Nor does a bot run that
\* is not registered, unless a heartbeat of it failed.
LimitsHold ==
    /\ CapHolds
    /\ []WindowLimit
    /\ [](Cardinality({i \in Instances : life[i] = "running" /\ i \notin DOMAIN beat})
              <= lostBeats)

=============================================================================
