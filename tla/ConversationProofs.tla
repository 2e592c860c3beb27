-------------------------- MODULE ConversationProofs --------------------------
(***************************************************************************)
(* Proofs about the conversations of a workspace, for any number of        *)
(* conversations, questions, bots, visitors and operators: replies of the  *)
(* team chat are streamed whole and stay as they ended (ChatTurns), and no *)
(* visitor is forgotten between the bot and the inbox (WidgetInbox).       *)
(***************************************************************************)
EXTENDS ChatTurns, WidgetInbox, FiniteSetTheorems, TLAPS

-----------------------------------------------------------------------------
(* Turns of the team chat. *)

-----------------------------------------------------------------------------
(* Chat turns. *)

Upto(n) == [i \in 1 .. n |-> i]

\* What a text consists of.
Has(s) == {s[i] : i \in DOMAIN s}

\* The request that ends a turn.
Final(c) == c.kind # "chunk"

\* A text of the first n chunks, none of them twice.
GoodText(s, n) ==
    /\ s \in Seq(1 .. MaxChunks)
    /\ \A i, j \in DOMAIN s : s[i] = s[j] => i = j
    /\ \A i \in DOMAIN s : s[i] <= n

\* Rows, calls and faults keep their types.
ChatTypes ==
    /\ conv \subseteq Convs
    /\ IsTable(question, Questions, Question)
    /\ IsTable(turn, Turns, Turn)
    /\ poller \in [Bots -> Poller]
    /\ call \subseteq Call
    /\ IsTable(stream, Turns, [sent : 0 .. MaxChunks, whole : BOOLEAN])
    /\ DOMAIN turn \subseteq DOMAIN stream
    /\ chatFaults \in 0 .. MaxChatFaults

\* A call is its bot's only one, and says where the bot is; one that was given
\* up can be of a turn that its bot goes on with only if it is a chunk.  What a
\* chunk has read lacks the chunk, and is the text as it is if nothing was
\* given up.
CallOK(c) ==
    LET t == c.turn
    IN  /\ t \in DOMAIN stream /\ c.delta <= stream[t].sent
        /\ c.kind = "chunk" => c.delta >= 1
        /\ c.kind = "content" => c.delta = 1 /\ stream[t].sent = 1
        /\ c.kind \in {"keep", "error"} => c.delta = 0
        /\ c.by \in Bots =>
              poller[c.by] = [pc |-> IF Final(c) THEN "ending" ELSE "waiting", turn |-> t]
        /\ c.by = Nobody => /\ ~stream[t].whole
                            /\ Final(c) => \A b \in Bots : poller[b].turn # t
        /\ t \in DOMAIN turn =>
              /\ turn[t].status # "pending" /\ c.delta \notin Has(turn[t].text)
              /\ Final(c) => turn[t].status = "in_progress"
              /\ stream[t].whole /\ c.kind = "chunk" =>
                    /\ c.delta = stream[t].sent
                    /\ turn[t].text = Upto(stream[t].sent - 1)
                    /\ c.seen # NotRead => c.seen.text = turn[t].text
              /\ stream[t].whole /\ c.kind = "keep" =>
                    turn[t].text = Upto(stream[t].sent)
        /\ c.seen # NotRead => /\ c.seen.status = "in_progress"
                               /\ GoodText(c.seen.text, stream[t].sent)

\* A chunk is posted once, and so is a turn's end.
PairOK(c, d) ==
    c.turn = d.turn =>
        /\ c.delta \notin Has(d.seen.text)
        /\ c # d => /\ c.delta # d.delta \/ c.delta = 0
                    /\ ~(Final(c) /\ Final(d))
                    /\ c.by # d.by \/ c.by = Nobody

\* A bot has its turn to itself, and the turn is in progress.
PollerOK(b) ==
    LET t == poller[b].turn
    IN  /\ poller[b].pc = "idle" <=> t = NoTurn
        /\ poller[b].pc # "idle" =>
              /\ t \in DOMAIN stream
              /\ \A o \in Bots \ {b} : poller[o].turn # t
              /\ t \in DOMAIN turn =>
                    /\ turn[t].status = "in_progress"
                    /\ poller[b].pc = "replying" /\ stream[t].whole =>
                          turn[t].text = Upto(stream[t].sent)
        /\ poller[b].pc \in {"waiting", "ending"} => \E c \in call : c.by = b

\* A turn's text is of the chunks that were sent, and a completed turn of a
\* whole stream has them all, in order.
TurnOK(t) ==
    /\ GoodText(turn[t].text, stream[t].sent)
    /\ turn[t].status = "pending" => turn[t].text = <<>> /\ stream[t].sent = 0
    /\ turn[t].status = "completed" /\ stream[t].whole =>
          turn[t].text = Upto(stream[t].sent)

\* What every step of the chat keeps.
ChatInv ==
    /\ ChatTypes
    /\ \A c \in call : CallOK(c)
    /\ \A c, d \in call : PairOK(c, d)
    /\ \A b \in Bots : PollerOK(b)
    /\ \A t \in DOMAIN turn : TurnOK(t)

\* The types of one row, call and poller.
LEMMA ChatMembers ==
    ASSUME ChatTypes
    PROVE  /\ \A t \in DOMAIN turn : turn[t] \in Turn /\ t \in DOMAIN stream
           /\ \A t \in DOMAIN stream :
                 /\ t \in Turns /\ t \in Nat \ {0}
                 /\ stream[t] \in [sent : 0 .. MaxChunks, whole : BOOLEAN]
           /\ \A b \in Bots : poller[b] \in Poller
           /\ \A c \in call : /\ c \in Call
                              /\ c.by \in Bots \/ (c.by = Nobody /\ Nobody \notin Bots)
           /\ MaxChunks \in Nat /\ MaxChatFaults \in Nat
BY ChatAssumption, NobodyAssumption DEF ChatTypes, IsTable, Call

\* The bot of a turn makes all calls of it that were not given up.
LEMMA TheBotsCall ==
    ASSUME ChatInv, NEW b \in Bots, poller[b].pc # "idle",
           NEW c \in call, c.turn = poller[b].turn
    PROVE  IF c.by = b THEN poller[b].pc = IF Final(c) THEN "ending" ELSE "waiting"
           ELSE c.by = Nobody /\ ~Final(c) /\ ~stream[c.turn].whole
<1>1. CallOK(c) /\ PollerOK(b)
  BY DEF ChatInv
<1>2. c.by \in Bots \/ c.by = Nobody
  BY ChatMembers DEF ChatInv
<1>3. CASE c.by \in Bots
  BY <1>1, <1>3 DEF CallOK, PollerOK
<1>4. CASE c.by = Nobody
  BY <1>1, <1>4, NobodyAssumption DEF CallOK
<1> QED BY <1>2, <1>3, <1>4

\* A chunk put after the ones before it.
LEMMA PutAfter ==
    ASSUME NEW n \in Nat, NEW s, n >= 1, s = Upto(n - 1)
    PROVE  Append(s, n) = Upto(n)
<1>1. s \in Seq(Nat) /\ Len(s) = n - 1
  BY DEF Upto
<1>2. Append(s, n) \in Seq(Nat) /\ Len(Append(s, n)) = n
  BY <1>1
<1>3. \A i \in 1 .. n : Append(s, n)[i] = i
  BY <1>1 DEF Upto
<1>4. Append(s, n) = [i \in 1 .. n |-> Append(s, n)[i]]
  BY <1>2
<1> QED BY <1>3, <1>4 DEF Upto

\* A new chunk makes no other a double.
LEMMA GoodAppend ==
    ASSUME NEW n \in Nat, NEW s, GoodText(s, n), NEW k \in 1 .. MaxChunks, k <= n,
           k \notin Has(s), MaxChunks \in Nat
    PROVE  GoodText(Append(s, k), n) /\ Has(Append(s, k)) = Has(s) \cup {k}
<1>1. s \in Seq(1 .. MaxChunks)
  BY DEF GoodText
<1>2. /\ Append(s, k) \in Seq(1 .. MaxChunks) /\ DOMAIN Append(s, k) = 1 .. Len(s) + 1
      /\ Append(s, k)[Len(s) + 1] = k /\ Len(s) \in Nat /\ DOMAIN s = 1 .. Len(s)
      /\ \A i \in DOMAIN s : Append(s, k)[i] = s[i]
  BY <1>1
<1>3. \A i \in DOMAIN s : s[i] # k
  BY DEF Has
<1>4. GoodText(Append(s, k), n)
  <2>1. PICK l \in Nat : l = Len(s) /\ DOMAIN s = 1 .. l /\ DOMAIN Append(s, k) = 1 .. l + 1
    BY <1>2
  <2>2. PICK a : /\ a = Append(s, k) /\ a[l + 1] = k
                 /\ \A i \in 1 .. l : a[i] = s[i] /\ a[i] # k
    BY <1>2, <1>3, <2>1
  <2>3. \A i \in 1 .. l + 1 : i \in 1 .. l \/ i = l + 1
    BY <2>1
  <2>4. \A i, j \in 1 .. l : s[i] = s[j] => i = j
    BY <2>1 DEF GoodText
  <2>5. \A i, j \in 1 .. l + 1 : a[i] = a[j] => i = j
    BY <2>2, <2>3, <2>4
  <2>6. \A i \in 1 .. l + 1 : a[i] <= n
    BY <2>1, <2>2, <2>3 DEF GoodText
  <2> QED BY <1>2, <2>1, <2>2, <2>5, <2>6 DEF GoodText
<1>5. Has(Append(s, k)) = Has(s) \cup {k}
  <2>1. PICK l \in Nat : l = Len(s) /\ DOMAIN s = 1 .. l /\ DOMAIN Append(s, k) = 1 .. l + 1
    BY <1>2
  <2>2. PICK a : a = Append(s, k) /\ a[l + 1] = k /\ \A i \in 1 .. l : a[i] = s[i]
    BY <1>2, <2>1
  <2>3. \A i \in 1 .. l + 1 : i \in 1 .. l \/ i = l + 1
    BY <2>1
  <2>4. 1 .. l \subseteq 1 .. l + 1 /\ l + 1 \in 1 .. l + 1
    BY <2>1
  <2>5. {a[i] : i \in 1 .. l + 1} = {s[i] : i \in 1 .. l} \cup {k}
    BY <2>2, <2>3, <2>4
  <2> QED BY <2>1, <2>2, <2>5 DEF Has
<1> QED BY <1>4, <1>5

\* Its chunks are numbers up to n.
LEMMA GoodWithin ==
    ASSUME NEW n \in Nat, NEW s, GoodText(s, n), MaxChunks \in Nat
    PROVE  /\ \A i \in DOMAIN s : s[i] \in 1 .. n
           /\ \A m \in Nat : n <= m => GoodText(s, m)
           /\ \A k \in Nat : k > n \/ k = 0 => k \notin Has(s)
<1>1. \A i \in DOMAIN s : s[i] \in 1 .. MaxChunks
  BY DEF GoodText
<1>2. \A i \in DOMAIN s : s[i] \in 1 .. n
  BY <1>1 DEF GoodText
<1>3. \A m \in Nat : n <= m => GoodText(s, m)
  BY <1>2 DEF GoodText
<1>4. \A k \in Nat : k > n \/ k = 0 => k \notin Has(s)
  BY <1>2 DEF Has
<1> QED BY <1>2, <1>3, <1>4

\* What no call, poller or turn tells apart.
LEMMA UsersAsk ==
    ASSUME ChatInv, UNCHANGED <<conv, turn, poller, call, stream>>,
           IsTable(question', Questions, Question),
           chatFaults' \in 0 .. MaxChatFaults
    PROVE  ChatInv'
<1> QED BY DEF ChatInv, ChatTypes, CallOK, PairOK, PollerOK, TurnOK, Has

\* New turns are nobody's yet.
LEMMA TurnsPosted ==
    ASSUME ChatInv, NEW q \in Questions, NEW c \in Convs, NEW N, NEW new \in [N -> Agents],
           Posted(q, c, new),
           IsTable(question', Questions, Question),
           UNCHANGED <<conv, poller, call, chatFaults>>
    PROVE  ChatInv'
<1>0. /\ N \subseteq Turns \ DOMAIN stream
      /\ DOMAIN turn' = DOMAIN turn \cup N /\ DOMAIN stream' = DOMAIN stream \cup N
      /\ \A t \in N : /\ turn'[t] = NewTurn(q, c, new[t])
                      /\ stream'[t] = [sent |-> 0, whole |-> TRUE]
      /\ \A t \in DOMAIN stream : stream'[t] = stream[t]
      /\ \A t \in DOMAIN turn \ N : turn'[t] = turn[t]
  BY DEF Posted, FreshTurns
<1>1. ChatTypes /\ DOMAIN turn \subseteq DOMAIN stream
  BY DEF ChatInv, ChatTypes
<1>2. \A t \in DOMAIN stream : /\ t \notin N /\ stream'[t] = stream[t]
                               /\ t \in DOMAIN turn' <=> t \in DOMAIN turn
                               /\ t \in DOMAIN turn => turn'[t] = turn[t]
  BY <1>0, <1>1
<1>3. ChatTypes'
  <2>1. \A t \in N : turn'[t] \in Turn
    <3>1. <<>> \in Seq(1 .. MaxChunks)
      OBVIOUS
    <3>2. \A a \in Agents : NewTurn(q, c, a) \in Turn
      BY <3>1 DEF NewTurn, Turn, Open
    <3> QED BY <1>0, <3>2
  <2>2. IsTable(turn', Turns, Turn)
    BY <1>0, <1>1, <1>2, <2>1 DEF ChatTypes, IsTable, Posted
  <2>3. IsTable(stream', Turns, [sent : 0 .. MaxChunks, whole : BOOLEAN])
    <3>1. \A t \in DOMAIN stream' : stream'[t] \in [sent : 0 .. MaxChunks, whole : BOOLEAN]
      <4>1. \A t \in N : stream'[t] \in [sent : 0 .. MaxChunks, whole : BOOLEAN]
        <5>1. MaxChunks \in Nat
          BY ChatAssumption
        <5>2. [sent |-> 0, whole |-> TRUE] \in [sent : 0 .. MaxChunks, whole : BOOLEAN]
          BY <5>1
        <5> QED BY <1>0, <5>2
      <4> QED BY <1>0, <1>1, <4>1, ChatMembers
    <3> QED BY <1>0, <1>1, <3>1 DEF ChatTypes, IsTable, Posted
  <2> QED BY <1>0, <1>1, <2>2, <2>3 DEF ChatTypes
<1>4. ASSUME NEW k \in call PROVE CallOK(k)'
  <2>1. CallOK(k) /\ k.turn \in DOMAIN stream
    BY DEF ChatInv, CallOK
  <2>2. PICK t : t = k.turn
    OBVIOUS
  <2>3. /\ stream'[t] = stream[t] /\ DOMAIN stream \subseteq DOMAIN stream'
        /\ t \in DOMAIN turn' <=> t \in DOMAIN turn
        /\ t \in DOMAIN turn => turn'[t] = turn[t]
    BY <1>0, <1>2, <2>1, <2>2
  <2>4. UNCHANGED <<poller, call>>
    OBVIOUS
  <2> QED BY <2>1, <2>2, <2>3, <2>4 DEF CallOK, Has
<1>5. ASSUME NEW b \in Bots PROVE PollerOK(b)'
  <2>1. PollerOK(b) /\ poller[b].turn = poller'[b].turn
    BY DEF ChatInv
  <2>2. CASE poller[b].pc = "idle"
    BY <2>1, <2>2 DEF PollerOK
  <2>3. CASE poller[b].pc # "idle"
    <3>1. poller[b].turn \in DOMAIN stream
      BY <2>1, <2>3 DEF PollerOK
    <3> QED BY <1>0, <1>2, <2>1, <2>3, <3>1 DEF PollerOK
  <2> QED BY <2>2, <2>3
<1>6. ASSUME NEW t \in DOMAIN turn' PROVE TurnOK(t)'
  <2>1. CASE t \in DOMAIN turn
    BY <1>1, <1>2, <2>1 DEF ChatInv, TurnOK
  <2>2. CASE t \in N
    <3>1. turn'[t].text = <<>> /\ stream'[t].sent = 0 /\ turn'[t].status = "pending"
      BY <1>0, <2>2 DEF NewTurn
    <3>2. GoodText(<<>>, 0)
      BY DEF GoodText
    <3> QED BY <3>1, <3>2 DEF TurnOK, GoodText
  <2> QED BY <1>0, <2>1, <2>2
<1>7. \A k, d \in call : PairOK(k, d)'
  BY DEF ChatInv, PairOK, Has
<1> QED BY <1>3, <1>4, <1>5, <1>6, <1>7 DEF ChatInv

\* Every step of the users keeps it.
LEMMA ChatUserStep ==
    ASSUME ChatInv, ChatUserNext
    PROVE  ChatInv'
<1>0. ChatTypes /\ IsTable(question, Questions, Question)
  BY DEF ChatInv, ChatTypes
<1>1. ASSUME NEW c \in Convs, DeleteConv(c) PROVE ChatInv'
  <2>1. /\ DOMAIN turn' \subseteq DOMAIN turn
        /\ \A t \in DOMAIN turn' : turn'[t] = turn[t]
        /\ UNCHANGED <<poller, call, stream, chatFaults>>
    BY <1>1 DEF DeleteConv, Removed
  <2>2. ChatTypes'
    <3>1. IsTable(question', Questions, Question)
      BY <1>0, <1>1 DEF DeleteConv, Removed, IsTable
    <3>2. IsTable(turn', Turns, Turn)
      BY <1>0, <1>1 DEF ChatTypes, DeleteConv, Removed, IsTable
    <3> QED BY <1>0, <1>1, <2>1, <3>1, <3>2 DEF ChatTypes, DeleteConv
  <2>3. \A k \in call : CallOK(k)'
    BY <2>1 DEF ChatInv, CallOK, Has
  <2>4. \A b \in Bots : PollerOK(b)'
    BY <2>1 DEF ChatInv, PollerOK
  <2>5. \A t \in DOMAIN turn' : TurnOK(t)'
    BY <2>1 DEF ChatInv, TurnOK
  <2>6. \A k, d \in call : PairOK(k, d)'
    BY <2>1 DEF ChatInv, PairOK, Has
  <2> QED BY <2>1, <2>2, <2>3, <2>4, <2>5, <2>6 DEF ChatInv
<1>2. ASSUME NEW c \in Convs, NEW q \in Questions, PostToTeam(c, q) PROVE ChatInv'
  <2>1. IsTable(question', Questions, Question)
    BY <1>0, <1>2 DEF PostToTeam, IsTable, Inserted, Question
  <2> QED BY <1>0, <1>2, <2>1, UsersAsk DEF PostToTeam, ChatTypes
<1>3. ASSUME NEW c \in Convs, NEW q \in Questions, NEW t \in Turns, PostToThread(c, q, t)
      PROVE  ChatInv'
  <2>1. IsTable(question', Questions, Question)
    BY <1>0, <1>3 DEF PostToThread, IsTable, Inserted, Question
  <2>2. c \in Convs \ TeamConvs
    BY <1>0, <1>3 DEF PostToThread, ChatTypes
  <2>3. [k \in {t} |-> AgentOf[c]] \in [{t} -> Agents]
    BY <2>2, ChatAssumption
  <2>4. PICK new : new = [k \in {t} |-> AgentOf[c]] /\ Posted(q, c, new)
    BY <1>3 DEF PostToThread
  <2>5. new \in [{t} -> Agents]
    BY <2>3, <2>4
  <2> QED BY <1>3, <2>1, <2>4, <2>5, TurnsPosted DEF PostToThread
<1>4. ASSUME NEW q \in Questions, Route(q) \/ RouteError(q) \/ RouteDies(q)
      PROVE  ChatInv'
  <2>1. /\ q \in DOMAIN question /\ question[q].conv \in Convs
        /\ \E s \in {"routed", "error", "silent"} :
              question' = [question EXCEPT ![q].state = s]
    BY <1>0, <1>4 DEF Route, RouteError, RouteDies, Routing, IsTable, Question
  <2>2. IsTable(question', Questions, Question)
    BY <1>0, <2>1 DEF IsTable, Question
  <2>3. CASE Route(q)
    <3>1. PICK T \in SUBSET Turns : \E new \in [T -> Agents] :
                 Posted(q, question[q].conv, new)
      BY <2>3 DEF Route
    <3>2. PICK new \in [T -> Agents] : Posted(q, question[q].conv, new)
      BY <3>1
    <3>3. PICK c \in Convs : c = question[q].conv
      BY <2>1
    <3>4. Posted(q, c, new)
      BY <3>2, <3>3
    <3> QED BY <2>2, <2>3, <3>4, TurnsPosted DEF Route
  <2>4. CASE RouteError(q) \/ RouteDies(q)
    <3>1. chatFaults' \in 0 .. MaxChatFaults
      BY <1>0, <2>4, ChatMembers DEF ChatTypes, RouteError, RouteDies, ChatFault
    <3> QED BY <2>2, <2>4, <3>1, UsersAsk DEF RouteError, RouteDies
  <2> QED BY <1>4, <2>3, <2>4
<1> QED BY <1>1, <1>2, <1>3, <1>4 DEF ChatUserNext

\* A claim is of a turn that nobody has had.
LEMMA ClaimStep ==
    ASSUME ChatInv, NEW b \in Bots, NEW t \in Turns,
           ClaimTurn(b, t) \/ ClaimTurnLost(b, t)
    PROVE  ChatInv'
<1>0. /\ t \in DOMAIN turn /\ turn[t].status = "pending" /\ t \in DOMAIN stream
      /\ turn' = [turn EXCEPT ![t].status = "in_progress"]
      /\ poller[b].pc = "idle" /\ poller \in [Bots -> Poller] /\ ChatTypes
      /\ \/ poller' = poller
         \/ poller' = [poller EXCEPT ![b] = [pc |-> "replying", turn |-> t]]
      /\ UNCHANGED <<conv, question, call, stream>>
      /\ chatFaults' \in 0 .. MaxChatFaults
  BY ChatMembers DEF ClaimTurn, ClaimTurnLost, ClaimedTurn, ClaimableTurn, ChatInv,
                     ChatTypes, ChatFault
<1>1. /\ \A o \in Bots : poller[o].turn # t
      /\ \A c \in call : c.turn # t
  <2>1. \A o \in Bots : PollerOK(o)
    BY DEF ChatInv
  <2>2. \A c \in call : CallOK(c)
    BY DEF ChatInv
  <2>3. t # NoTurn
    BY ChatAssumption DEF NoTurn
  <2>4. ASSUME NEW o \in Bots PROVE poller[o].turn # t
    BY <1>0, <2>1, <2>3 DEF PollerOK
  <2>5. ASSUME NEW c \in call PROVE c.turn # t
    BY <1>0, <2>2 DEF CallOK
  <2> QED BY <2>4, <2>5
<1>2. /\ DOMAIN turn' = DOMAIN turn /\ turn[t] \in Turn
      /\ turn'[t] = [turn[t] EXCEPT !.status = "in_progress"]
      /\ \A k \in DOMAIN turn \ {t} : turn'[k] = turn[k]
  BY <1>0, ChatMembers
<1>3. ChatTypes'
  <2>1. turn'[t] \in Turn
    BY <1>2 DEF Turn, Open
  <2>2. IsTable(turn', Turns, Turn)
    BY <1>0, <2>1 DEF ChatTypes, IsTable
  <2>3. poller' \in [Bots -> Poller]
    BY <1>0 DEF Poller
  <2> QED BY <1>0, <1>2, <2>2, <2>3 DEF ChatTypes
<1>4. ASSUME NEW k \in call PROVE CallOK(k)'
  <2>1. CallOK(k) /\ k.turn # t
    BY <1>1 DEF ChatInv
  <2>2. k.by \in Bots => k.by # b
    BY <1>0, <2>1 DEF CallOK
  <2>3. k.by \in Bots => poller'[k.by] = poller[k.by]
    BY <1>0, <2>2
  <2>4. \A o \in Bots : poller[o].turn # k.turn => poller'[o].turn # k.turn
    BY <1>0, <2>1
  <2>5. PICK s : s = k.turn
    OBVIOUS
  <2>6. /\ s \in DOMAIN turn' <=> s \in DOMAIN turn
        /\ s \in DOMAIN turn => turn'[s] = turn[s]
    BY <1>2, <2>1, <2>5
  <2> QED BY <1>0, <2>1, <2>3, <2>4, <2>5, <2>6 DEF CallOK, Has
<1>5. \A k, d \in call : PairOK(k, d)'
  BY <1>0 DEF ChatInv, PairOK, Has
<1>6. ASSUME NEW o \in Bots PROVE PollerOK(o)'
  <2>1. PollerOK(o)
    BY DEF ChatInv
  <2>2. CASE poller'[o] = poller[o]
    <3>1. poller[o].turn # t /\ \A x \in Bots \ {o} : poller'[x] = poller[x] \/ poller'[x].turn = t
      BY <1>0, <1>1
    <3>2. PICK s : s = poller[o].turn
      OBVIOUS
    <3>3. /\ s \in DOMAIN turn' <=> s \in DOMAIN turn
          /\ s \in DOMAIN turn => turn'[s] = turn[s]
      BY <1>2, <3>1, <3>2
    <3> QED BY <1>0, <2>1, <2>2, <3>1, <3>2, <3>3 DEF PollerOK
  <2>3. CASE o = b /\ poller'[b] = [pc |-> "replying", turn |-> t]
            /\ \A x \in Bots \ {b} : poller'[x] = poller[x]
    <3>1. turn[t].text = <<>> /\ stream[t].sent = 0
      BY <1>0 DEF ChatInv, TurnOK
    <3>2. <<>> = Upto(0)
      BY DEF Upto
    <3>3. t # NoTurn
      BY ChatAssumption DEF NoTurn
    <3>4. turn'[t].text = Upto(stream'[t].sent) /\ turn'[t].status = "in_progress"
      BY <1>0, <1>2, <3>1, <3>2 DEF Turn
    <3> QED BY <1>0, <1>1, <2>3, <3>3, <3>4 DEF PollerOK
  <2> QED BY <1>0, <2>2, <2>3
<1>7. ASSUME NEW k \in DOMAIN turn' PROVE TurnOK(k)'
  <2>1. TurnOK(k)
    BY <1>2 DEF ChatInv
  <2>2. turn'[k].text = turn[k].text /\ (turn'[k].status = turn[k].status \/ turn'[k].status = "in_progress")
    BY <1>2 DEF Turn
  <2> QED BY <1>0, <2>1, <2>2 DEF TurnOK
<1> QED BY <1>0, <1>3, <1>4, <1>5, <1>6, <1>7 DEF ChatInv

\* A call is posted: the only one of its turn that was not given up, the first
\* to end it if it does, with a chunk that nobody has posted.
LEMMA CallPosted ==
    ASSUME ChatInv, NEW b \in Bots, poller[b].pc = "replying",
           NEW kind \in {"chunk", "keep", "content", "error"}, NEW n \in 0 .. MaxChunks,
           call' = call \cup {NewCall(b, kind, n)},
           NEW pc, poller' = [poller EXCEPT ![b].pc = pc],
           (kind = "chunk" /\ pc = "waiting") \/ (kind # "chunk" /\ pc = "ending"),
           NEW t, t = poller[b].turn,
           \/ n = 0 /\ kind \in {"keep", "error"} /\ stream' = stream
           \/ n = stream[t].sent + 1 /\ stream' = [stream EXCEPT ![t].sent = n]
              /\ (kind = "chunk" \/ (kind = "content" /\ n = 1)),
           UNCHANGED <<conv, question, turn, chatFaults>>
    PROVE  ChatInv'
<1> DEFINE x == NewCall(b, kind, n)
<1>0. /\ ChatTypes /\ PollerOK(b) /\ \A c \in call : CallOK(c)
      /\ \A c, d \in call : PairOK(c, d)
  BY DEF ChatInv
<1>1. /\ t \in DOMAIN stream /\ t \in Turns /\ stream[t].sent \in Nat
      /\ poller[b] = [pc |-> "replying", turn |-> t]
      /\ stream[t] \in [sent : 0 .. MaxChunks, whole : BOOLEAN]
  BY <1>0, ChatMembers DEF PollerOK, Poller
<1>2. /\ DOMAIN stream' = DOMAIN stream
      /\ \A k \in DOMAIN stream \ {t} : stream'[k] = stream[k]
      /\ stream'[t].whole = stream[t].whole
      /\ stream'[t].sent = IF n = 0 THEN stream[t].sent ELSE n
      /\ stream'[t] \in [sent : 0 .. MaxChunks, whole : BOOLEAN]
  BY <1>1
<1>3. /\ x \in Call /\ x.by = b /\ x.turn = t /\ x.kind = kind /\ x.delta = n
      /\ x.seen = NotRead
  BY <1>1 DEF NewCall, Call, NotRead
<1>4. /\ poller'[b] = [pc |-> pc, turn |-> t] /\ pc = IF kind = "chunk" THEN "waiting" ELSE "ending"
      /\ \A o \in Bots \ {b} : poller'[o] = poller[o]
      /\ poller' \in [Bots -> Poller]
      /\ \A o \in Bots : poller'[o].turn = poller[o].turn
  BY <1>0, <1>1 DEF ChatTypes, Poller
<1>5. \A c \in call : c.turn = t =>
          /\ c.by = Nobody /\ ~Final(c) /\ ~stream[t].whole /\ c.delta <= stream[t].sent
          /\ c.delta >= 1 /\ c.delta \in Nat /\ c.delta # n
  <2>1. ASSUME NEW c \in call, c.turn = t
        PROVE  /\ c.by = Nobody /\ ~Final(c) /\ ~stream[t].whole
               /\ c.delta <= stream[t].sent /\ c.delta >= 1 /\ c.delta \in Nat
    <3>1. c.by # b
      BY <1>1, <2>1, TheBotsCall
    <3>2. c \in Call
      BY <1>0, ChatMembers
    <3>3. c.by = Nobody /\ ~Final(c) /\ ~stream[t].whole
      BY <1>1, <2>1, <3>1, TheBotsCall
    <3>4. c.delta \in Nat
      BY <3>2, ChatAssumption DEF Call
    <3>5. CallOK(c)
      BY <1>0
    <3> QED BY <2>1, <3>3, <3>4, <3>5 DEF CallOK, Final
  <2> QED BY <1>1, <2>1
<1>6. ChatTypes'
  <2>1. IsTable(stream', Turns, [sent : 0 .. MaxChunks, whole : BOOLEAN])
    BY <1>0, <1>2, ChatMembers DEF ChatTypes, IsTable
  <2> QED BY <1>0, <1>2, <1>3, <1>4, <2>1 DEF ChatTypes
<1>7. ASSUME NEW c \in call' PROVE CallOK(c)'
  <2>1. CASE c = x
    <3>1. t \in DOMAIN turn => /\ turn[t].status = "in_progress"
                               /\ GoodText(turn[t].text, stream[t].sent)
                               /\ stream[t].whole => turn[t].text = Upto(stream[t].sent)
      BY <1>0, <1>1 DEF PollerOK, ChatInv, TurnOK
    <3>2. t \in DOMAIN turn => n \notin Has(turn[t].text)
      <4>1. SUFFICES ASSUME t \in DOMAIN turn PROVE n \notin Has(turn[t].text)
        OBVIOUS
      <4>2. n \in Nat /\ (n > stream[t].sent \/ n = 0)
        BY <1>1
      <4> QED BY <1>1, <3>1, <4>1, <4>2, GoodWithin, ChatAssumption
    <3>3. kind = "chunk" => n >= 1 /\ stream[t].sent = n - 1
      BY <1>1
    <3>4. PICK y : y = x
      OBVIOUS
    <3> QED BY <1>1, <1>2, <1>3, <1>4, <2>1, <3>1, <3>2, <3>3, NobodyAssumption
            DEF CallOK, Final
  <2>2. CASE c \in call /\ c.turn = t
    <3>1. CallOK(c) /\ c.by = Nobody /\ ~Final(c) /\ ~stream[t].whole
          /\ c.delta <= stream[t].sent
      BY <1>0, <1>5, <2>2
    <3>2. stream'[t].sent \in Nat /\ stream[t].sent <= stream'[t].sent
      BY <1>1, <1>2
    <3>3. c.delta <= stream'[t].sent
      BY <1>1, <1>5, <2>2, <3>1, <3>2
    <3>4. c.seen # NotRead => GoodText(c.seen.text, stream'[t].sent)
      <4>1. SUFFICES ASSUME c.seen # NotRead PROVE GoodText(c.seen.text, stream'[t].sent)
        OBVIOUS
      <4>2. GoodText(c.seen.text, stream[t].sent)
        BY <2>2, <3>1, <4>1 DEF CallOK
      <4> QED BY <1>1, <3>2, <4>2, GoodWithin, ChatAssumption
    <3> QED BY <1>2, <2>2, <3>1, <3>3, <3>4, NobodyAssumption DEF CallOK, Final
  <2>3. CASE c \in call /\ c.turn # t
    <3>1. CallOK(c)
      BY <1>0, <2>3
    <3>2. c.by \in Bots => poller'[c.by] = poller[c.by]
      BY <1>1, <1>4, <2>3, <3>1 DEF CallOK
    <3>3. PICK s : s = c.turn
      OBVIOUS
    <3>4. (s \in DOMAIN stream' <=> s \in DOMAIN stream) /\ (s \in DOMAIN stream => stream'[s] = stream[s])
      BY <1>2, <2>3, <3>3
    <3> QED BY <1>4, <3>1, <3>2, <3>3, <3>4 DEF CallOK
  <2> QED BY <2>1, <2>2, <2>3
<1>8. ASSUME NEW c \in call', NEW d \in call' PROVE PairOK(c, d)'
  <2>1. CASE c \in call /\ d \in call
    BY <1>0, <2>1 DEF PairOK, Has
  <2>2. CASE d = x /\ c \in call'
    <3>1. c # x /\ c.turn = t => c \in call
      OBVIOUS
    <3>2. Has(d.seen.text) = {}
      BY <1>3, <2>2 DEF Has, NotRead
    <3> QED BY <1>3, <1>5, <2>2, <3>1, <3>2, NobodyAssumption DEF PairOK, Final
  <2>3. CASE c = x /\ d \in call
    <3>1. CASE d.turn = t
      <4>1. n \notin Has(d.seen.text)
        <5>1. CASE d.seen = NotRead
          BY <5>1 DEF Has, NotRead
        <5>2. CASE d.seen # NotRead
          <6>1. GoodText(d.seen.text, stream[t].sent)
            BY <1>0, <2>3, <3>1, <5>2 DEF CallOK
          <6>2. n \in Nat /\ (n > stream[t].sent \/ n = 0)
            BY <1>1
          <6> QED BY <1>1, <6>1, <6>2, GoodWithin, ChatAssumption
        <5> QED BY <5>1, <5>2
      <4> QED BY <1>3, <1>5, <2>3, <3>1, <4>1, NobodyAssumption DEF PairOK, Has, Final
    <3>2. CASE d.turn # t
      BY <1>3, <2>3, <3>2 DEF PairOK
    <3> QED BY <3>1, <3>2
  <2> QED BY <2>1, <2>2, <2>3
<1>9. ASSUME NEW o \in Bots PROVE PollerOK(o)'
  <2>1. PollerOK(o)
    BY DEF ChatInv
  <2>2. CASE o = b
    BY <1>1, <1>2, <1>3, <1>4, <2>1, <2>2 DEF PollerOK
  <2>3. CASE o # b
    <3>1. poller'[o] = poller[o] /\ poller[o].turn # t
      BY <1>0, <1>1, <1>4, <2>3 DEF PollerOK
    <3>2. PICK s : s = poller[o].turn
      OBVIOUS
    <3>3. (s \in DOMAIN stream' <=> s \in DOMAIN stream) /\ (s \in DOMAIN stream => stream'[s] = stream[s])
      BY <1>2, <3>1, <3>2
    <3>4. \A c \in call : c \in call'
      OBVIOUS
    <3> QED BY <1>4, <2>1, <3>1, <3>2, <3>3, <3>4 DEF PollerOK
  <2> QED BY <2>2, <2>3
<1>10. ASSUME NEW k \in DOMAIN turn' PROVE TurnOK(k)'
  <2>1. TurnOK(k) /\ k \in DOMAIN turn /\ k \in DOMAIN stream
    BY <1>0 DEF ChatInv, ChatTypes
  <2>2. CASE k # t
    BY <1>2, <2>1, <2>2 DEF TurnOK
  <2>3. CASE k = t
    <3>1. turn[t].status = "in_progress"
      BY <1>0, <1>1, <2>1, <2>3 DEF PollerOK
    <3>2. stream'[t].sent \in Nat /\ stream[t].sent <= stream'[t].sent
      BY <1>1, <1>2
    <3>3. GoodText(turn[t].text, stream[t].sent)
      BY <2>1, <2>3 DEF TurnOK
    <3>4. GoodText(turn[t].text, stream'[t].sent)
      <4> QED BY <1>1, <3>2, <3>3, GoodWithin, ChatAssumption
    <3> QED BY <2>3, <3>1, <3>4 DEF TurnOK
  <2> QED BY <2>2, <2>3
<1> QED BY <1>6, <1>7, <1>8, <1>9, <1>10 DEF ChatInv

\* A bot that gives its call up, or dies, leaves the call to nobody.
LEMMA CallLeft ==
    ASSUME ChatInv, NEW b \in Bots, NEW t, t = poller[b].turn, poller[b].pc # "idle",
           NEW q, poller' = [poller EXCEPT ![b] = q],
           \/ q = IdlePoller
           \/ poller[b].pc = "waiting" /\ q = [pc |-> "replying", turn |-> t],
           stream' = [stream EXCEPT ![t].whole = FALSE],
           \A x \in call' : \E c \in call :
               x = IF c.by = b THEN [c EXCEPT !.by = Nobody] ELSE c,
           \A c \in call : c.by # b => c \in call',
           chatFaults' \in 0 .. MaxChatFaults,
           UNCHANGED <<conv, question, turn>>
    PROVE  ChatInv'
<1>0. /\ ChatTypes /\ PollerOK(b) /\ \A c \in call : CallOK(c)
      /\ Nobody \notin Bots /\ \A c, d \in call : PairOK(c, d)
  BY NobodyAssumption DEF ChatInv
<1>1. /\ t \in DOMAIN stream /\ t \in Turns /\ t # NoTurn
      /\ stream[t] \in [sent : 0 .. MaxChunks, whole : BOOLEAN]
  BY <1>0, ChatMembers DEF PollerOK, NoTurn
<1>2. /\ DOMAIN stream' = DOMAIN stream
      /\ \A k \in DOMAIN stream \ {t} : stream'[k] = stream[k]
      /\ stream'[t].whole = FALSE /\ stream'[t].sent = stream[t].sent
      /\ stream'[t] \in [sent : 0 .. MaxChunks, whole : BOOLEAN]
  BY <1>1
<1>3. /\ poller'[b] = q /\ poller' \in [Bots -> Poller]
      /\ \A o \in Bots \ {b} : poller'[o] = poller[o] /\ poller[o].turn # t
      /\ \A o \in Bots : poller'[o].turn \in {poller[o].turn, NoTurn}
  BY <1>0, <1>1 DEF ChatTypes, Poller, IdlePoller, PollerOK, NoTurn
<1>4. ASSUME NEW x \in call'
      PROVE  \E c \in call :
                /\ x \in Call /\ CallOK(c) /\ c \in Call /\ (x = c <=> c.by # b)
                /\ x.turn = c.turn /\ x.kind = c.kind /\ x.delta = c.delta /\ x.seen = c.seen
                /\ x.by = IF c.by = b THEN Nobody ELSE c.by
  <2>1. PICK c \in call : x = IF c.by = b THEN [c EXCEPT !.by = Nobody] ELSE c
    OBVIOUS
  <2>2. c \in Call /\ CallOK(c)
    BY <1>0, ChatMembers
  <2> QED BY <1>0, <2>1, <2>2 DEF Call
<1>5. ChatTypes'
  <2>1. IsTable(stream', Turns, [sent : 0 .. MaxChunks, whole : BOOLEAN])
    BY <1>0, <1>2, ChatMembers DEF ChatTypes, IsTable
  <2>2. call' \subseteq Call
    BY <1>4
  <2> QED BY <1>0, <1>2, <1>3, <2>1, <2>2 DEF ChatTypes
<1>6. ASSUME NEW x \in call' PROVE CallOK(x)'
  <2>1. PICK c \in call :
                /\ x \in Call /\ CallOK(c) /\ c \in Call /\ (x = c <=> c.by # b)
                /\ x.turn = c.turn /\ x.kind = c.kind /\ x.delta = c.delta /\ x.seen = c.seen
                /\ x.by = IF c.by = b THEN Nobody ELSE c.by
    BY <1>4
  <2>2. CASE c.by = b
    <3>1. c.turn = t /\ (Final(c) => poller[b].pc = "ending")
      BY <1>0, <2>1, <2>2 DEF CallOK
    <3>2. Final(c) => \A o \in Bots : poller'[o].turn # t
      BY <1>1, <1>3, <3>1 DEF IdlePoller
    <3> QED BY <1>0, <1>2, <2>1, <2>2, <3>1, <3>2 DEF CallOK, Final
  <2>3. CASE c.by # b /\ c.turn = t
    <3>1. c.by = Nobody /\ ~Final(c)
      BY <2>3, TheBotsCall
    <3> QED BY <1>0, <1>2, <2>1, <2>3, <3>1 DEF CallOK, Final
  <2>4. CASE c.by # b /\ c.turn # t
    <3>1. c.turn \in DOMAIN stream /\ c.turn # NoTurn
      BY <1>0, <2>1, ChatMembers DEF CallOK, NoTurn
    <3>2. \A o \in Bots : poller[o].turn # c.turn => poller'[o].turn # c.turn
      BY <1>3, <3>1
    <3>3. c.by \in Bots => poller'[c.by] = poller[c.by]
      BY <1>3, <2>4
    <3>4. stream'[c.turn] = stream[c.turn]
      BY <1>2, <2>4, <3>1
    <3> QED BY <1>2, <2>1, <2>4, <3>1, <3>2, <3>3, <3>4 DEF CallOK, Final
  <2> QED BY <2>2, <2>3, <2>4
<1>7. ASSUME NEW x \in call', NEW y \in call' PROVE PairOK(x, y)'
  <2>1. PICK c \in call :
                /\ x \in Call /\ CallOK(c) /\ c \in Call /\ (x = c <=> c.by # b)
                /\ x.turn = c.turn /\ x.kind = c.kind /\ x.delta = c.delta /\ x.seen = c.seen
                /\ x.by = IF c.by = b THEN Nobody ELSE c.by
    BY <1>4
  <2>2. PICK d \in call :
                /\ y \in Call /\ CallOK(d) /\ d \in Call /\ (y = d <=> d.by # b)
                /\ y.turn = d.turn /\ y.kind = d.kind /\ y.delta = d.delta /\ y.seen = d.seen
                /\ y.by = IF d.by = b THEN Nobody ELSE d.by
    BY <1>4
  <2>3. PairOK(c, d)
    BY <1>0
  <2>4. c = d => x = y
    BY <2>1, <2>2 DEF Call
  <2> QED BY <2>1, <2>2, <2>3, <2>4 DEF PairOK, Has, Final
<1>8. ASSUME NEW o \in Bots PROVE PollerOK(o)'
  <2>1. PollerOK(o)
    BY DEF ChatInv
  <2>2. CASE o = b
    <3>1. \A x \in Bots \ {b} : poller'[x].turn # t
      BY <1>3
    <3>2. PICK s : s = poller'[b].turn
      OBVIOUS
    <3>3. CASE q = IdlePoller
      BY <1>3, <2>2, <3>3 DEF PollerOK, IdlePoller
    <3>4. CASE q = [pc |-> "replying", turn |-> t] /\ poller[b].pc = "waiting"
      BY <1>1, <1>2, <1>3, <2>1, <2>2, <3>1, <3>4 DEF PollerOK
    <3> QED BY <3>3, <3>4
  <2>3. CASE o # b
    <3>1. poller'[o] = poller[o] /\ poller[o].turn # t
      BY <1>3, <2>3
    <3>2. PICK s : s = poller[o].turn
      OBVIOUS
    <3>3. (s \in DOMAIN stream' <=> s \in DOMAIN stream) /\ (s \in DOMAIN stream => stream'[s] = stream[s])
      BY <1>2, <3>1, <3>2
    <3>4. \A x \in Bots \ {o} : poller[o].pc # "idle" /\ poller[x].turn # s => poller'[x].turn # s
      BY <1>3, <2>1, <3>2 DEF PollerOK
    <3>5. (\E c \in call : c.by = o) => \E c \in call' : c.by = o
      BY <2>3
    <3> QED BY <2>1, <3>1, <3>2, <3>3, <3>4, <3>5 DEF PollerOK
  <2> QED BY <2>2, <2>3
<1>9. ASSUME NEW k \in DOMAIN turn' PROVE TurnOK(k)'
  <2>1. TurnOK(k) /\ k \in DOMAIN stream
    BY <1>0 DEF ChatInv, ChatTypes
  <2>2. stream'[k].sent = stream[k].sent /\ (stream'[k].whole => stream[k].whole)
    BY <1>2, <2>1
  <2> QED BY <2>1, <2>2 DEF TurnOK
<1> QED BY <1>5, <1>6, <1>7, <1>8, <1>9 DEF ChatInv

\* Every step of a bot keeps it.
LEMMA PollerStep ==
    ASSUME ChatInv, NEW b \in Bots, PollerNext(b)
    PROVE  ChatInv'
<1>0. /\ ChatTypes /\ PollerOK(b) /\ \A c \in call : CallOK(c)
      /\ MaxChunks \in Nat /\ \A c, d \in call : PairOK(c, d)
      /\ poller \in [Bots -> Poller] /\ chatFaults \in 0 .. MaxChatFaults
  BY ChatAssumption DEF ChatInv, ChatTypes
<1>1. PICK t : t = poller[b].turn
  OBVIOUS
<1>2. poller[b].pc # "idle" => /\ t \in DOMAIN stream
                               /\ stream[t] \in [sent : 0 .. MaxChunks, whole : BOOLEAN]
  BY <1>0, <1>1, ChatMembers DEF PollerOK
<1>3. ChatFault => chatFaults' \in 0 .. MaxChatFaults
  BY <1>0, ChatMembers DEF ChatFault
<1>4. CASE Yield(b)
  <2>1. /\ poller[b].pc = "replying" /\ stream[t].sent + 1 \in 0 .. MaxChunks
        /\ call' = call \cup {NewCall(b, "chunk", stream[t].sent + 1)}
        /\ poller' = [poller EXCEPT ![b].pc = "waiting"]
        /\ stream' = [stream EXCEPT ![t].sent = stream[t].sent + 1]
        /\ UNCHANGED <<conv, question, turn, chatFaults>>
    BY <1>0, <1>1, <1>2, <1>4 DEF Yield
  <2>2. PICK kind : kind = "chunk"
    OBVIOUS
  <2>3. PICK n \in 0 .. MaxChunks : n = stream[t].sent + 1
    BY <2>1
  <2>4. /\ call' = call \cup {NewCall(b, kind, n)}
        /\ stream' = [stream EXCEPT ![t].sent = n]
    BY <2>1, <2>2, <2>3
  <2>5. kind \in {"chunk", "keep", "content", "error"}
    BY <2>2
  <2>6. n = stream[t].sent + 1
    BY <2>3
  <2>7. /\ poller[b].pc = "replying" /\ UNCHANGED <<conv, question, turn, chatFaults>>
        /\ poller' = [poller EXCEPT ![b].pc = "waiting"]
    BY <2>1
  <2> QED BY <1>1, <2>2, <2>4, <2>5, <2>6, <2>7, CallPosted
<1>5. CASE Reply(b)
  <2>1. /\ poller[b].pc = "replying"
        /\ poller' = [poller EXCEPT ![b].pc = "ending"]
        /\ UNCHANGED <<conv, question, turn, chatFaults>>
    BY <1>5 DEF Reply
  <2>2. CASE /\ stream[t].sent = 0 /\ MaxChunks > 0
             /\ call' = call \cup {NewCall(b, "content", 1)}
             /\ stream' = [stream EXCEPT ![t].sent = 1]
    <3>1. 1 \in 0 .. MaxChunks /\ 1 = stream[t].sent + 1
      BY <1>0, <2>2
    <3> QED BY <1>1, <2>1, <2>2, <3>1, CallPosted
  <2>3. ASSUME NEW kind \in {"keep", "error"}, call' = call \cup {NewCall(b, kind, 0)},
               stream' = stream
        PROVE  ChatInv'
    <3>1. PICK n \in 0 .. MaxChunks : n = 0
      BY <1>0
    <3>2. call' = call \cup {NewCall(b, kind, n)}
      BY <2>3, <3>1
    <3> QED BY <1>1, <2>1, <2>3, <3>1, <3>2, CallPosted
  <2> QED BY <1>1, <1>5, <2>2, <2>3 DEF Reply
<1>6. CASE BotDies(b)
  <2>1. /\ poller[b].pc # "idle" /\ ChatFault
        /\ poller' = [poller EXCEPT ![b] = IdlePoller]
        /\ call' = {IF c.by = b THEN [c EXCEPT !.by = Nobody] ELSE c : c \in call}
        /\ stream' = [stream EXCEPT ![t].whole = FALSE]
        /\ UNCHANGED <<conv, question, turn>>
    BY <1>1, <1>6 DEF BotDies
  <2>2. /\ \A x \in call' : \E c \in call :
               x = IF c.by = b THEN [c EXCEPT !.by = Nobody] ELSE c
        /\ \A c \in call : c.by # b => c \in call'
    BY <2>1
  <2> QED BY <1>1, <1>3, <2>1, <2>2, CallLeft
<1>7. ASSUME NEW c \in call, GiveUp(b, c) PROVE ChatInv'
  <2>1. /\ c.by = b /\ ChatFault
        /\ poller' = [poller EXCEPT ![b] = GoesOn(b)]
        /\ stream' = [stream EXCEPT ![c.turn].whole = FALSE]
        /\ call' \subseteq (call \ {c}) \cup {[c EXCEPT !.by = Nobody]}
        /\ call \ {c} \subseteq call'
        /\ UNCHANGED <<conv, question, turn>>
    BY <1>7 DEF GiveUp
  <2>2. /\ poller[b] = [pc |-> IF Final(c) THEN "ending" ELSE "waiting", turn |-> c.turn]
        /\ c.turn = t
    <3>1. CallOK(c) /\ c.by \in Bots
      BY <1>0, <2>1
    <3> QED BY <1>1, <2>1, <3>1 DEF CallOK
  <2>3. \/ GoesOn(b) = IdlePoller
        \/ poller[b].pc = "waiting" /\ GoesOn(b) = [pc |-> "replying", turn |-> t]
    BY <2>2 DEF GoesOn
  <2>4. \A d \in call : d.by = b => d = c
    <3>1. ASSUME NEW d \in call, d.by = b PROVE d = c
      <4>1. d.turn = t /\ PairOK(c, d) /\ b # Nobody
        <5>1. CallOK(d) /\ PairOK(c, d) /\ d.by \in Bots
          BY <1>0, <3>1
        <5> QED BY <1>1, <3>1, <5>1, NobodyAssumption DEF CallOK
      <4> QED BY <2>1, <2>2, <3>1, <4>1 DEF PairOK
    <3> QED BY <3>1
  <2>5. \A x \in call' : \E d \in call :
               x = IF d.by = b THEN [d EXCEPT !.by = Nobody] ELSE d
    BY <2>1, <2>4
  <2>6. \A d \in call : d.by # b => d \in call'
    BY <2>1
  <2>7. poller[b].pc # "idle"
    BY <2>2
  <2> QED BY <1>1, <1>3, <2>1, <2>2, <2>3, <2>5, <2>6, <2>7, CallLeft
<1> QED BY <1>4, <1>5, <1>6, <1>7, ClaimStep DEF PollerNext

\* The calls that are left, and the pollers, once a call was answered.
LEMMA AnsweredFacts ==
    ASSUME ChatInv, NEW c \in call, Answered(c)
    PROVE  /\ CallOK(c) /\ c \in Call /\ c.turn # NoTurn
           /\ c.by \in Bots \/ (c.by = Nobody /\ Nobody \notin Bots)
           /\ \A d \in call' : d \in call /\ d # c
           /\ \A d \in call : d # c => d \in call'
           /\ \A b \in Bots : b # c.by => poller'[b] = poller[b]
           /\ c.by \in Bots => poller'[c.by] = IF Final(c) THEN IdlePoller
                                  ELSE [pc |-> "replying", turn |-> c.turn]
           /\ \A b \in Bots : poller'[b].turn \in {poller[b].turn, NoTurn}
           /\ \A d \in call : d # c => d.by # c.by \/ d.by = Nobody
           /\ poller' \in [Bots -> Poller]
<1>0. /\ ChatTypes /\ \A d \in call : CallOK(d)
      /\ \A d, e \in call : PairOK(d, e)
  BY DEF ChatInv
<1>1. /\ CallOK(c) /\ c \in Call /\ c.turn # NoTurn /\ c.turn \in Turns
      /\ c.by \in Bots \/ (c.by = Nobody /\ Nobody \notin Bots)
  BY <1>0, ChatMembers DEF CallOK, NoTurn
<1>2. c.by \in Bots =>
         poller[c.by] = [pc |-> IF Final(c) THEN "ending" ELSE "waiting", turn |-> c.turn]
  BY <1>1 DEF CallOK
<1>3. poller' = [b \in Bots |-> IF c.by = b THEN GoesOn(b) ELSE poller[b]]
      /\ call' = call \ {c}
  BY DEF Answered
<1>4. c.by \in Bots => poller'[c.by] = IF Final(c) THEN IdlePoller
                                  ELSE [pc |-> "replying", turn |-> c.turn]
  BY <1>2, <1>3 DEF GoesOn
<1>5. \A b \in Bots : b # c.by => poller'[b] = poller[b]
  BY <1>3
<1>6. \A b \in Bots : poller'[b].turn \in {poller[b].turn, NoTurn}
  <2>1. ASSUME NEW b \in Bots, b = c.by PROVE poller'[b].turn \in {poller[b].turn, NoTurn}
    BY <1>2, <1>4, <2>1 DEF IdlePoller
  <2> QED BY <1>5, <2>1
<1>7. ASSUME NEW d \in call, d # c PROVE d.by # c.by \/ d.by = Nobody
  <2>1. CallOK(d) /\ PairOK(c, d)
    BY <1>0
  <2>2. d.by = c.by /\ d.by \in Bots => d.turn = c.turn
    BY <1>2, <2>1 DEF CallOK
  <2> QED BY <1>1, <1>7, <2>1, <2>2 DEF PairOK
<1>8. poller' \in [Bots -> Poller]
  <2>1. \A b \in Bots : poller'[b] \in Poller
    <3>1. ASSUME NEW b \in Bots, b = c.by PROVE poller'[b] \in Poller
      BY <1>1, <1>4, <3>1 DEF IdlePoller, Poller
    <3> QED BY <1>0, <1>5, <3>1 DEF ChatTypes
  <2> QED BY <1>3, <2>1
<1> QED BY <1>1, <1>3, <1>4, <1>5, <1>6, <1>7, <1>8

\* A call that changes no turn.
LEMMA AnsweredNothing ==
    ASSUME ChatInv, NEW c \in call, Answered(c),
           c.turn \notin DOMAIN turn \/ c.by = Nobody,
           UNCHANGED <<conv, question, turn, stream, chatFaults>>
    PROVE  ChatInv'
<1>0. /\ ChatTypes /\ \A d \in call : CallOK(d)
      /\ \A d, e \in call : PairOK(d, e)
  BY DEF ChatInv
<1>1. /\ CallOK(c) /\ c \in Call /\ c.turn # NoTurn
      /\ c.by \in Bots \/ (c.by = Nobody /\ Nobody \notin Bots)
      /\ \A d \in call' : d \in call /\ d # c
      /\ \A d \in call : d # c => d \in call'
      /\ \A b \in Bots : b # c.by => poller'[b] = poller[b]
      /\ c.by \in Bots => poller'[c.by] = IF Final(c) THEN IdlePoller
                             ELSE [pc |-> "replying", turn |-> c.turn]
      /\ \A b \in Bots : poller'[b].turn \in {poller[b].turn, NoTurn}
      /\ \A d \in call : d # c => d.by # c.by \/ d.by = Nobody
      /\ poller' \in [Bots -> Poller]
  BY AnsweredFacts
<1>2. ChatTypes'
  BY <1>0, <1>1 DEF ChatTypes
<1>3. ASSUME NEW d \in call' PROVE CallOK(d)'
  <2>1. /\ CallOK(d) /\ d \in call /\ d # c /\ d.turn # NoTurn
        /\ d.by \in Bots \/ (d.by = Nobody /\ Nobody \notin Bots)
    BY <1>0, <1>1, ChatMembers DEF CallOK, NoTurn
  <2>2. d.by \in Bots => poller'[d.by] = poller[d.by]
    BY <1>1, <2>1, NobodyAssumption
  <2>3. \A b \in Bots : poller[b].turn # d.turn => poller'[b].turn # d.turn
    BY <1>1, <2>1
  <2> QED BY <2>1, <2>2, <2>3 DEF CallOK
<1>4. \A d, e \in call' : PairOK(d, e)'
  BY <1>0, <1>1 DEF PairOK, Has
<1>5. ASSUME NEW o \in Bots PROVE PollerOK(o)'
  <2>1. PollerOK(o)
    BY DEF ChatInv
  <2>2. CASE o # c.by
    <3>1. poller'[o] = poller[o] /\ \A d \in call : d.by = o => d \in call'
      BY <1>1, <2>2
    <3>2. PICK s : s = poller[o].turn
      OBVIOUS
    <3>3. poller[o].pc # "idle" => \A x \in Bots \ {o} : poller'[x].turn # s
      <4>1. poller[o].pc # "idle" => s # NoTurn
        BY <2>1, <3>2 DEF PollerOK
      <4> QED BY <1>1, <2>1, <3>2, <4>1 DEF PollerOK
    <3> QED BY <2>1, <3>1, <3>2, <3>3 DEF PollerOK
  <2>3. CASE o = c.by
    <3>1. c.turn \notin DOMAIN turn /\ poller[o].turn = c.turn /\ poller[o].pc # "idle"
      BY <1>1, <2>3, NobodyAssumption DEF CallOK
    <3>2. CASE Final(c)
      BY <1>1, <2>3, <3>2 DEF PollerOK, IdlePoller
    <3>3. CASE ~Final(c)
      <4>1. poller'[o] = [pc |-> "replying", turn |-> c.turn]
        BY <1>1, <2>3, <3>3
      <4>2. \A x \in Bots \ {o} : poller'[x].turn # c.turn
        BY <1>1, <2>1, <3>1 DEF PollerOK
      <4> QED BY <1>1, <2>1, <3>1, <4>1, <4>2 DEF PollerOK
    <3> QED BY <3>2, <3>3
  <2> QED BY <2>2, <2>3
<1>6. \A t \in DOMAIN turn' : TurnOK(t)'
  BY DEF ChatInv, TurnOK
<1> QED BY <1>2, <1>3, <1>4, <1>5, <1>6 DEF ChatInv

\* While nothing was given up, the call of a turn is its only one.
LEMMA OnlyCall ==
    ASSUME ChatInv, NEW c \in call, NEW d \in call, c.turn = d.turn, stream[c.turn].whole
    PROVE  /\ c = d /\ c.by \in Bots /\ poller[c.by].turn = c.turn
           /\ poller[c.by].pc # "idle"
<1>1. CallOK(c) /\ CallOK(d) /\ PairOK(c, d)
  BY DEF ChatInv
<1>2. (c.by \in Bots \/ c.by = Nobody) /\ (d.by \in Bots \/ d.by = Nobody)
  BY ChatMembers DEF ChatInv
<1>3. c.by \in Bots /\ d.by \in Bots
  BY <1>1, <1>2 DEF CallOK
<1>4. /\ poller[c.by].turn = c.turn /\ poller[d.by].turn = c.turn /\ poller[c.by].pc # "idle"
      /\ PollerOK(c.by)
  BY <1>1, <1>3 DEF CallOK, ChatInv
<1>5. d.by = c.by
  BY <1>3, <1>4 DEF PollerOK
<1> QED BY <1>1, <1>3, <1>4, <1>5, NobodyAssumption DEF PairOK

\* The turn's row is r, and no other row has changed.
RowIs(t, r) ==
    /\ IsTable(turn', Turns, Turn) /\ DOMAIN turn' = DOMAIN turn /\ turn'[t] = r
    /\ \A k \in DOMAIN turn \ {t} : turn'[k] = turn[k]

\* A call that writes its turn.
LEMMA TurnWritten ==
    ASSUME ChatInv, NEW c \in call, Answered(c), NEW t \in DOMAIN turn, t = c.turn,
           NEW r \in Turn, RowIs(t, r),
           GoodText(r.text, stream[t].sent), r.status # "pending",
           Final(c) => r.status \in Done,
           ~Final(c) => r.status = turn[t].status,
           stream[t].whole /\ r.status # "failed" => r.text = Upto(stream[t].sent),
           \A d \in call : d.turn = t /\ d # c => d.delta \notin Has(r.text),
           UNCHANGED <<conv, question, stream, chatFaults>>
    PROVE  ChatInv'
<1>0. /\ ChatTypes /\ \A d \in call : CallOK(d)
      /\ \A d, e \in call : PairOK(d, e)
  BY DEF ChatInv
<1>1. /\ CallOK(c) /\ c \in Call /\ c.turn # NoTurn
      /\ c.by \in Bots \/ (c.by = Nobody /\ Nobody \notin Bots)
      /\ \A d \in call' : d \in call /\ d # c
      /\ \A d \in call : d # c => d \in call'
      /\ \A b \in Bots : b # c.by => poller'[b] = poller[b]
      /\ c.by \in Bots => poller'[c.by] = IF Final(c) THEN IdlePoller
                             ELSE [pc |-> "replying", turn |-> c.turn]
      /\ \A b \in Bots : poller'[b].turn \in {poller[b].turn, NoTurn}
      /\ \A d \in call : d # c => d.by # c.by \/ d.by = Nobody
      /\ poller' \in [Bots -> Poller]
  BY AnsweredFacts
<1>2. /\ DOMAIN turn' = DOMAIN turn /\ turn'[t] = r
      /\ \A k \in DOMAIN turn \ {t} : turn'[k] = turn[k]
  BY DEF RowIs
<1>3. ChatTypes'
  <2>1. IsTable(turn', Turns, Turn)
    BY DEF RowIs
  <2> QED BY <1>0, <1>1, <1>2, <2>1 DEF ChatTypes
<1>4. ASSUME NEW d \in call' PROVE CallOK(d)'
  <2>1. /\ CallOK(d) /\ d \in call /\ d # c /\ d.turn # NoTurn /\ PairOK(c, d)
        /\ d.by \in Bots \/ (d.by = Nobody /\ Nobody \notin Bots)
    BY <1>0, <1>1, ChatMembers DEF CallOK, NoTurn
  <2>2. d.by \in Bots => poller'[d.by] = poller[d.by]
    BY <1>1, <2>1, NobodyAssumption
  <2>3. \A b \in Bots : poller[b].turn # d.turn => poller'[b].turn # d.turn
    BY <1>1, <2>1
  <2>4. CASE d.turn = t
    <3>1. ~stream[t].whole
      BY <2>1, <2>4, OnlyCall
    <3>2. d.delta \notin Has(turn'[t].text)
      BY <1>2, <2>1, <2>4
    <3>3. Final(d) => turn'[t].status = "in_progress"
      BY <1>2, <2>1, <2>4 DEF PairOK, CallOK
    <3> QED BY <1>2, <2>1, <2>2, <2>3, <2>4, <3>1, <3>2, <3>3 DEF CallOK
  <2>5. CASE d.turn # t
    <3>1. PICK s : s = d.turn
      OBVIOUS
    <3>2. s \in DOMAIN turn => turn'[s] = turn[s]
      BY <1>2, <2>5, <3>1
    <3> QED BY <1>2, <2>1, <2>2, <2>3, <3>1, <3>2 DEF CallOK
  <2> QED BY <2>4, <2>5
<1>5. \A d, e \in call' : PairOK(d, e)'
  BY <1>0, <1>1 DEF PairOK, Has
<1>6. ASSUME NEW o \in Bots PROVE PollerOK(o)'
  <2>1. PollerOK(o)
    BY DEF ChatInv
  <2>2. CASE o # c.by
    <3>1. poller'[o] = poller[o] /\ \A d \in call : d.by = o => d \in call'
      BY <1>1, <2>2
    <3>2. PICK s : s = poller[o].turn
      OBVIOUS
    <3>3. poller[o].pc # "idle" => \A x \in Bots \ {o} : poller'[x].turn # s
      <4>1. poller[o].pc # "idle" => s # NoTurn
        BY <2>1, <3>2 DEF PollerOK
      <4> QED BY <1>1, <2>1, <3>2, <4>1 DEF PollerOK
    <3>4. CASE s = t /\ poller[o].pc # "idle"
      <4>1. c.by \notin Bots
        BY <1>1, <2>1, <2>2, <3>2, <3>4 DEF PollerOK, CallOK
      <4>2. ~Final(c) /\ ~stream[t].whole
        BY <1>1, <3>2, <3>4, <4>1 DEF CallOK
      <4>3. turn'[t].status = "in_progress"
        BY <1>2, <2>1, <3>2, <3>4, <4>2 DEF PollerOK
      <4> QED BY <1>2, <2>1, <3>1, <3>2, <3>3, <3>4, <4>2, <4>3 DEF PollerOK
    <3>5. CASE s # t \/ poller[o].pc = "idle"
      <4>1. s # t /\ s \in DOMAIN turn => turn'[s] = turn[s]
        BY <1>2
      <4> QED BY <1>2, <2>1, <3>1, <3>2, <3>3, <3>5, <4>1 DEF PollerOK
    <3> QED BY <3>4, <3>5
  <2>3. CASE o = c.by
    <3>1. poller[o].turn = t /\ poller[o].pc # "idle"
      BY <1>1, <2>3 DEF CallOK
    <3>2. CASE Final(c)
      BY <1>1, <2>3, <3>2 DEF PollerOK, IdlePoller
    <3>3. CASE ~Final(c)
      <4>1. poller'[o] = [pc |-> "replying", turn |-> t]
        BY <1>1, <2>3, <3>3
      <4>2. \A x \in Bots \ {o} : poller'[x].turn # t
        BY <1>1, <2>1, <3>1 DEF PollerOK
      <4>3. t \in DOMAIN stream /\ turn[t].status = "in_progress"
        BY <2>1, <3>1 DEF PollerOK
      <4>4. r.status = "in_progress"
        BY <3>3, <4>3
      <4> QED BY <1>1, <1>2, <4>1, <4>2, <4>3, <4>4 DEF PollerOK
    <3> QED BY <3>2, <3>3
  <2> QED BY <2>2, <2>3
<1>7. ASSUME NEW k \in DOMAIN turn' PROVE TurnOK(k)'
  <2>1. CASE k # t
    BY <1>2, <2>1 DEF ChatInv, TurnOK
  <2>2. CASE k = t
    BY <1>2, <2>2 DEF TurnOK
  <2> QED BY <2>1, <2>2
<1> QED BY <1>3, <1>4, <1>5, <1>6, <1>7 DEF ChatInv

\* Every step of the server keeps it.
LEMMA ServerStep ==
    ASSUME ChatInv, NEW c \in call, Refuse(c) \/ ReadTurn(c) \/ WriteTurn(c)
    PROVE  ChatInv'
<1>0. /\ ChatTypes /\ CallOK(c) /\ \A d \in call : CallOK(d)
      /\ \A d, e \in call : PairOK(d, e)
      /\ c \in Call /\ (c.by \in Bots \/ (c.by = Nobody /\ Nobody \notin Bots))
      /\ MaxChunks \in Nat
  BY ChatMembers DEF ChatInv
<1>1. PICK t : t = c.turn
  OBVIOUS
<1>2. /\ t \in DOMAIN stream /\ t # NoTurn
      /\ stream[t] \in [sent : 0 .. MaxChunks, whole : BOOLEAN]
      /\ t \in DOMAIN turn => turn[t] \in Turn /\ TurnOK(t)
  BY <1>0, <1>1, ChatMembers DEF CallOK, NoTurn, ChatInv
<1>3. c.by \in Bots /\ t \in DOMAIN turn => turn[t].status = "in_progress"
  <2>1. c.by \in Bots => PollerOK(c.by)
    BY DEF ChatInv
  <2> QED BY <1>0, <1>1, <2>1 DEF CallOK, PollerOK
<1>4. CASE Refuse(c)
  <2>1. c.turn \notin DOMAIN turn \/ c.by = Nobody
    BY <1>0, <1>1, <1>3, <1>4 DEF Refuse, Refused, Open
  <2> QED BY <1>4, <2>1, AnsweredNothing DEF Refuse
<1>5. CASE ReadTurn(c)
  <2>1. /\ t \in DOMAIN turn /\ turn[t].status = "in_progress" /\ c.seen = NotRead
        /\ UNCHANGED <<conv, question, turn, poller, stream, chatFaults>>
    BY <1>0, <1>1, <1>5 DEF ReadTurn, Refused, Open, CallOK
  <2>2. PICK x : x = [c EXCEPT !.seen = [status |-> turn[t].status, text |-> turn[t].text]]
    OBVIOUS
  <2>3. call' = (call \ {c}) \cup {x}
    BY <1>1, <1>5, <2>2 DEF ReadTurn
  <2>4. /\ x.by = c.by /\ x.turn = t /\ x.kind = c.kind /\ x.delta = c.delta
        /\ x.seen.status = "in_progress" /\ x.seen.text = turn[t].text
    BY <1>0, <1>1, <2>1, <2>2 DEF Call
  <2>5. x \in Call
    <3>1. [status |-> turn[t].status, text |-> turn[t].text]
             \in [status : Open \cup {"none"}, text : Seq(1 .. MaxChunks)]
      BY <1>2, <2>1 DEF Turn, Open
    <3> QED BY <1>0, <2>2, <3>1 DEF Call
  <2>6. x.seen # NotRead
    BY <2>4 DEF NotRead
  <2>7. ChatTypes'
    BY <1>0, <2>1, <2>3, <2>5 DEF ChatTypes
  <2>8. ASSUME NEW d \in call' PROVE CallOK(d)'
    <3>1. CASE d = x
      BY <1>0, <1>1, <1>2, <2>1, <2>4, <2>6, <3>1 DEF CallOK, Final, TurnOK
    <3>2. CASE d \in call
      BY <1>0, <2>1, <3>2 DEF CallOK
    <3> QED BY <2>3, <3>1, <3>2
  <2>9. ASSUME NEW d \in call', NEW e \in call' PROVE PairOK(d, e)'
    <3>1. PICK d0 \in call : /\ d = d0 <=> d0 # c
                             /\ d0.turn = d.turn /\ d0.kind = d.kind /\ d0.delta = d.delta
                             /\ d0.by = d.by /\ (d0 = c => d = x) /\ (d0 # c => d = d0)
      BY <1>0, <1>1, <2>1, <2>3, <2>4, <2>6
    <3>2. PICK e0 \in call : /\ e = e0 <=> e0 # c
                             /\ e0.turn = e.turn /\ e0.kind = e.kind /\ e0.delta = e.delta
                             /\ e0.by = e.by /\ (e0 = c => e = x) /\ (e0 # c => e = e0)
      BY <1>0, <1>1, <2>1, <2>3, <2>4, <2>6
    <3>3. d # e => d0 # e0
      BY <3>1, <3>2
    <3>4. PairOK(d0, e0) /\ CallOK(d0)
      BY <1>0
    <3>5. d.turn = e.turn => d.delta \notin Has(e.seen.text)
      <4>1. CASE e0 # c
        BY <3>1, <3>2, <3>4, <4>1 DEF PairOK
      <4>2. CASE e0 = c
        BY <1>1, <2>1, <2>4, <3>1, <3>2, <3>4, <4>2 DEF CallOK
      <4> QED BY <4>1, <4>2
    <3> QED BY <3>1, <3>2, <3>3, <3>4, <3>5 DEF PairOK, Has, Final
  <2>10. ASSUME NEW o \in Bots PROVE PollerOK(o)'
    <3>1. PollerOK(o)
      BY DEF ChatInv
    <3>2. (\E d \in call : d.by = o) => \E d \in call' : d.by = o
      BY <2>3, <2>4
    <3> QED BY <2>1, <3>1, <3>2 DEF PollerOK
  <2>11. ASSUME NEW k \in DOMAIN turn' PROVE TurnOK(k)'
    BY <2>1 DEF ChatInv, TurnOK
  <2> QED BY <2>7, <2>8, <2>9, <2>10, <2>11 DEF ChatInv
<1>6. CASE WriteTurn(c)
  <2>1. /\ c.seen # NotRead /\ Answered(c)
        /\ UNCHANGED <<conv, question, stream, chatFaults>>
    BY <1>6 DEF WriteTurn
  <2>2. CASE t \notin DOMAIN turn
    BY <1>1, <1>6, <2>1, <2>2, AnsweredNothing DEF WriteTurn
  <2>3. CASE t \in DOMAIN turn /\ c.kind = "chunk"
    <3>1. /\ c.seen.status = "in_progress" /\ GoodText(c.seen.text, stream[t].sent)
          /\ c.delta \notin Has(c.seen.text) /\ c.delta \in 1 .. MaxChunks
          /\ c.delta <= stream[t].sent /\ stream[t].sent \in Nat
          /\ turn[t].status # "pending"
          /\ stream[t].whole => /\ c.delta = stream[t].sent
                                /\ c.seen.text = Upto(stream[t].sent - 1)
      <4>1. c.delta \in 0 .. MaxChunks
        BY <1>0 DEF Call
      <4> QED BY <1>0, <1>1, <1>2, <2>1, <2>3, <4>1 DEF CallOK, PairOK
    <3>2. PICK r : r = [turn[t] EXCEPT !.text = Append(c.seen.text, c.delta)]
      OBVIOUS
    <3>3. turn' = [turn EXCEPT ![t] = r]
      BY <1>1, <1>2, <1>6, <2>3, <3>1, <3>2 DEF WriteTurn, Appended, Turn
    <3>4. /\ GoodText(Append(c.seen.text, c.delta), stream[t].sent)
          /\ Has(Append(c.seen.text, c.delta)) = Has(c.seen.text) \cup {c.delta}
      BY <1>0, <3>1, GoodAppend
    <3>5. r \in Turn /\ r.text = Append(c.seen.text, c.delta) /\ r.status = turn[t].status
      <4>1. Append(c.seen.text, c.delta) \in Seq(1 .. MaxChunks)
        BY <3>4 DEF GoodText
      <4> QED BY <1>2, <2>3, <3>2, <4>1 DEF Turn
    <3>6. stream[t].whole => r.text = Upto(stream[t].sent)
      <4>1. SUFFICES ASSUME stream[t].whole PROVE r.text = Upto(stream[t].sent)
        OBVIOUS
      <4>2. PICK n \in Nat : n = stream[t].sent
        BY <3>1
      <4>3. n >= 1 /\ c.seen.text = Upto(n - 1) /\ c.delta = n
        BY <3>1, <4>1, <4>2
      <4> QED BY <3>5, <4>2, <4>3, PutAfter
    <3>7. ASSUME NEW d \in call, d.turn = t, d # c PROVE d.delta \notin Has(r.text)
      <4>1. PairOK(d, c) /\ CallOK(d)
        BY <1>0
      <4> QED BY <1>1, <3>1, <3>4, <3>5, <3>7, <4>1 DEF PairOK
    <3>8. ~Final(c)
      BY <2>3 DEF Final
    <3>9. GoodText(r.text, stream[t].sent) /\ r.status # "pending"
      BY <3>1, <3>4, <3>5
    <3>10. \A d \in call : d.turn = t /\ d # c => d.delta \notin Has(r.text)
      BY <3>7
    <3>11. (Final(c) => r.status \in Done) /\ (~Final(c) => r.status = turn[t].status)
      BY <3>5, <3>8
    <3>12. r \in Turn /\ t \in DOMAIN turn
      BY <2>3, <3>5
    <3>13. RowIs(t, r)
      BY <1>0, <3>3, <3>12 DEF RowIs, ChatTypes, IsTable
    <3> QED BY <1>1, <2>1, <3>6, <3>9, <3>10, <3>11, <3>12, <3>13, TurnWritten
  <2>4. CASE t \in DOMAIN turn /\ c.kind # "chunk"
    <3>1. Final(c) /\ turn[t].status = "in_progress" /\ GoodText(turn[t].text, stream[t].sent)
      BY <1>0, <1>1, <1>2, <2>4 DEF Final, CallOK, TurnOK
    <3>2. PICK s \in Done : s = IF c.kind = "error" THEN "failed" ELSE "completed"
      BY DEF Done
    <3>3. PICK x : x = IF c.kind = "content" THEN <<c.delta>> ELSE turn[t].text
      OBVIOUS
    <3>4. PICK r : r = [turn[t] EXCEPT !.status = s, !.text = x]
      OBVIOUS
    <3>5. turn' = [turn EXCEPT ![t] = r]
      BY <1>1, <1>2, <1>6, <2>4, <3>2, <3>3, <3>4 DEF WriteTurn, Completed, Turn
    <3>6. c.kind = "content" => /\ x = <<1>> /\ stream[t].sent = 1 /\ Has(x) = {1}
                                /\ GoodText(x, 1) /\ x = Upto(1) /\ c.delta = 1
      <4>1. SUFFICES ASSUME c.kind = "content"
                     PROVE  /\ x = <<1>> /\ stream[t].sent = 1 /\ Has(x) = {1}
                            /\ GoodText(x, 1) /\ x = Upto(1) /\ c.delta = 1
        OBVIOUS
      <4>2. x = <<1>> /\ stream[t].sent = 1 /\ 1 \in 1 .. MaxChunks /\ c.delta = 1
        BY <1>0, <1>1, <1>2, <3>3, <4>1 DEF CallOK
      <4>3. <<1>> = Append(<<>>, 1) /\ <<>> = Upto(0)
        BY DEF Upto
      <4>4. x = Upto(1)
        BY <4>2, <4>3, PutAfter
      <4>5. GoodText(x, 1) /\ Has(x) = {1}
        BY <4>2 DEF GoodText, Has
      <4> QED BY <4>2, <4>4, <4>5
    <3>7. GoodText(x, stream[t].sent)
      BY <3>1, <3>3, <3>6
    <3>8. r \in Turn /\ r.text = x /\ r.status = s
      BY <1>2, <2>4, <3>2, <3>4, <3>7 DEF Turn, Done, GoodText
    <3>9. stream[t].whole /\ r.status # "failed" => r.text = Upto(stream[t].sent)
      <4>1. c.kind \in {"keep", "content", "error"}
        BY <1>0, <2>4 DEF Call
      <4>2. c.kind = "keep" /\ stream[t].whole => x = Upto(stream[t].sent)
        BY <1>0, <1>1, <2>4, <3>3 DEF CallOK
      <4> QED BY <3>2, <3>6, <3>8, <4>1, <4>2
    <3>10. ASSUME NEW d \in call, d.turn = t, d # c PROVE d.delta \notin Has(r.text)
      <4>1. PairOK(d, c) /\ CallOK(d) /\ d \in Call
        BY <1>0, ChatMembers
      <4>2. CASE c.kind # "content"
        BY <1>1, <2>4, <3>3, <3>8, <3>10, <4>1, <4>2 DEF CallOK
      <4>3. CASE c.kind = "content"
        BY <1>1, <3>1, <3>6, <3>8, <3>10, <4>1, <4>3 DEF CallOK, PairOK, Final
      <4> QED BY <4>2, <4>3
    <3>11. r.status # "pending" /\ r.status \in Done
      BY <3>2, <3>8 DEF Done
    <3>12. \A d \in call : d.turn = t /\ d # c => d.delta \notin Has(r.text)
      BY <3>10
    <3>13. (Final(c) => r.status \in Done) /\ (~Final(c) => r.status = turn[t].status)
      BY <3>1, <3>11
    <3>14. r \in Turn /\ t \in DOMAIN turn /\ GoodText(r.text, stream[t].sent)
      BY <2>4, <3>7, <3>8
    <3>15. RowIs(t, r)
      BY <1>0, <3>5, <3>14 DEF RowIs, ChatTypes, IsTable
    <3> QED BY <1>1, <2>1, <3>9, <3>11, <3>12, <3>13, <3>14, <3>15, TurnWritten
  <2> QED BY <2>2, <2>3, <2>4
<1> QED BY <1>4, <1>5, <1>6

\* So it holds throughout.
LEMMA ChatHolds == ChatSpec => []ChatInv
<1>1. ChatInit => ChatInv
  <2> SUFFICES ASSUME ChatInit PROVE ChatInv
    OBVIOUS
  <2>1. /\ conv = Convs /\ DOMAIN question = {} /\ DOMAIN turn = {} /\ DOMAIN stream = {}
        /\ poller = [b \in Bots |-> IdlePoller] /\ call = {} /\ chatFaults = 0
    BY DEF ChatInit, EmptyTable
  <2>2. ChatTypes
    <3>1. IdlePoller \in Poller /\ MaxChatFaults \in Nat
      BY ChatAssumption DEF IdlePoller, Poller
    <3>2. /\ IsTable(question, Questions, Question) /\ IsTable(turn, Turns, Turn)
          /\ IsTable(stream, Turns, [sent : 0 .. MaxChunks, whole : BOOLEAN])
      BY <2>1 DEF ChatInit, EmptyTable, IsTable
    <3> QED BY <2>1, <3>1, <3>2 DEF ChatTypes
  <2>3. \A b \in Bots : PollerOK(b)
    BY <2>1 DEF PollerOK, IdlePoller
  <2> QED BY <2>1, <2>2, <2>3 DEF ChatInv
<1>2. ChatInv /\ [ChatNext]_chatVars => ChatInv'
  <2> SUFFICES ASSUME ChatInv, [ChatNext]_chatVars PROVE ChatInv'
    OBVIOUS
  <2>1. CASE UNCHANGED chatVars
    <3>1. ChatTypes /\ ChatTypes'
      BY <2>1 DEF ChatInv, ChatTypes, chatVars
    <3> QED BY <2>1, <3>1, UsersAsk DEF chatVars, ChatTypes
  <2> QED BY <2>1, ChatUserStep, PollerStep, ServerStep DEF ChatNext, ServerNext
<1> QED BY <1>1, <1>2, PTL DEF ChatSpec

\* A completed reply is its stream, whole and in order, unless a call of it was
\* given up, and no chunk is ever in a reply twice.
THEOREM RepliesIntact == ChatSpec => []StreamIntact
<1>1. ChatInv => StreamIntact
  BY DEF ChatInv, TurnOK, GoodText, Upto, StreamIntact
<1> QED BY <1>1, ChatHolds, PTL

\* Conversations, turns, calls and pollers keep their types (main.py, the team
\* chat's routes; the bots' pollers).
THEOREM ChatTypesOK == ChatSpec => []ChatTypeOK
<1>1. ASSUME ChatInv PROVE ChatTypeOK
  <2>1. ASSUME NEW b \in Bots
        PROVE  /\ poller[b].pc = "idle" <=> poller[b].turn = NoTurn
               /\ poller[b].turn \in DOMAIN stream \cup {NoTurn}
               /\ LET mine == {c \in call : c.by = b}
                  IN  IF poller[b].pc \in {"waiting", "ending"}
                      THEN Cardinality(mine) = 1 ELSE mine = {}
    <3>1. PollerOK(b) /\ \A c \in call : CallOK(c)
      BY <1>1 DEF ChatInv
    <3>2. /\ poller[b].pc = "idle" <=> poller[b].turn = NoTurn
          /\ poller[b].turn \in DOMAIN stream \cup {NoTurn}
      BY <3>1 DEF PollerOK
    <3>3. CASE poller[b].pc \in {"waiting", "ending"}
      <4>1. PICK c \in call : c.by = b
        BY <3>1, <3>3 DEF PollerOK
      <4>2. ASSUME NEW d \in call, d.by = b PROVE d = c
        <5>0. CallOK(c) /\ CallOK(d)
          BY <3>1
        <5>1. d.turn = c.turn
          BY <4>1, <4>2, <5>0 DEF CallOK
        <5> QED BY <1>1, <4>1, <4>2, <5>1, NobodyAssumption DEF ChatInv, PairOK
      <4>3. {d \in call : d.by = b} = {c}
        BY <4>1, <4>2
      <4> QED BY <3>2, <3>3, <4>3, FS_Singleton
    <3>4. CASE poller[b].pc \notin {"waiting", "ending"}
      <4>1. {d \in call : d.by = b} = {}
        <5>1. ASSUME NEW d \in call, d.by = b PROVE FALSE
          <6>1. CallOK(d)
            BY <3>1
          <6> QED BY <3>4, <5>1, <6>1 DEF CallOK
        <5> QED BY <5>1
      <4> QED BY <3>2, <3>4, <4>1
    <3> QED BY <3>3, <3>4
  <2>2. OneBotPerTurn
    BY <1>1 DEF ChatInv, PollerOK, OneBotPerTurn
  <2>3. ChatTypes
    BY <1>1 DEF ChatInv
  <2> QED BY <2>1, <2>2, <2>3 DEF ChatTypeOK, ChatTypes
<1> QED BY <1>1, ChatHolds, PTL

\* What a step does to a row that it leaves in its table.
LEMMA RowsKept ==
    ASSUME ChatInv, ChatNext, NEW t \in DOMAIN turn \cap DOMAIN turn'
    PROVE  \/ turn'[t] = turn[t]
           \/ turn[t].status = "pending"
           \/ turn[t].status = "in_progress" /\ (turn'[t].status # "in_progress" =>
                 \E c \in call : c.turn = t /\ Final(c) /\ turn'[t].status \in Done)
           \/ turn[t].status = turn'[t].status /\ ~stream[t].whole
<1>0. /\ \A c \in call : CallOK(c) /\ c \in Call
      /\ DOMAIN turn \subseteq DOMAIN stream /\ turn[t] \in Turn
  BY ChatMembers DEF ChatInv, ChatTypes
<1>1. CASE ChatUserNext
  <2>1. ASSUME NEW q, NEW c, NEW N, NEW new \in [N -> Agents], Posted(q, c, new)
        PROVE  turn'[t] = turn[t]
    BY <1>0, <2>1 DEF Posted, FreshTurns
  <2>2. ASSUME NEW c \in Convs, NEW q, NEW k, PostToThread(c, q, k)
        PROVE  turn'[t] = turn[t]
    BY <1>0, <2>2 DEF PostToThread, Posted, FreshTurns
  <2>3. ASSUME NEW q, Route(q) PROVE turn'[t] = turn[t]
    BY <2>1, <2>3 DEF Route
  <2> QED BY <1>1, <2>2, <2>3 DEF ChatUserNext, DeleteConv, Removed, PostToTeam,
                                  RouteError, RouteDies
<1>2. CASE \E b \in Bots : PollerNext(b)
  <2>1. ASSUME NEW k, NEW a, ClaimedTurn(a, k)
        PROVE  turn'[t] = turn[t] \/ turn[t].status = "pending"
    BY <2>1 DEF ClaimedTurn, ClaimableTurn
  <2> QED BY <1>2, <2>1 DEF PollerNext, ClaimTurn, ClaimTurnLost, Yield, Reply, BotDies,
                            GiveUp
<1>3. ASSUME NEW c \in call, WriteTurn(c), c.turn = t
      PROVE  \/ turn[t].status = "in_progress" /\ (turn'[t].status # "in_progress" =>
                   Final(c) /\ turn'[t].status \in Done)
             \/ turn[t].status = turn'[t].status /\ ~stream[t].whole
  <2>1. CallOK(c) /\ c.seen # NotRead
    BY <1>0, <1>3 DEF WriteTurn
  <2>2. CASE c.kind = "chunk"
    <3>1. turn'[t].status = turn[t].status
      BY <1>0, <1>3, <2>1, <2>2 DEF WriteTurn, Appended, CallOK, Turn
    <3>2. c.by \in Bots => turn[t].status = "in_progress"
      <4>1. c.by \in Bots => PollerOK(c.by)
        BY DEF ChatInv
      <4> QED BY <1>3, <2>1, <4>1 DEF CallOK, PollerOK
    <3>3. c.by \notin Bots => ~stream[t].whole
      BY <1>0, <1>3, <2>1 DEF CallOK, Call
    <3> QED BY <3>1, <3>2, <3>3
  <2>3. CASE c.kind # "chunk"
    <3>1. Final(c) /\ turn[t].status = "in_progress"
      BY <1>3, <2>1, <2>3 DEF CallOK, Final
    <3>2. turn' = Completed(c)
      BY <1>3, <2>3 DEF WriteTurn
    <3>3. turn'[t].status \in Done
      BY <1>0, <1>3, <3>2 DEF Completed, Turn, Done
    <3> QED BY <3>1, <3>3
  <2> QED BY <2>2, <2>3
<1>4. ASSUME NEW c \in call, Refuse(c) \/ ReadTurn(c) \/ (WriteTurn(c) /\ c.turn # t)
      PROVE  turn'[t] = turn[t]
  BY <1>4 DEF Refuse, ReadTurn, WriteTurn, Appended, Completed
<1> QED BY <1>1, <1>2, <1>3, <1>4 DEF ChatNext, ServerNext

\* A completed or failed turn keeps its status, and its text unless a call of
\* it was given up.
THEOREM FinalTurnsStay == ChatSpec => FinalStays
<1>1. ASSUME ChatInv, [ChatNext]_chatVars
      PROVE  [\A t \in DOMAIN turn \cap DOMAIN turn' :
                 turn[t].status \in Done =>
                     /\ turn'[t].status = turn[t].status
                     /\ stream[t].whole => turn'[t].text = turn[t].text]_chatVars
  <2>1. CASE UNCHANGED chatVars
    BY <2>1
  <2>2. CASE ChatNext
    BY <1>1, <2>2, RowsKept DEF Done
  <2> QED BY <1>1, <2>1, <2>2
<1> QED BY <1>1, ChatHolds, PTL DEF ChatSpec, FinalStays

\* What makes no turn but those of X stuck.
LEMMA StuckOnly ==
    ASSUME NEW X,
           \A k \in DOMAIN turn' \ X : turn'[k].status = "in_progress" =>
              /\ k \in DOMAIN turn /\ turn[k].status = "in_progress"
              /\ \A b \in Bots : poller[b].turn = k => poller'[b].turn = k
              /\ \A c \in call : c.turn = k /\ c.kind # "chunk" =>
                    \E d \in call' : d.turn = k /\ d.kind # "chunk"
    PROVE  Stuck' \subseteq Stuck \cup X
BY DEF Stuck

\* A step of the bots or the server leaves at most one turn stuck, with a fault.
LEMMA StuckStep ==
    ASSUME ChatInv, ServerNext \/ \E b \in Bots : PollerNext(b)
    PROVE  /\ question' = question
           /\ \/ Stuck' \subseteq Stuck /\ chatFaults' = chatFaults
              \/ chatFaults' = chatFaults + 1 /\ \E x : Stuck' \subseteq Stuck \cup {x}
<1>0. /\ \A c \in call : CallOK(c) /\ c \in Call
      /\ DOMAIN turn \subseteq DOMAIN stream
      /\ \A b \in Bots : PollerOK(b) /\ poller[b] \in Poller
      /\ \A t \in DOMAIN turn : turn[t] \in Turn
      /\ poller \in [Bots -> Poller]
  BY ChatMembers DEF ChatInv, ChatTypes
<1>1. question' = question
  BY DEF ServerNext, PollerNext, Refuse, ReadTurn, WriteTurn, ClaimTurn,
         ClaimTurnLost, Yield, Reply, BotDies, GiveUp
<1>2. ASSUME NEW b \in Bots, NEW t \in Turns, ClaimTurn(b, t)
      PROVE  Stuck' \subseteq Stuck /\ chatFaults' = chatFaults
  <2>1. /\ poller[b].pc = "idle" /\ poller'[b].turn = t /\ call' = call
        /\ \A o \in Bots \ {b} : poller'[o] = poller[o]
        /\ DOMAIN turn' = DOMAIN turn /\ \A k \in DOMAIN turn \ {t} : turn'[k] = turn[k]
    BY <1>0, <1>2 DEF ClaimTurn, ClaimedTurn
  <2>2. \A k \in DOMAIN turn' : k # NoTurn
    BY <1>0, <2>1, ChatMembers DEF ChatInv, NoTurn
  <2>3. Stuck' \subseteq Stuck \cup {t}
    <3>1. \A k \in DOMAIN turn : poller[b].turn # k
      BY <1>0, <2>1, <2>2 DEF PollerOK
    <3> QED BY <2>1, <3>1, StuckOnly
  <2>4. t \notin Stuck'
    BY <2>1 DEF Stuck
  <2> QED BY <1>2, <2>3, <2>4 DEF ClaimTurn
<1>3. ASSUME NEW b \in Bots, NEW t \in Turns, ClaimTurnLost(b, t)
      PROVE  Stuck' \subseteq Stuck \cup {t} /\ chatFaults' = chatFaults + 1
  <2>1. /\ poller' = poller /\ call' = call
        /\ DOMAIN turn' = DOMAIN turn /\ \A k \in DOMAIN turn \ {t} : turn'[k] = turn[k]
    BY <1>3 DEF ClaimTurnLost, ClaimedTurn
  <2>2. Stuck' \subseteq Stuck \cup {t}
    BY <2>1, StuckOnly
  <2> QED BY <1>3, <2>2 DEF ClaimTurnLost, ChatFault
<1>4. ASSUME NEW b \in Bots, Yield(b) \/ Reply(b)
      PROVE  Stuck' \subseteq Stuck /\ chatFaults' = chatFaults
  <2>1. /\ \E pc : poller' = [poller EXCEPT ![b].pc = pc]
        /\ turn' = turn /\ call \subseteq call'
    BY <1>4 DEF Yield, Reply
  <2>2. \A o \in Bots : poller'[o].turn = poller[o].turn
    BY <1>0, <2>1 DEF Poller
  <2>3. Stuck' \subseteq Stuck \cup {}
    BY <2>1, <2>2, StuckOnly
  <2> QED BY <1>4, <2>3 DEF Yield, Reply
<1>5. ASSUME NEW b \in Bots, BotDies(b)
      PROVE  Stuck' \subseteq Stuck \cup {poller[b].turn} /\ chatFaults' = chatFaults + 1
  <2>0. PICK t : t = poller[b].turn
    OBVIOUS
  <2>1. (\A o \in Bots \ {b} : poller'[o] = poller[o]) /\ turn' = turn
    BY <1>0, <1>5 DEF BotDies
  <2>2. ASSUME NEW c \in call PROVE \E d \in call' : d.turn = c.turn /\ d.kind = c.kind
    <3>1. PICK d : d = IF c.by = b THEN [c EXCEPT !.by = Nobody] ELSE c
      OBVIOUS
    <3>2. d \in call'
      BY <1>5, <3>1 DEF BotDies
    <3>3. d.turn = c.turn /\ d.kind = c.kind
      BY <1>0, <3>1 DEF Call
    <3> QED BY <3>2, <3>3
  <2>3. Stuck' \subseteq Stuck \cup {t}
    <3>1. ASSUME NEW k \in DOMAIN turn' \ {t}
          PROVE  /\ \A o \in Bots : poller[o].turn = k => poller'[o].turn = k
                 /\ \A c \in call : c.turn = k /\ c.kind # "chunk" =>
                       \E d \in call' : d.turn = k /\ d.kind # "chunk"
      BY <2>0, <2>1, <2>2
    <3> QED BY <2>1, <3>1, StuckOnly
  <2> QED BY <1>5, <2>0, <2>3 DEF BotDies, ChatFault
<1>6. ASSUME NEW b \in Bots, NEW c \in call, GiveUp(b, c)
      PROVE  Stuck' \subseteq Stuck \cup {c.turn} /\ chatFaults' = chatFaults + 1
  <2>1. /\ \A o \in Bots \ {b} : poller'[o] = poller[o]
        /\ c.by = b /\ call \ {c} \subseteq call' /\ turn' = turn
    BY <1>0, <1>6 DEF GiveUp
  <2>2. poller[b].turn = c.turn
    <3>1. CallOK(c)
      BY <1>0
    <3> QED BY <2>1, <3>1 DEF CallOK
  <2>3. PICK t : t = c.turn
    OBVIOUS
  <2>4. Stuck' \subseteq Stuck \cup {t}
    <3>1. ASSUME NEW k \in DOMAIN turn' \ {t}
          PROVE  /\ \A o \in Bots : poller[o].turn = k => poller'[o].turn = k
                 /\ \A d \in call : d.turn = k => d \in call'
      BY <2>1, <2>2, <2>3
    <3> QED BY <2>1, <3>1, StuckOnly
  <2> QED BY <1>6, <2>3, <2>4 DEF GiveUp, ChatFault
<1>7. ASSUME NEW c \in call, ReadTurn(c)
      PROVE  Stuck' \subseteq Stuck /\ chatFaults' = chatFaults
  <2>1. PICK x : x = [c EXCEPT !.seen = [status |-> turn[c.turn].status,
                                         text |-> turn[c.turn].text]]
    OBVIOUS
  <2>2. call' = (call \ {c}) \cup {x} /\ turn' = turn /\ poller' = poller
    BY <1>7, <2>1 DEF ReadTurn
  <2>3. x.turn = c.turn /\ x.kind = c.kind
    BY <1>0, <2>1 DEF Call
  <2>4. Stuck' \subseteq Stuck \cup {}
    BY <2>2, <2>3, StuckOnly
  <2> QED BY <1>7, <2>4 DEF ReadTurn
<1>8. ASSUME NEW c \in call, Refuse(c) \/ WriteTurn(c)
      PROVE  Stuck' \subseteq Stuck /\ chatFaults' = chatFaults
  <2>1. /\ Answered(c) /\ DOMAIN turn' = DOMAIN turn /\ chatFaults' = chatFaults
    BY <1>8 DEF Refuse, WriteTurn, Appended, Completed
  <2>2. ASSUME NEW k \in DOMAIN turn', turn'[k].status = "in_progress"
        PROVE  /\ k \in DOMAIN turn /\ turn[k].status = "in_progress"
               /\ c.turn = k => ~Final(c)
    <3>1. k \in DOMAIN turn /\ turn[k] \in Turn /\ CallOK(c)
      BY <1>0, <2>1, <2>2
    <3>2. CASE c.turn # k \/ turn' = turn
      <4>1. turn'[k] = turn[k]
        BY <1>8, <3>1, <3>2 DEF Refuse, WriteTurn, Appended, Completed
      <4>2. c.turn = k => ~Final(c)
        BY <1>8, <2>2, <3>1, <3>2, <4>1 DEF Refuse, Refused, Open, WriteTurn, Completed,
           Final, Turn
      <4> QED BY <2>2, <3>1, <4>1, <4>2
    <3>3. CASE c.turn = k /\ WriteTurn(c) /\ c.kind = "chunk"
      <4>1. c.seen.status = "in_progress"
        BY <3>1, <3>3 DEF CallOK, WriteTurn
      <4>2. turn'[k].status = turn[k].status
        BY <3>1, <3>3, <4>1 DEF WriteTurn, Appended, Turn
      <4> QED BY <2>2, <3>1, <3>3, <4>2 DEF Final
    <3>4. CASE c.turn = k /\ WriteTurn(c) /\ c.kind # "chunk"
      <4>1. turn' = Completed(c)
        BY <3>1, <3>4 DEF WriteTurn
      <4>2. turn'[k].status \in {"failed", "completed"}
        BY <3>1, <3>4, <4>1 DEF Completed, Turn
      <4> QED BY <2>2, <4>2
    <3> QED BY <1>8, <3>2, <3>3, <3>4 DEF Refuse
  <2>3. ASSUME NEW k \in DOMAIN turn', turn'[k].status = "in_progress",
               NEW b \in Bots, poller[b].turn = k
        PROVE  poller'[b].turn = k
    <3>1. c.turn = k => ~Final(c)
      BY <2>2, <2>3
    <3>2. c.by = b => poller[b].turn = c.turn
      <4>1. CallOK(c)
        BY <1>0
      <4> QED BY <4>1 DEF CallOK
    <3>3. CASE c.by = b
      <4>1. poller'[b] = [pc |-> "replying", turn |-> c.turn]
        BY <2>1, <2>3, <3>1, <3>2, <3>3, AnsweredFacts
      <4> QED BY <2>3, <3>2, <3>3, <4>1
    <3>4. CASE c.by # b
      BY <2>1, <2>3, <3>4 DEF Answered
    <3> QED BY <3>3, <3>4
  <2>4. Stuck' \subseteq Stuck \cup {}
    BY <2>1, <2>2, <2>3, StuckOnly DEF Answered, Final
  <2> QED BY <2>1, <2>4
<1> QED BY <1>1, <1>2, <1>3, <1>4, <1>5, <1>6, <1>7, <1>8 DEF ServerNext, PollerNext

\* A step of the users leaves at most one question silent, with a fault.
LEMMA SilentStep ==
    ASSUME ChatInv, ChatUserNext
    PROVE  /\ Stuck' \subseteq Stuck
           /\ \/ Silent' \subseteq Silent /\ chatFaults' = chatFaults
              \/ chatFaults' = chatFaults + 1 /\ \E x : Silent' \subseteq Silent \cup {x}
<1>0. /\ DOMAIN turn \subseteq DOMAIN stream /\ IsTable(question, Questions, Question)
  BY DEF ChatInv, ChatTypes
<1>1. ASSUME NEW q, NEW c, NEW N, NEW new \in [N -> Agents], Posted(q, c, new),
             UNCHANGED <<poller, call>>
      PROVE  Stuck' \subseteq Stuck
  <2>1. \A k \in DOMAIN turn' : \/ k \in DOMAIN turn /\ turn'[k] = turn[k]
                                \/ turn'[k].status = "pending"
    BY <1>0, <1>1 DEF Posted, FreshTurns, NewTurn
  <2>2. Stuck' \subseteq Stuck \cup {}
    BY <1>1, <2>1, StuckOnly
  <2> QED BY <2>2
<1>2. ASSUME NEW c \in Convs, DeleteConv(c)
      PROVE  Stuck' \subseteq Stuck /\ Silent' \subseteq Silent /\ chatFaults' = chatFaults
  BY <1>2 DEF DeleteConv, Removed, Stuck, Silent
<1>3. ASSUME NEW c \in Convs, NEW q \in Questions, NEW s \in {"routing", "routed"},
             question' = Inserted(question, q, [conv |-> c, state |-> s])
      PROVE  Silent' \subseteq Silent
  BY <1>3 DEF Inserted, Silent
<1>4. ASSUME NEW q \in Questions, Route(q) \/ RouteError(q) \/ RouteDies(q)
      PROVE  /\ Silent' \subseteq Silent \cup {q}
             /\ Route(q) \/ RouteError(q) => Silent' \subseteq Silent
  <2>1. /\ q \in DOMAIN question /\ DOMAIN question' = DOMAIN question
        /\ \A p \in DOMAIN question \ {q} : question'[p] = question[p]
    BY <1>4 DEF Route, RouteError, RouteDies, Routing
  <2>2. Route(q) \/ RouteError(q) => question'[q].state \in {"routed", "error"}
    BY <1>0, <1>4, <2>1 DEF Route, RouteError, IsTable, Question
  <2> QED BY <2>1, <2>2 DEF Silent
<1>5. ASSUME NEW c \in Convs, NEW q \in Questions, PostToTeam(c, q)
      PROVE  Stuck' \subseteq Stuck /\ Silent' \subseteq Silent /\ chatFaults' = chatFaults
  BY <1>3, <1>5 DEF PostToTeam, Stuck
<1>6. ASSUME NEW c \in Convs, NEW q \in Questions, NEW t \in Turns, PostToThread(c, q, t)
      PROVE  Stuck' \subseteq Stuck /\ Silent' \subseteq Silent /\ chatFaults' = chatFaults
  <2>1. c \in Convs \ TeamConvs
    BY <1>6 DEF PostToThread
  <2>2. PICK new : new = [k \in {t} |-> AgentOf[c]] /\ Posted(q, c, new)
    BY <1>6 DEF PostToThread
  <2>3. new \in [{t} -> Agents]
    BY <2>1, <2>2, ChatAssumption
  <2>4. Stuck' \subseteq Stuck
    BY <1>1, <1>6, <2>2, <2>3 DEF PostToThread
  <2> QED BY <1>3, <1>6, <2>4 DEF PostToThread
<1>7. ASSUME NEW q \in Questions, Route(q)
      PROVE  Stuck' \subseteq Stuck /\ Silent' \subseteq Silent /\ chatFaults' = chatFaults
  <2>1. Silent' \subseteq Silent
    BY <1>4, <1>7
  <2>2. Stuck' \subseteq Stuck
    <3>1. UNCHANGED <<poller, call>>
      BY <1>7 DEF Route
    <3> QED BY <1>1, <1>7, <3>1 DEF Route
  <2> QED BY <1>7, <2>1, <2>2 DEF Route
<1>8. ASSUME NEW q \in Questions, RouteError(q)
      PROVE  Stuck' \subseteq Stuck /\ Silent' \subseteq Silent /\ chatFaults' = chatFaults
  <2>1. Silent' \subseteq Silent
    BY <1>4, <1>8
  <2> QED BY <1>8, <2>1 DEF RouteError, Stuck
<1>9. ASSUME NEW q \in Questions, RouteDies(q)
      PROVE  Stuck' \subseteq Stuck /\ Silent' \subseteq Silent \cup {q}
             /\ chatFaults' = chatFaults + 1
  BY <1>4, <1>9 DEF RouteDies, Routing, Stuck, ChatFault
<1> QED BY <1>2, <1>5, <1>6, <1>7, <1>8, <1>9 DEF ChatUserNext

\* A turn that is stuck, or whose answer was not whole, has its own fault.
Counted == /\ IsFiniteSet(Stuck) /\ IsFiniteSet(Silent)
           /\ Cardinality(Stuck) + Cardinality(Silent) <= chatFaults

\* A set that grows by one element at most counts one more at most.
LEMMA OneMoreTurn ==
    ASSUME NEW S, IsFiniteSet(S), NEW x, NEW T \in SUBSET (S \cup {x})
    PROVE  /\ IsFiniteSet(T) /\ Cardinality(T) \in Nat /\ Cardinality(S) \in Nat
           /\ Cardinality(T) <= Cardinality(S) + 1
<1>1. /\ IsFiniteSet(S \cup {x}) /\ Cardinality(S) \in Nat
      /\ Cardinality(S \cup {x}) = IF x \in S THEN Cardinality(S) ELSE Cardinality(S) + 1
  BY FS_AddElement, FS_CardinalityType
<1>2. IsFiniteSet(T) /\ Cardinality(T) <= Cardinality(S \cup {x}) /\ Cardinality(T) \in Nat
  BY <1>1, FS_Subset, FS_CardinalityType
<1> QED BY <1>1, <1>2

\* Every turn that stays in progress with nobody to end it, and every question
\* nobody answers, took a timeout, a death or a lost answer of its own.
THEOREM FaultsAccount == ChatSpec => []StuckPerFault
<1>1. ChatInit => Counted
  <2> SUFFICES ASSUME ChatInit PROVE Counted
    OBVIOUS
  <2>1. Stuck = {} /\ Silent = {} /\ chatFaults = 0
    BY DEF ChatInit, EmptyTable, Stuck, Silent
  <2> QED BY <2>1, FS_EmptySet DEF Counted
<1>2. ASSUME ChatInv, Counted, [ChatNext]_chatVars PROVE Counted'
  <2>1. PICK S : S = Stuck'
    OBVIOUS
  <2>2. PICK U : U = Silent'
    OBVIOUS
  <2>3. chatFaults \in Nat
    BY <1>2, ChatMembers DEF ChatInv, ChatTypes
  <2>4. \/ S \subseteq Stuck /\ U \subseteq Silent /\ chatFaults' = chatFaults
        \/ /\ chatFaults' = chatFaults + 1
           /\ \E x : \/ S \subseteq Stuck \cup {x} /\ U \subseteq Silent
                     \/ S \subseteq Stuck /\ U \subseteq Silent \cup {x}
    <3>1. CASE UNCHANGED chatVars
      BY <2>1, <2>2, <3>1 DEF chatVars, Stuck, Silent
    <3>2. CASE ChatUserNext
      BY <1>2, <2>1, <2>2, <3>2, SilentStep
    <3>3. CASE ServerNext \/ \E b \in Bots : PollerNext(b)
      <4>1. Silent' = Silent
        BY <1>2, <3>3, StuckStep DEF Silent
      <4> QED BY <1>2, <2>1, <2>2, <3>3, <4>1, StuckStep
    <3> QED BY <1>2, <3>1, <3>2, <3>3 DEF ChatNext
  <2>5. IsFiniteSet(S) /\ IsFiniteSet(U) /\ Cardinality(S) + Cardinality(U) <= chatFaults'
    <3>1. \A T \in SUBSET Stuck : /\ IsFiniteSet(T) /\ Cardinality(T) \in Nat
                                  /\ Cardinality(T) <= Cardinality(Stuck)
      BY <1>2, FS_Subset, FS_CardinalityType DEF Counted
    <3>2. \A T \in SUBSET Silent : /\ IsFiniteSet(T) /\ Cardinality(T) \in Nat
                                   /\ Cardinality(T) <= Cardinality(Silent)
      BY <1>2, FS_Subset, FS_CardinalityType DEF Counted
    <3>3. Cardinality(Stuck) \in Nat /\ Cardinality(Silent) \in Nat
      BY <1>2, FS_CardinalityType DEF Counted
    <3>4. CASE S \subseteq Stuck /\ U \subseteq Silent /\ chatFaults' = chatFaults
      BY <1>2, <2>3, <3>1, <3>2, <3>3, <3>4 DEF Counted
    <3>5. ASSUME NEW x, chatFaults' = chatFaults + 1,
                 S \subseteq Stuck \cup {x}, U \subseteq Silent
          PROVE  /\ IsFiniteSet(S) /\ IsFiniteSet(U)
                 /\ Cardinality(S) + Cardinality(U) <= chatFaults'
      <4>1. /\ IsFiniteSet(S) /\ Cardinality(S) \in Nat
            /\ Cardinality(S) <= Cardinality(Stuck) + 1
        BY <1>2, <3>5, OneMoreTurn DEF Counted
      <4> QED BY <1>2, <2>3, <3>2, <3>3, <3>5, <4>1 DEF Counted
    <3>6. ASSUME NEW x, chatFaults' = chatFaults + 1,
                 S \subseteq Stuck, U \subseteq Silent \cup {x}
          PROVE  /\ IsFiniteSet(S) /\ IsFiniteSet(U)
                 /\ Cardinality(S) + Cardinality(U) <= chatFaults'
      <4>1. /\ IsFiniteSet(U) /\ Cardinality(U) \in Nat
            /\ Cardinality(U) <= Cardinality(Silent) + 1
        BY <1>2, <3>6, OneMoreTurn DEF Counted
      <4> QED BY <1>2, <2>3, <3>1, <3>3, <3>6, <4>1 DEF Counted
    <3> QED BY <2>4, <3>4, <3>5, <3>6
  <2> QED BY <2>1, <2>2, <2>5 DEF Counted
<1>3. Counted => StuckPerFault
  BY DEF Counted, StuckPerFault
<1> QED BY <1>1, <1>2, <1>3, ChatHolds, PTL DEF ChatSpec

-----------------------------------------------------------------------------
(* The widget and the inbox. *)

\* Statuses of a conversation whose bot has handed it over.
Past == {"escalated", "operator_owned", "resolved"}

\* Who starts a conversation is alone in it; a status past open was seen in a
\* conversation that never is open again.
MessageOK(m) ==
    LET c == message[m].conv
    IN  /\ message[m].hop = "posting" /\ Seen(m) = "none" =>
              /\ wstatus[c] = "none"
              /\ \A o \in DOMAIN message \ {m} : message[o].conv # c
        /\ Seen(m) \in Past => wstatus[c] \in Past
        /\ message[m].hop # "answered" => message[m].replies = 0

\* A request is of a conversation that was started, and closes its escalations.
DeskOK(o) ==
    /\ \A c \in desk[o].conv : wstatus[c] # "none"
    /\ \A e \in desk[o].open : message[e].conv \in desk[o].conv

\* What every step of the widget keeps.
WidgetInv ==
    /\ WidgetTypeOK
    /\ \A m \in DOMAIN message : MessageOK(m)
    /\ \A o \in Operators : DeskOK(o)
    /\ inboxFaults = 0 => granted = Capabilities
    /\ NobodyForgotten

\* A message moves on, in the conversation it is of.
MessageMovesOn(m, r) ==
    /\ m \in DOMAIN message /\ DOMAIN message' = DOMAIN message
    /\ message' \in [DOMAIN message -> Message] /\ message'[m] = r
    /\ \A o \in DOMAIN message \ {m} : message'[o] = message[o]
    /\ r.conv = message[m].conv

\* A message that moves on leaves the inbox as it is.
LEMMA MessageMoves ==
    ASSUME WidgetInv, NEW m, NEW r, MessageMovesOn(m, r),
           r.hop = "answered" \/ r.replies = 0,
           r.hop # "posting",
           r.seen \in Past => wstatus[r.conv] \in Past,
           r.hop \in {"left", "lost"} => wstatus[r.conv] # "open" \/ inboxFaults' # 0,
           UNCHANGED <<wstatus, escalation, desk, granted>>,
           inboxFaults' = inboxFaults \/ InboxFault
    PROVE  WidgetInv'
<1>0. WidgetTypeOK /\ NobodyForgotten /\ inboxFaults \in 0 .. MaxInboxFaults
  BY DEF WidgetInv, WidgetTypeOK
<1>1. /\ DOMAIN message' = DOMAIN message /\ message'[m] = r /\ r.conv = message[m].conv
      /\ \A o \in DOMAIN message \ {m} : message'[o] = message[o]
      /\ \A o \in DOMAIN message : message'[o].conv = message[o].conv
      /\ DOMAIN escalation \subseteq DOMAIN message
  BY <1>0 DEF MessageMovesOn, WidgetTypeOK, IsTable
<1>2. inboxFaults' \in 0 .. MaxInboxFaults /\ (inboxFaults' = 0 => inboxFaults = 0)
  BY <1>0, InboxAssumption DEF InboxFault
<1>3. WidgetTypeOK'
  <2>1. IsTable(message', Messages, Message)
    BY <1>0 DEF MessageMovesOn, WidgetTypeOK, IsTable
  <2> QED BY <1>0, <1>1, <1>2, <2>1 DEF WidgetTypeOK
<1>4. ASSUME NEW o \in DOMAIN message' PROVE MessageOK(o)'
  <2>1. MessageOK(o)
    BY <1>1 DEF WidgetInv
  <2>2. CASE o = m
    BY <1>1, <2>2 DEF MessageOK, Seen
  <2>3. CASE o # m
    <3>1. message'[o] = message[o]
      BY <1>1, <2>3
    <3> QED BY <1>1, <2>1, <3>1 DEF MessageOK, Seen
  <2> QED BY <2>2, <2>3
<1>5. ASSUME NEW o \in Operators PROVE DeskOK(o)'
  <2>1. DeskOK(o) /\ desk[o].open \subseteq DOMAIN message
    BY <1>0, <1>1 DEF WidgetInv, WidgetTypeOK
  <2> QED BY <1>1, <2>1 DEF DeskOK
<1>6. NobodyForgotten'
  <2>1. \A c \in WConvs : OpenOf({c})' = OpenOf({c})
    BY <1>1 DEF OpenOf
  <2>2. ASSUME inboxFaults' = 0, NEW o \in DOMAIN message', message'[o].hop \in {"left", "lost"}
        PROVE  wstatus'[message'[o].conv] # "open"
    <3>1. CASE o = m
      BY <1>1, <2>2, <3>1
    <3>2. CASE o # m
      BY <1>0, <1>1, <1>2, <2>2, <3>2 DEF NobodyForgotten
    <3> QED BY <3>1, <3>2
  <2> QED BY <1>0, <2>1, <2>2 DEF NobodyForgotten
<1>7. inboxFaults' = 0 => granted' = Capabilities
  BY <1>2 DEF WidgetInv
<1> QED BY <1>3, <1>4, <1>5, <1>6, <1>7 DEF WidgetInv

\* The bot and the widget keep it.
LEMMA MessageStep ==
    ASSUME WidgetInv, NEW m \in Messages, MessageNext(m)
    PROVE  WidgetInv'
<1>0. /\ WidgetTypeOK /\ NobodyForgotten /\ inboxFaults \in 0 .. MaxInboxFaults
      /\ wstatus \in [WConvs -> Status]
  BY DEF WidgetInv, WidgetTypeOK
<1>1. m \in DOMAIN message => message[m] \in Message /\ MessageOK(m)
  BY <1>0 DEF WidgetInv, WidgetTypeOK, IsTable
<1>2. ASSUME NEW h, m \in DOMAIN message, h \in Hops \ {"answered", "posting"}, Goes(m, h),
             message[m].hop # "answered",
             h \in {"left", "lost"} => wstatus[message[m].conv] # "open" \/ inboxFaults' # 0,
             UNCHANGED <<wstatus, escalation, desk, granted>>,
             inboxFaults' = inboxFaults \/ InboxFault
      PROVE  WidgetInv'
  <2>1. PICK r : r = [message[m] EXCEPT !.hop = h, !.seen = Unread]
    OBVIOUS
  <2>2. r \in Message /\ r.hop = h /\ r.seen = Unread /\ r.conv = message[m].conv
        /\ r.replies = 0
    BY <1>1, <1>2, <2>1 DEF Message, MessageOK
  <2>3. message' = [message EXCEPT ![m] = r]
    BY <1>1, <1>2, <2>1 DEF Goes, Message
  <2>4. MessageMovesOn(m, r)
    BY <1>0, <1>2, <2>2, <2>3 DEF MessageMovesOn, WidgetTypeOK, IsTable
  <2>5. r.seen \notin Past
    BY <2>2 DEF Past, Unread
  <2> QED BY <1>2, <2>2, <2>4, <2>5, MessageMoves
<1>3. ASSUME NEW h, m \in DOMAIN message, h \in Hops \ {"answered", "posting", "left", "lost"},
             message[m].hop # "answered",
             message' = [message EXCEPT ![m].hop = h, ![m].seen = wstatus[message[m].conv]],
             UNCHANGED <<wstatus, escalation, desk, granted, inboxFaults>>
      PROVE  WidgetInv'
  <2>1. PICK r : r = [message[m] EXCEPT !.hop = h, !.seen = wstatus[message[m].conv]]
    OBVIOUS
  <2>2. /\ r \in Message /\ r.hop = h /\ r.seen = wstatus[message[m].conv]
        /\ r.conv = message[m].conv /\ r.replies = 0
    BY <1>0, <1>1, <1>3, <2>1 DEF Message, MessageOK
  <2>3. message' = [message EXCEPT ![m] = r]
    BY <1>1, <1>3, <2>1 DEF Message
  <2>4. MessageMovesOn(m, r)
    BY <1>0, <1>3, <2>2, <2>3 DEF MessageMovesOn, WidgetTypeOK, IsTable
  <2> QED BY <1>3, <2>2, <2>4, MessageMoves
<1>4. ASSUME NEW c \in WConvs, MessageRead(m, c) PROVE WidgetInv'
  <2>1. PICK r : r = [conv |-> c, hop |-> "posting", seen |-> wstatus[c], replies |-> 0]
    OBVIOUS
  <2>2. /\ DOMAIN message' = DOMAIN message \cup {m} /\ message'[m] = r
        /\ m \notin DOMAIN message
        /\ \A o \in DOMAIN message : message'[o] = message[o]
        /\ UNCHANGED <<wstatus, escalation, desk, granted, inboxFaults>>
        /\ wstatus[c] = "none" => \A o \in DOMAIN message : message[o].conv # c
    BY <1>4, <2>1 DEF MessageRead, Inserted
  <2>3. r \in Message
    BY <1>0, <2>1 DEF Message, Hops
  <2>4. WidgetTypeOK'
    <3>1. IsTable(message', Messages, Message)
      BY <1>0, <1>4, <2>2, <2>3 DEF MessageRead, Inserted, WidgetTypeOK, IsTable
    <3>2. IsTable(escalation', DOMAIN message', {"open", "closed"})
      BY <1>0, <2>2 DEF WidgetTypeOK, IsTable
    <3> QED BY <1>0, <2>2, <3>1, <3>2 DEF WidgetTypeOK
  <2>5. ASSUME NEW o \in DOMAIN message' PROVE MessageOK(o)'
    <3>1. CASE o = m
      BY <1>0, <2>1, <2>2, <3>1 DEF MessageOK, Seen, Past, Status
    <3>2. CASE o # m
      <4>1. MessageOK(o) /\ o \in DOMAIN message
        BY <2>2, <3>2 DEF WidgetInv
      <4>2. message[o].hop = "posting" /\ Seen(o) = "none" => r.conv # message[o].conv
        BY <2>1, <2>2, <4>1 DEF MessageOK
      <4> QED BY <2>2, <4>1, <4>2 DEF MessageOK, Seen
    <3> QED BY <3>1, <3>2
  <2>6. ASSUME NEW o \in Operators PROVE DeskOK(o)'
    <3>1. DeskOK(o) /\ desk[o].open \subseteq DOMAIN message
      BY <1>0 DEF WidgetInv, WidgetTypeOK, IsTable
    <3> QED BY <2>2, <3>1 DEF DeskOK
  <2>7. NobodyForgotten'
    <3>1. \A k \in WConvs : OpenOf({k})' = OpenOf({k})
      BY <1>0, <2>2 DEF OpenOf, WidgetTypeOK, IsTable
    <3> QED BY <1>0, <2>1, <2>2, <3>1 DEF NobodyForgotten
  <2> QED BY <2>2, <2>4, <2>5, <2>6, <2>7 DEF WidgetInv
<1>5. ASSUME MessageCommit(m) PROVE WidgetInv'
  <2>1. CASE Seen(m) # "none"
    <3>1. PICK h : h = IF Seen(m) = "operator_owned" THEN "left" ELSE "job"
      OBVIOUS
    <3>2. h = "left" => wstatus[message[m].conv] \in Past
      BY <1>1, <1>5, <3>1 DEF MessageOK, Past, MessageCommit, At
    <3>3. h \in Hops \ {"answered", "posting"} /\ (h = "lost" => FALSE)
      BY <3>1 DEF Hops, Endings
    <3> QED BY <1>2, <1>5, <2>1, <3>1, <3>2, <3>3 DEF MessageCommit, At, Past
  <2>2. CASE Seen(m) = "none"
    <3>1. PICK r : r = [message[m] EXCEPT !.hop = "job", !.seen = Unread]
      OBVIOUS
    <3>2. m \in DOMAIN message /\ message[m].hop = "posting" /\ Goes(m, "job")
      BY <1>5, <2>2 DEF MessageCommit, At
    <3>3. PICK c \in WConvs : c = message[m].conv
      BY <1>1, <3>2 DEF Message
    <3>4. /\ r \in Message /\ r.hop = "job" /\ r.seen = Unread /\ r.conv = c /\ r.replies = 0
      BY <1>1, <3>1, <3>2, <3>3 DEF Message, MessageOK, Hops
    <3>5. /\ wstatus[c] = "none"
          /\ \A o \in DOMAIN message \ {m} : message[o].conv # c
      BY <1>1, <2>2, <3>2, <3>3 DEF MessageOK
    <3>6. message' = [message EXCEPT ![m] = r]
      BY <1>1, <3>1, <3>2 DEF Goes, Message
    <3>7. /\ DOMAIN message' = DOMAIN message /\ message'[m] = r
          /\ \A o \in DOMAIN message \ {m} : message'[o] = message[o]
          /\ wstatus' = [wstatus EXCEPT ![c] = "open"]
          /\ UNCHANGED <<escalation, desk, granted, inboxFaults>>
      BY <1>5, <2>2, <3>2, <3>3, <3>6 DEF MessageCommit
    <3>8. WidgetTypeOK'
      <4>1. IsTable(message', Messages, Message)
        BY <1>0, <3>4, <3>6 DEF WidgetTypeOK, IsTable
      <4>2. wstatus' \in [WConvs -> Status]
        BY <1>0, <3>7 DEF Status
      <4> QED BY <1>0, <3>7, <4>1, <4>2 DEF WidgetTypeOK
    <3>9. ASSUME NEW o \in DOMAIN message' PROVE MessageOK(o)'
      <4>1. CASE o = m
        BY <3>4, <3>7, <4>1 DEF MessageOK, Seen, Past, Unread
      <4>2. CASE o # m
        <5>1. /\ MessageOK(o) /\ o \in DOMAIN message /\ message'[o] = message[o]
              /\ message[o].conv # c
          BY <3>5, <3>7, <4>2 DEF WidgetInv
        <5>2. wstatus'[message[o].conv] = wstatus[message[o].conv]
          BY <1>0, <3>7, <5>1
        <5> QED BY <3>4, <3>7, <5>1, <5>2 DEF MessageOK, Seen
      <4> QED BY <4>1, <4>2
    <3>10. ASSUME NEW o \in Operators PROVE DeskOK(o)'
      <4>1. DeskOK(o) /\ desk[o].open \subseteq DOMAIN message /\ desk[o].conv \subseteq WConvs
        BY <1>0 DEF WidgetInv, WidgetTypeOK, IsTable
      <4>2. \A e \in DOMAIN message : message'[e].conv = message[e].conv
        BY <3>3, <3>4, <3>7
      <4> QED BY <1>0, <3>7, <4>1, <4>2 DEF DeskOK
    <3>11. NobodyForgotten'
      <4>1. \A k \in WConvs : OpenOf({k})' = OpenOf({k})
        BY <1>0, <3>3, <3>4, <3>7 DEF OpenOf, WidgetTypeOK, IsTable
      <4>2. \A k \in WConvs : wstatus'[k] = "escalated" => wstatus[k] = "escalated"
        BY <1>0, <3>7
      <4>3. ASSUME inboxFaults' = 0, NEW o \in DOMAIN message',
                   message'[o].hop \in {"left", "lost"}
            PROVE  wstatus'[message'[o].conv] # "open"
        <5>1. o # m
          BY <3>4, <3>7, <4>3
        <5>2. message'[o] = message[o] /\ message[o].conv # c /\ message[o] \in Message
          BY <1>0, <3>5, <3>7, <5>1 DEF WidgetTypeOK, IsTable
        <5>3. wstatus[message[o].conv] # "open"
          BY <1>0, <3>7, <4>3, <5>2 DEF NobodyForgotten
        <5> QED BY <1>0, <3>7, <5>2, <5>3
      <4> QED BY <1>0, <4>1, <4>2, <4>3 DEF NobodyForgotten
    <3> QED BY <3>7, <3>8, <3>9, <3>10, <3>11 DEF WidgetInv
  <2> QED BY <2>1, <2>2
<1>6. ASSUME JobStart(m) PROVE WidgetInv'
  BY <1>3, <1>6 DEF JobStart, At, Hops, Endings
<1>7. ASSUME JobCommit(m) PROVE WidgetInv'
  <2>1. CASE Seen(m) \in {"resolved", "operator_owned"} /\ Goes(m, "left")
    <3>1. wstatus[message[m].conv] \in Past
      BY <1>1, <1>7, <2>1 DEF MessageOK, Past, JobCommit, At
    <3> QED BY <1>2, <1>7, <2>1, <3>1 DEF JobCommit, At, Hops, Endings, Past
  <2>2. CASE Goes(m, "command")
    BY <1>2, <1>7, <2>2 DEF JobCommit, At, Hops, Endings
  <2>3. CASE Goes(m, "told")
    BY <1>2, <1>7, <2>3 DEF JobCommit, At, Hops, Endings
  <2> QED BY <1>7, <2>1, <2>2, <2>3 DEF JobCommit
<1>8. ASSUME CommandClaim(m) PROVE WidgetInv'
  BY <1>2, <1>8 DEF CommandClaim, At, Hops, Endings
<1>9. ASSUME HandlerRaises(m) PROVE WidgetInv'
  BY <1>2, <1>9 DEF HandlerRaises, At, Hops, Endings
<1>10. ASSUME HandlerReturns(m) PROVE WidgetInv'
  BY <1>2, <1>10 DEF HandlerReturns, At, Hops, Endings
<1>11. ASSUME MessageLost(m) PROVE WidgetInv'
  <2>1. inboxFaults' # 0 /\ message[m].hop # "answered"
    BY <1>0, <1>11, InboxAssumption DEF MessageLost, InboxFault
  <2> QED BY <1>2, <1>11, <2>1 DEF MessageLost, Hops, Endings
<1>12. inboxFaults' = inboxFaults /\ granted # Capabilities => inboxFaults' # 0
  BY DEF WidgetInv
<1>13. ASSUME RespondRead(m) PROVE WidgetInv'
  <2>1. CASE "widget:respond" \notin granted
    BY <1>2, <1>12, <1>13, <2>1 DEF RespondRead, At, Hops, Endings, Capabilities
  <2>2. CASE "widget:respond" \in granted /\ wstatus[message[m].conv] = "resolved"
    BY <1>2, <1>13, <2>2 DEF RespondRead, At, Hops, Endings
  <2>3. CASE "widget:respond" \in granted /\ wstatus[message[m].conv] # "resolved"
    <3>1. /\ m \in DOMAIN message /\ message[m].hop = "responding"
          /\ message' = [message EXCEPT ![m].seen = wstatus[message[m].conv]]
      BY <1>13, <2>3 DEF RespondRead, At, ReadsStatus
    <3>2. message' = [message EXCEPT ![m].hop = "responding",
                                     ![m].seen = wstatus[message[m].conv]]
      BY <1>1, <3>1 DEF Message
    <3> QED BY <1>3, <1>13, <3>1, <3>2 DEF RespondRead, Hops, Endings
  <2> QED BY <2>1, <2>2, <2>3
<1>14. ASSUME RespondCommit(m) PROVE WidgetInv'
  <2>1. /\ m \in DOMAIN message /\ message[m].hop = "responding" /\ message[m].replies = 0
    BY <1>1, <1>14 DEF RespondCommit, At, MessageOK
  <2>2. PICK r : r = [message[m] EXCEPT !.hop = "answered", !.replies = message[m].replies + 1,
                                       !.seen = Unread]
    OBVIOUS
  <2>3. r \in Message /\ r.hop = "answered" /\ r.seen = Unread /\ r.conv = message[m].conv
    <3>1. message[m].replies + 1 \in 0 .. 1
      BY <2>1
    <3> QED BY <1>1, <2>1, <2>2, <3>1 DEF Message, Hops, Endings
  <2>4. message' = [message EXCEPT ![m] = r]
    BY <1>1, <1>14, <2>1, <2>2 DEF RespondCommit, Message
  <2>5. MessageMovesOn(m, r)
    BY <1>0, <2>1, <2>3, <2>4 DEF MessageMovesOn, WidgetTypeOK, IsTable
  <2> QED BY <1>14, <2>3, <2>5, MessageMoves DEF RespondCommit, Past, Unread
<1>15. ASSUME EscalateRead(m) PROVE WidgetInv'
  <2>1. CASE "widget:escalate" \notin granted
    BY <1>2, <1>12, <1>15, <2>1 DEF EscalateRead, At, Hops, Endings, Capabilities
  <2>2. CASE "widget:escalate" \in granted /\ wstatus[message[m].conv] # "open"
    BY <1>2, <1>15, <2>2 DEF EscalateRead, At, Hops, Endings
  <2>3. CASE "widget:escalate" \in granted /\ wstatus[message[m].conv] = "open"
    <3>1. /\ m \in DOMAIN message /\ message[m].hop = "escalating"
          /\ message' = [message EXCEPT ![m].seen = wstatus[message[m].conv]]
      BY <1>15, <2>3 DEF EscalateRead, At, ReadsStatus
    <3>2. message' = [message EXCEPT ![m].hop = "escalating",
                                     ![m].seen = wstatus[message[m].conv]]
      BY <1>1, <3>1 DEF Message
    <3> QED BY <1>3, <1>15, <3>1, <3>2 DEF EscalateRead, Hops, Endings
  <2> QED BY <2>1, <2>2, <2>3
<1>16. ASSUME EscalateCommit(m) PROVE WidgetInv'
  <2>1. PICK r : r = [message[m] EXCEPT !.hop = "left", !.seen = Unread]
    OBVIOUS
  <2>2. m \in DOMAIN message /\ message[m].hop = "escalating" /\ Goes(m, "left")
    BY <1>16 DEF EscalateCommit, At
  <2>3. PICK c \in WConvs : c = message[m].conv
    BY <1>1, <2>2 DEF Message
  <2>4. r \in Message /\ r.hop = "left" /\ r.seen = Unread /\ r.conv = c /\ r.replies = 0
    BY <1>1, <2>1, <2>2, <2>3 DEF Message, MessageOK, Hops, Endings
  <2>5. message' = [message EXCEPT ![m] = r]
    BY <1>1, <2>1, <2>2 DEF Goes, Message
  <2>6. /\ DOMAIN message' = DOMAIN message /\ message'[m] = r
        /\ \A o \in DOMAIN message \ {m} : message'[o] = message[o]
        /\ \A o \in DOMAIN message : message'[o].conv = message[o].conv
        /\ wstatus' = [wstatus EXCEPT ![c] = "escalated"]
        /\ escalation' = Inserted(escalation, m, "open")
        /\ UNCHANGED <<desk, granted, inboxFaults>>
    BY <1>16, <2>2, <2>3, <2>4, <2>5 DEF EscalateCommit
  <2>7. /\ \A k \in WConvs \ {c} : wstatus'[k] = wstatus[k]
        /\ wstatus'[c] = "escalated" /\ wstatus' \in [WConvs -> Status]
    BY <1>0, <2>6 DEF Status
  <2>8. WidgetTypeOK'
    <3>1. IsTable(message', Messages, Message)
      BY <1>0, <2>4, <2>5 DEF WidgetTypeOK, IsTable
    <3>2. IsTable(escalation', DOMAIN message', {"open", "closed"})
      BY <1>0, <2>2, <2>6 DEF WidgetTypeOK, IsTable, Inserted
    <3>3. desk' = desk /\ DOMAIN escalation \subseteq DOMAIN escalation'
      BY <2>6 DEF Inserted
    <3>4. desk' \in [Operators ->
             [kind : {"idle", "take_over", "resolve", "resolving"},
              conv : SUBSET WConvs, open : SUBSET DOMAIN escalation']]
      <4>1. [kind : {"idle", "take_over", "resolve", "resolving"},
              conv : SUBSET WConvs, open : SUBSET DOMAIN escalation]
             \subseteq [kind : {"idle", "take_over", "resolve", "resolving"},
              conv : SUBSET WConvs, open : SUBSET DOMAIN escalation']
        BY <3>3
      <4> QED BY <1>0, <3>3, <4>1 DEF WidgetTypeOK
    <3> QED BY <1>0, <2>6, <2>7, <3>1, <3>2, <3>4 DEF WidgetTypeOK
  <2>9. ASSUME NEW o \in DOMAIN message' PROVE MessageOK(o)'
    <3>1. CASE o = m
      BY <2>4, <2>6, <3>1 DEF MessageOK, Seen, Past, Unread
    <3>2. CASE o # m
      <4>1. MessageOK(o) /\ o \in DOMAIN message /\ message'[o] = message[o]
            /\ message[o] \in Message
        BY <1>0, <2>6, <3>2 DEF WidgetInv, WidgetTypeOK, IsTable
      <4>2. PICK k \in WConvs : k = message[o].conv
        BY <4>1 DEF Message
      <4>3. wstatus'[k] = wstatus[k] \/ (k = c /\ wstatus'[k] = "escalated")
        BY <2>7
      <4>4. message[o].hop = "posting" /\ Seen(o) = "none" => k # c
        BY <2>2, <2>3, <3>2, <4>1, <4>2 DEF MessageOK
      <4> QED BY <2>6, <4>1, <4>2, <4>3, <4>4 DEF MessageOK, Seen, Past
    <3> QED BY <3>1, <3>2
  <2>10. ASSUME NEW o \in Operators PROVE DeskOK(o)'
    <3>1. DeskOK(o) /\ desk[o].open \subseteq DOMAIN message /\ desk[o].conv \subseteq WConvs
      BY <1>0 DEF WidgetInv, WidgetTypeOK, IsTable
    <3> QED BY <2>6, <2>7, <3>1 DEF DeskOK
  <2>11. NobodyForgotten'
    <3>1. ASSUME NEW k \in WConvs, wstatus'[k] = "escalated" PROVE OpenOf({k})' # {}
      <4>1. CASE k = c
        BY <2>3, <2>4, <2>6, <4>1 DEF OpenOf, Inserted
      <4>2. CASE k # c
        <5>1. PICK e \in DOMAIN escalation : escalation[e] = "open" /\ message[e].conv = k
          BY <1>0, <2>7, <3>1, <4>2 DEF NobodyForgotten, OpenOf
        <5>2. e \in DOMAIN message
          BY <1>0 DEF WidgetTypeOK, IsTable
        <5> QED BY <2>6, <5>1, <5>2 DEF OpenOf, Inserted
      <4> QED BY <4>1, <4>2
    <3>2. ASSUME inboxFaults' = 0, NEW o \in DOMAIN message',
                 message'[o].hop \in {"left", "lost"}
          PROVE  wstatus'[message'[o].conv] # "open"
      <4>1. message[o].conv \in WConvs /\ o \in DOMAIN message
        BY <1>0, <2>6 DEF WidgetTypeOK, IsTable, Message
      <4>2. CASE o = m
        BY <2>3, <2>4, <2>6, <2>7, <4>2
      <4>3. CASE o # m
        BY <1>0, <2>6, <2>7, <3>2, <4>1, <4>3 DEF NobodyForgotten
      <4> QED BY <4>2, <4>3
    <3> QED BY <3>1, <3>2 DEF NobodyForgotten
  <2> QED BY <2>6, <2>8, <2>9, <2>10, <2>11 DEF WidgetInv
<1> QED BY <1>4, <1>5, <1>6, <1>7, <1>8, <1>9, <1>10, <1>11, <1>13, <1>14, <1>15, <1>16
        DEF MessageNext

\* The operators keep it.
LEMMA DeskStep ==
    ASSUME WidgetInv, NEW o \in Operators, DeskNext(o)
    PROVE  WidgetInv'
<1>0. /\ WidgetTypeOK /\ NobodyForgotten /\ DOMAIN escalation \subseteq DOMAIN message
      /\ wstatus \in [WConvs -> Status] /\ desk[o].conv \subseteq WConvs
      /\ desk \in [Operators ->
            [kind : {"idle", "take_over", "resolve", "resolving"},
             conv : SUBSET WConvs, open : SUBSET DOMAIN escalation]]
      /\ \A m \in DOMAIN message : message[m] \in Message
  BY DEF WidgetInv, WidgetTypeOK, IsTable
<1>1. ASSUME NEW d \in [kind : {"idle", "take_over", "resolve", "resolving"},
                        conv : SUBSET WConvs, open : SUBSET DOMAIN escalation],
             desk' = [desk EXCEPT ![o] = d],
             \A c \in d.conv : wstatus[c] # "none",
             \A e \in d.open : message[e].conv \in d.conv,
             UNCHANGED <<wstatus, message, escalation, granted, inboxFaults>>
      PROVE  WidgetInv'
  <2>1. WidgetTypeOK'
    <3>1. desk' \in [Operators ->
            [kind : {"idle", "take_over", "resolve", "resolving"},
             conv : SUBSET WConvs, open : SUBSET DOMAIN escalation]]
      BY <1>0, <1>1
    <3> QED BY <1>0, <1>1, <3>1 DEF WidgetTypeOK
  <2>2. \A m \in DOMAIN message : MessageOK(m)'
    BY <1>1 DEF WidgetInv, MessageOK, Seen
  <2>3. ASSUME NEW p \in Operators PROVE DeskOK(p)'
    <3>1. CASE p = o
      BY <1>0, <1>1, <3>1 DEF DeskOK
    <3>2. CASE p # o
      BY <1>0, <1>1, <3>2 DEF WidgetInv, DeskOK
    <3> QED BY <3>1, <3>2
  <2>4. NobodyForgotten'
    BY <1>0, <1>1 DEF NobodyForgotten, OpenOf
  <2> QED BY <1>1, <2>1, <2>2, <2>3, <2>4 DEF WidgetInv
<1>2. ASSUME NEW kind \in {"take_over", "resolve"}, NEW c \in WConvs, DeskRead(o, kind, c)
      PROVE  WidgetInv'
  <2>1. PICK d : d = [kind |-> kind, conv |-> {c}, open |-> {}]
    OBVIOUS
  <2>2. wstatus[c] # "none"
    BY <1>2 DEF DeskRead, DeskRefused
  <2>3. d \in [kind : {"idle", "take_over", "resolve", "resolving"},
               conv : SUBSET WConvs, open : SUBSET DOMAIN escalation]
    BY <2>1
  <2>4. (\A k \in d.conv : wstatus[k] # "none") /\ \A e \in d.open : message[e].conv \in d.conv
    BY <2>1, <2>2
  <2> QED BY <1>1, <1>2, <2>1, <2>3, <2>4 DEF DeskRead
<1>3. ASSUME ResolveSelect(o) PROVE WidgetInv'
  <2>1. PICK d : d = [desk[o] EXCEPT !.kind = "resolving", !.open = OpenOf(desk[o].conv)]
    OBVIOUS
  <2>2. /\ d \in [kind : {"idle", "take_over", "resolve", "resolving"},
                  conv : SUBSET WConvs, open : SUBSET DOMAIN escalation]
        /\ d.conv = desk[o].conv /\ d.open = OpenOf(desk[o].conv)
    BY <1>0, <2>1 DEF OpenOf
  <2>3. desk' = [desk EXCEPT ![o] = d]
    BY <1>0, <1>3, <2>1 DEF ResolveSelect
  <2>5. \A c \in d.conv : wstatus[c] # "none"
    BY <2>2 DEF WidgetInv, DeskOK
  <2>6. \A e \in d.open : message[e].conv \in d.conv
    BY <2>2 DEF OpenOf
  <2> QED BY <1>1, <1>3, <2>2, <2>3, <2>5, <2>6 DEF ResolveSelect
<1>4. ASSUME DeskCommit(o) PROVE WidgetInv'
  <2>1. PICK C : C = desk[o].conv
    OBVIOUS
  <2>2. PICK s \in {"operator_owned", "resolved"} :
            s = IF desk[o].kind = "take_over" THEN "operator_owned" ELSE "resolved"
    OBVIOUS
  <2>3. /\ \A c \in WConvs : wstatus'[c] = IF c \in C THEN s ELSE wstatus[c]
        /\ wstatus' \in [WConvs -> Status]
    BY <1>0, <1>4, <2>1, <2>2 DEF DeskCommit, Status
  <2>4. /\ DOMAIN escalation' = DOMAIN escalation
        /\ escalation' \in [DOMAIN escalation -> {"open", "closed"}]
        /\ \A e \in DOMAIN escalation : message[e].conv \notin C => escalation'[e] = escalation[e]
    <3>1. \A e \in desk[o].open : message[e].conv \in C
      BY <2>1 DEF WidgetInv, DeskOK
    <3> QED BY <1>0, <1>4, <3>1 DEF DeskCommit, WidgetTypeOK, IsTable
  <2>5. /\ desk' = [desk EXCEPT ![o] = DeskIdle]
        /\ UNCHANGED <<message, granted, inboxFaults>>
    BY <1>4 DEF DeskCommit
  <2>6. \A c \in C : c \in WConvs /\ wstatus[c] # "none"
    BY <1>0, <2>1 DEF WidgetInv, DeskOK
  <2>7. WidgetTypeOK'
    <3>1. DeskIdle \in [kind : {"idle", "take_over", "resolve", "resolving"},
                        conv : SUBSET WConvs, open : SUBSET DOMAIN escalation]
      BY DEF DeskIdle
    <3>2. desk' \in [Operators ->
            [kind : {"idle", "take_over", "resolve", "resolving"},
             conv : SUBSET WConvs, open : SUBSET DOMAIN escalation]]
      BY <1>0, <2>5, <3>1
    <3> QED BY <1>0, <2>3, <2>4, <2>5, <3>2 DEF WidgetTypeOK, IsTable
  <2>8. ASSUME NEW m \in DOMAIN message' PROVE MessageOK(m)'
    <3>1. MessageOK(m) /\ message[m].conv \in WConvs /\ message' = message
      BY <1>0, <2>5 DEF WidgetInv, Message
    <3>2. PICK k \in WConvs : k = message[m].conv
      BY <3>1
    <3>3. wstatus'[k] = wstatus[k] \/ (wstatus[k] # "none" /\ wstatus'[k] \in Past)
      BY <2>2, <2>3, <2>6 DEF Past
    <3> QED BY <3>1, <3>2, <3>3 DEF MessageOK, Seen
  <2>9. ASSUME NEW p \in Operators PROVE DeskOK(p)'
    <3>1. CASE p = o
      BY <1>0, <2>5, <3>1 DEF DeskOK, DeskIdle
    <3>2. CASE p # o
      <4>1. DeskOK(p) /\ desk'[p] = desk[p] /\ desk[p].conv \subseteq WConvs
        BY <1>0, <2>5, <3>2 DEF WidgetInv
      <4> QED BY <2>2, <2>3, <2>5, <4>1 DEF DeskOK
    <3> QED BY <3>1, <3>2
  <2>10. NobodyForgotten'
    <3>1. ASSUME NEW k \in WConvs, wstatus'[k] = "escalated" PROVE OpenOf({k})' # {}
      <4>1. k \notin C /\ wstatus[k] = "escalated"
        BY <2>2, <2>3, <3>1
      <4>2. PICK e \in DOMAIN escalation : escalation[e] = "open" /\ message[e].conv = k
        BY <1>0, <4>1 DEF NobodyForgotten, OpenOf
      <4> QED BY <2>4, <2>5, <4>1, <4>2 DEF OpenOf
    <3>2. ASSUME inboxFaults' = 0, NEW m \in DOMAIN message',
                 message'[m].hop \in {"left", "lost"}
          PROVE  wstatus'[message'[m].conv] # "open"
      BY <1>0, <2>2, <2>3, <2>5, <3>2 DEF NobodyForgotten, Message
    <3> QED BY <3>1, <3>2 DEF NobodyForgotten
  <2> QED BY <2>5, <2>7, <2>8, <2>9, <2>10 DEF WidgetInv
<1> QED BY <1>2, <1>3, <1>4 DEF DeskNext

\* So it holds throughout.
LEMMA WidgetHolds == WidgetSpec => []WidgetInv
<1>1. WidgetInit => WidgetInv
  <2> SUFFICES ASSUME WidgetInit PROVE WidgetInv
    OBVIOUS
  <2>1. DOMAIN message = {} /\ DOMAIN escalation = {} /\ desk = [o \in Operators |-> DeskIdle]
        /\ wstatus = [c \in WConvs |-> "none"] /\ granted = Capabilities /\ inboxFaults = 0
    BY DEF WidgetInit, EmptyTable
  <2>2. WidgetTypeOK
    <3>1. IsTable(message, Messages, Message) /\ IsTable(escalation, DOMAIN message, {"open", "closed"})
      BY <2>1 DEF WidgetInit, EmptyTable, IsTable
    <3>2. DeskIdle \in [kind : {"idle", "take_over", "resolve", "resolving"},
                        conv : SUBSET WConvs, open : SUBSET DOMAIN escalation]
      BY DEF DeskIdle
    <3> QED BY <2>1, <3>1, <3>2, InboxAssumption DEF WidgetTypeOK, Status
  <2>3. \A o \in Operators : DeskOK(o)
    BY <2>1 DEF DeskOK, DeskIdle
  <2>4. NobodyForgotten
    BY <2>1 DEF NobodyForgotten
  <2> QED BY <2>1, <2>2, <2>3, <2>4 DEF WidgetInv
<1>2. WidgetInv /\ [WidgetNext]_widgetVars => WidgetInv'
  <2> SUFFICES ASSUME WidgetInv, [WidgetNext]_widgetVars PROVE WidgetInv'
    OBVIOUS
  <2>1. CASE UNCHANGED widgetVars
    BY <2>1 DEF widgetVars, WidgetInv, WidgetTypeOK, MessageOK, DeskOK, Seen, NobodyForgotten,
                OpenOf
  <2>2. ASSUME /\ granted' \subseteq Capabilities
               /\ inboxFaults' \in 0 .. MaxInboxFaults
               /\ inboxFaults' = 0 => inboxFaults = 0 /\ granted' = Capabilities
               /\ UNCHANGED <<wstatus, message, escalation, desk>>
        PROVE  WidgetInv'
    BY <2>2 DEF WidgetInv, WidgetTypeOK, MessageOK, DeskOK, Seen, NobodyForgotten, OpenOf
  <2>3. inboxFaults \in 0 .. MaxInboxFaults /\ granted \subseteq Capabilities
    BY DEF WidgetInv, WidgetTypeOK
  <2>4. CASE Grant
    BY <2>2, <2>3, <2>4 DEF Grant
  <2>5. CASE Withdraw
    BY <2>2, <2>3, <2>5, InboxAssumption DEF Withdraw, InboxFault
  <2> QED BY <2>1, <2>4, <2>5, MessageStep, DeskStep DEF WidgetNext
<1> QED BY <1>1, <1>2, PTL DEF WidgetSpec

\* A conversation shown as escalated has an open escalation, and one whose
\* message was left to people is not open, unless something was lost.
THEOREM InboxForgetsNobody == WidgetSpec => []NobodyForgotten
BY WidgetHolds, PTL DEF WidgetInv

\* Conversations, messages and escalations keep their types (main.py, the
\* widget's and the inbox's routes).
THEOREM WidgetTypesOK == WidgetSpec => []WidgetTypeOK
BY WidgetHolds, PTL DEF WidgetInv

=============================================================================
