---------------------------- MODULE InputProofs ----------------------------
(***************************************************************************)
(* Proofs about the InputDispatcher and its channels: TypeOK,              *)
(* DispatchesCounted, WaitQueueMatchesApp, BlockedIsReleased,              *)
(* IdleHasNoWork and NoKeyLeftDown, for any windows, keys, injectors and   *)
(* socket sizes.                                                           *)
(*                                                                         *)
(* Most of the invariant is a statement Good about one world s, the value  *)
(* that the calls under mLock change together, and every such call is      *)
(* shown to take a good world to a good world.  Its other parameters are   *)
(* the peers p, the command cmd whose call to the policy is under way, the *)
(* windows Q that may have keys down, and the windows U whose next         *)
(* dispatch cycle is about to start.                                       *)
(***************************************************************************)
EXTENDS InputDispatcher, WellFoundedInduction, SequenceTheorems,
        FiniteSetTheorems, TLAPS

Peers == [received |-> received, down |-> down, signals |-> signals, open |-> open]

PeersType ==
    [received : [Window -> Seq(DispatchEntry)], down : [Window -> SUBSET KeyCode],
     signals : [Window -> Seq([seq : Nat \ {0}, handled : BOOLEAN])],
     open : SUBSET Window]

WorldType ==
    [connection : [Window -> Connection], commands : Seq(Command),
     injection : [Injector -> InjectionState], seq : Nat \ {0},
     pipe : [Window -> Seq(DispatchEntry)]]

\* No sequence number occurs twice.
Unique(q) == \A m, n \in DOMAIN q : q[m].seq = q[n].seq => m = n

\* A key that is sent as itself is one of Key.
Plain(q) == \A n \in DOMAIN q : ~q[n].fallback => q[n].key \in Key

FinishOnce(commands, w) ==
    \A m, n \in DOMAIN commands :
        /\ commands[m].type = "finished" /\ commands[m].window = w
        /\ commands[n].type = "finished" /\ commands[n].window = w
        /\ commands[m].seq = commands[n].seq
        => m = n

\* doDispatchCycleFinished is in its call to the policy.
IsHand(cmd) == cmd.type \in {"askFallback", "cancelFallback"}
InHand(cmd, w) == IF IsHand(cmd) /\ cmd.window = w THEN {cmd.entry.seq} ELSE {}

\* W is made of five parts.
Parts(P, R, G, F, H, W) ==
    /\ W = P \cup R \cup G \cup F \cup H
    /\ P \cap R = {} /\ P \cap G = {} /\ P \cap F = {} /\ P \cap H = {}
    /\ R \cap G = {} /\ R \cap F = {} /\ R \cap H = {}
    /\ G \cap F = {} /\ G \cap H = {} /\ F \cap H = {}

\* The two queues of a connection hold different entries, older than seq.
QueuesOK(c, seq) ==
    /\ Unique(c.outboundQueue) /\ Unique(c.waitQueue)
    /\ Seqs(c.outboundQueue) \cap Seqs(c.waitQueue) = {}
    /\ \A x \in Seqs(c.outboundQueue) \cup Seqs(c.waitQueue) : x < seq
    /\ Plain(c.outboundQueue) /\ Plain(c.waitQueue)

Memento == [key : KeyCode, fallback : BOOLEAN]
KeysOf(q) == {q[n].key : n \in DOMAIN q}

\* Mementos are of different keys, and no fallback key has one.
Mementos(q) ==
    /\ q \in Seq(Memento)
    /\ \A m, n \in DOMAIN q : q[m].key = q[n].key => m = n
    /\ \A n \in DOMAIN q : ~q[n].fallback /\ q[n].key \in Key

\* A window that may not have keys down has no mementos.
MementosOK(c, mayHold) ==
    /\ Mementos(c.mKeyMementos)
    /\ c.status = "NORMAL" /\ ~mayHold => c.mKeyMementos = <<>>

\* Nothing is known of a window before it is registered.
UnusedOK(s, p, w) ==
    s.connection[w].status = "NONE" =>
        /\ s.connection[w].outboundQueue = <<>> /\ s.connection[w].waitQueue = <<>>
        /\ s.connection[w].mKeyMementos = <<>> /\ s.connection[w].blocked = FALSE
        /\ s.pipe[w] = <<>> /\ p.received[w] = <<>> /\ p.signals[w] = <<>>
        /\ p.down[w] = {} /\ FinishSeqs(s.commands, w) = {}

\* A blocked connection has an event or a signal on its way.
BlockedOK(s, p, w) ==
    s.connection[w].blocked =>
        s.pipe[w] # <<>> \/ p.received[w] # <<>> \/ p.signals[w] # <<>>

StartedOK(c, starts) == c.outboundQueue # <<>> => c.waitQueue # <<>> \/ starts

\* Each key that is or will be down has a memento.
KeysOK(s, p, w) ==
    KeysAfter(p.down[w], s.pipe[w] \o s.connection[w].outboundQueue) \cap Key
        \subseteq KeysOf(s.connection[w].mKeyMementos)

PlacesOK(s, p, cmd, w) ==
    /\ Unique(s.pipe[w]) /\ Unique(p.received[w]) /\ Unique(p.signals[w])
    /\ FinishOnce(s.commands, w)
    /\ Parts(Seqs(s.pipe[w]), Seqs(p.received[w]), Seqs(p.signals[w]),
             FinishSeqs(s.commands, w), InHand(cmd, w),
             Seqs(s.connection[w].waitQueue))

IsLive(s, p, w) == s.connection[w].status = "NORMAL" /\ w \in p.open

LiveOK(s, p, cmd, U, w) ==
    IsLive(s, p, w) =>
        /\ PlacesOK(s, p, cmd, w) /\ BlockedOK(s, p, w)
        /\ StartedOK(s.connection[w], w \in U) /\ KeysOK(s, p, w)

WindowOK(s, p, cmd, Q, U, w) ==
    /\ QueuesOK(s.connection[w], s.seq) /\ MementosOK(s.connection[w], w \in Q)
    /\ Len(s.pipe[w]) <= PipeSize
    /\ UnusedOK(s, p, w) /\ LiveOK(s, p, cmd, U, w)

\* The entry that is shown to the policy is the one of its number, wherever that
\* is.
HandOK(s, cmd) ==
    IsHand(cmd) =>
        LET c == s.connection[cmd.window]
        IN /\ c.status # "NONE" /\ cmd.entry.seq < s.seq
           /\ cmd.entry.seq \notin Seqs(c.outboundQueue)
           /\ \A n \in DOMAIN c.waitQueue :
                 c.waitQueue[n].seq = cmd.entry.seq => c.waitQueue[n] = cmd.entry

Counted(s) ==
    \A i \in Injector : /\ IsFiniteSet(Foreground(s, i))
                        /\ s.injection[i].pending = Cardinality(Foreground(s, i))

Good(s, p, cmd, Q, U) ==
    /\ s \in WorldType /\ Counted(s) /\ HandOK(s, cmd)
    /\ \A w \in Window : WindowOK(s, p, cmd, Q, U, w)

\* What the thread's command is about.
CommandOK(cmd) ==
    /\ IsHand(cmd) => ~cmd.entry.fallback /\ cmd.entry.key \in Key
    /\ cmd.type = "cancelFallback" => cmd.fallback # "none"
    /\ cmd.type = "askFallback" /\ cmd.entry.action = "UP" => cmd.fallback # "none"

ThreadOK ==
    /\ dispatcher.pc = "policy" <=> dispatcher.command # NoCommand
    /\ dispatcher.pc = "commands" => mCommandQueue # <<>>
    /\ dispatcher.pc # "poll" => dispatcher.timeout = "now"
    /\ CommandOK(dispatcher.command)

\* The inductive invariant.
IInv ==
    /\ TypeOK /\ ThreadOK /\ IdleHasNoWork
    /\ Good(World, Peers, dispatcher.command, {mFocusedWindowHandle}, {})
-----------------------------------------------------------------------------
(* Sequences of entries, signals and mementos.                              *)

LEMMA Empty ==
    /\ Seqs(<<>>) = {} /\ Unique(<<>>) /\ Plain(<<>>)
  BY DEF Seqs, Unique, Plain

LEMMA NoDomain ==
    ASSUME NEW S, NEW q \in Seq(S), DOMAIN q = {}
    PROVE  q = <<>>
<1>1. DOMAIN q = 1 .. Len(q) /\ Len(q) \in Nat
  OBVIOUS
<1>2. Len(q) # 0 => 1 \in 1 .. Len(q)
  BY <1>1
<1>3. Len(q) = 0
  BY <1>1, <1>2
<1> QED BY <1>3, EmptySeq

LEMMA ConcatAt ==
    ASSUME NEW S, NEW q \in Seq(S), NEW r \in Seq(S)
    PROVE  /\ q \o r \in Seq(S) /\ Len(q \o r) = Len(q) + Len(r)
           /\ DOMAIN (q \o r) = 1 .. Len(q) + Len(r)
           /\ \A n \in 1 .. Len(q) : (q \o r)[n] = q[n]
           /\ \A n \in 1 .. Len(r) : (q \o r)[Len(q) + n] = r[n]
  OBVIOUS

\* What a concatenation has, one of its parts has.
LEMMA ConcatCases ==
    ASSUME NEW S, NEW q \in Seq(S), NEW r \in Seq(S), NEW n \in DOMAIN (q \o r)
    PROVE  \/ n \in DOMAIN q /\ (q \o r)[n] = q[n]
           \/ /\ n - Len(q) \in DOMAIN r /\ n > Len(q)
              /\ (q \o r)[n] = r[n - Len(q)]
  OBVIOUS

LEMMA SeqsConcat ==
    ASSUME NEW S, NEW q \in Seq(S), NEW r \in Seq(S)
    PROVE  Seqs(q \o r) = Seqs(q) \cup Seqs(r)
<1>1. Seqs(q \o r) \subseteq Seqs(q) \cup Seqs(r)
  BY ConcatCases DEF Seqs
<1>2. Seqs(q) \subseteq Seqs(q \o r)
  BY ConcatAt DEF Seqs
<1>3. ASSUME NEW n \in DOMAIN r PROVE r[n].seq \in Seqs(q \o r)
  <2>1. Len(q) + n \in DOMAIN (q \o r) /\ (q \o r)[Len(q) + n] = r[n]
    OBVIOUS
  <2> QED BY <2>1 DEF Seqs
<1> QED BY <1>1, <1>2, <1>3 DEF Seqs

LEMMA UniqueConcat ==
    ASSUME NEW S, NEW q \in Seq(S), NEW r \in Seq(S)
    PROVE  Unique(q \o r) <=>
              Unique(q) /\ Unique(r) /\ Seqs(q) \cap Seqs(r) = {}
<1> DEFINE z == q \o r
<1>1. ASSUME Unique(z) PROVE Unique(q)
  <2> SUFFICES ASSUME NEW m \in DOMAIN q, NEW n \in DOMAIN q, q[m].seq = q[n].seq
               PROVE  m = n
    BY DEF Unique
  <2>1. m \in DOMAIN z /\ n \in DOMAIN z /\ z[m] = q[m] /\ z[n] = q[n]
    BY ConcatAt
  <2> QED BY <1>1, <2>1 DEF Unique
<1>2. ASSUME Unique(z) PROVE Unique(r)
  <2> SUFFICES ASSUME NEW m \in DOMAIN r, NEW n \in DOMAIN r, r[m].seq = r[n].seq
               PROVE  m = n
    BY DEF Unique
  <2>1. /\ Len(q) + m \in DOMAIN z /\ Len(q) + n \in DOMAIN z
        /\ z[Len(q) + m] = r[m] /\ z[Len(q) + n] = r[n]
    BY ConcatAt
  <2>2. Len(q) + m = Len(q) + n
    BY <1>2, <2>1 DEF Unique
  <2>3. m \in Nat /\ n \in Nat /\ Len(q) \in Nat
    OBVIOUS
  <2> QED BY <2>2, <2>3
<1>3. ASSUME Unique(z) PROVE Seqs(q) \cap Seqs(r) = {}
  <2> SUFFICES ASSUME NEW m \in DOMAIN q, NEW n \in DOMAIN r, q[m].seq = r[n].seq
               PROVE  FALSE
    BY DEF Seqs
  <2>1. /\ m \in DOMAIN z /\ Len(q) + n \in DOMAIN z
        /\ z[m] = q[m] /\ z[Len(q) + n] = r[n]
    BY ConcatAt
  <2>2. m = Len(q) + n
    BY <1>3, <2>1 DEF Unique
  <2> QED BY <2>2
<1>4. ASSUME Unique(q), Unique(r), Seqs(q) \cap Seqs(r) = {},
             NEW m \in DOMAIN z, NEW n \in DOMAIN z, z[m].seq = z[n].seq
      PROVE  m = n
  <2>1. CASE m \in DOMAIN q /\ z[m] = q[m]
    <3>1. n \in DOMAIN q /\ z[n] = q[n]
      <4>1. CASE n - Len(q) \in DOMAIN r /\ z[n] = r[n - Len(q)]
        BY <1>4, <2>1, <4>1 DEF Seqs
      <4> QED BY <4>1, ConcatCases
    <3> QED BY <1>4, <2>1, <3>1 DEF Unique
  <2>2. CASE m - Len(q) \in DOMAIN r /\ z[m] = r[m - Len(q)]
    <3>1. n - Len(q) \in DOMAIN r /\ z[n] = r[n - Len(q)]
      <4>1. CASE n \in DOMAIN q /\ z[n] = q[n]
        BY <1>4, <2>2, <4>1 DEF Seqs
      <4> QED BY <4>1, ConcatCases
    <3>2. m - Len(q) = n - Len(q)
      BY <1>4, <2>2, <3>1 DEF Unique
    <3>3. m \in Int /\ n \in Int /\ Len(q) \in Int
      BY ConcatAt
    <3> QED BY <3>2, <3>3
  <2> QED BY <2>1, <2>2, ConcatCases
<1> QED BY <1>1, <1>2, <1>3, <1>4 DEF Unique

LEMMA PlainConcat ==
    ASSUME NEW S, NEW q \in Seq(S), NEW r \in Seq(S)
    PROVE  Plain(q \o r) <=> Plain(q) /\ Plain(r)
<1>1. ASSUME Plain(q), Plain(r) PROVE Plain(q \o r)
  BY <1>1, ConcatCases DEF Plain
<1>2. ASSUME Plain(q \o r) PROVE Plain(q)
  BY <1>2, ConcatAt DEF Plain
<1>3. ASSUME Plain(q \o r), NEW n \in DOMAIN r PROVE ~r[n].fallback => r[n].key \in Key
  <2>1. Len(q) + n \in DOMAIN (q \o r) /\ (q \o r)[Len(q) + n] = r[n]
    BY ConcatAt
  <2> QED BY <1>3, <2>1 DEF Plain
<1> QED BY <1>1, <1>2, <1>3 DEF Plain

LEMMA Single ==
    ASSUME NEW e
    PROVE  /\ Seqs(<<e>>) = {e.seq} /\ Unique(<<e>>)
           /\ Plain(<<e>>) <=> (~e.fallback => e.key \in Key)
  BY DEF Seqs, Unique, Plain

LEMMA AppendsOne ==
    ASSUME NEW S, NEW q \in Seq(S), NEW e \in S
    PROVE  Append(q, e) = q \o <<e>>
  OBVIOUS

LEMMA HeadTail ==
    ASSUME NEW S, NEW q \in Seq(S), q # <<>>
    PROVE  /\ Head(q) \in S /\ Tail(q) \in Seq(S) /\ <<Head(q)>> \in Seq(S)
           /\ q = <<Head(q)>> \o Tail(q) /\ Len(Tail(q)) = Len(q) - 1
  OBVIOUS

LEMMA SplitAt ==
    ASSUME NEW S, NEW q \in Seq(S), NEW n \in 0 .. Len(q)
    PROVE  /\ SubSeq(q, 1, n) \in Seq(S) /\ SubSeq(q, n + 1, Len(q)) \in Seq(S)
           /\ Len(SubSeq(q, 1, n)) = n
           /\ Len(SubSeq(q, n + 1, Len(q))) = Len(q) - n
           /\ q = SubSeq(q, 1, n) \o SubSeq(q, n + 1, Len(q))
<1>1. Len(q) \in Nat /\ n \in Nat /\ n <= Len(q)
  OBVIOUS
<1>2. /\ 1 \in 1 .. Len(q) + 1 /\ n \in 1 - 1 .. Len(q) /\ Len(q) \in n .. Len(q)
  BY <1>1
<1>3. SubSeq(q, 1, n) \o SubSeq(q, n + 1, Len(q)) = SubSeq(q, 1, Len(q))
  BY <1>2, ConcatAdjacentSubSeq
<1>4. SubSeq(q, 1, Len(q)) = q
  BY SubSeqFull
<1>5. /\ SubSeq(q, 1, n) \in Seq(S) /\ Len(SubSeq(q, 1, n)) = n
  <2>1. \A i \in 1 .. n : q[i] \in S
    BY <1>1, ElementOfSeq
  <2>2. 1 \in Int /\ n \in Int
    BY <1>1
  <2>3. /\ SubSeq(q, 1, n) \in Seq(S)
        /\ Len(SubSeq(q, 1, n)) = IF 1 <= n THEN n - 1 + 1 ELSE 0
    BY <2>1, <2>2, SubSeqProperties
  <2> QED BY <1>1, <2>3
<1>6. /\ SubSeq(q, n + 1, Len(q)) \in Seq(S)
      /\ Len(SubSeq(q, n + 1, Len(q))) = Len(q) - n
  <2>1. \A i \in n + 1 .. Len(q) : q[i] \in S
    BY <1>1, ElementOfSeq
  <2>2. n + 1 \in Int /\ Len(q) \in Int
    BY <1>1
  <2>3. /\ SubSeq(q, n + 1, Len(q)) \in Seq(S)
        /\ Len(SubSeq(q, n + 1, Len(q))) =
              IF n + 1 <= Len(q) THEN Len(q) - (n + 1) + 1 ELSE 0
    BY <2>1, <2>2, SubSeqProperties
  <2> QED BY <1>1, <2>3
<1> QED BY <1>3, <1>4, <1>5, <1>6

\* The n-th element is taken out of a sequence.
TakesOut(S, q, n) ==
    \E a, b, one \in Seq(S) :
        one = <<q[n]>> /\ q = a \o (one \o b) /\ RemoveAt(q, n) = a \o b

LEMMA RemovesAt ==
    ASSUME NEW S, NEW q \in Seq(S), NEW n \in DOMAIN q
    PROVE  TakesOut(S, q, n)
<1> DEFINE a == SubSeq(q, 1, n - 1)
           b == SubSeq(q, n + 1, Len(q))
<1>1. n \in 1 .. Len(q) /\ Len(q) \in Nat
  OBVIOUS
<1>2. n \in 0 .. Len(q) /\ n - 1 \in 0 .. Len(q) /\ Len(q) \in n .. Len(q)
      /\ (n - 1) + 1 = n
  BY <1>1
<1>3. a \in Seq(S) /\ b \in Seq(S)
  BY <1>2, SplitAt
<1>4. q = a \o SubSeq(q, n, Len(q))
  BY <1>2, SplitAt
<1>5. SubSeq(q, n, Len(q)) = <<q[n]>> \o b
  BY <1>1, <1>2, SubSeqRecursiveFirst
<1>6. RemoveAt(q, n) = a \o b
  BY DEF RemoveAt
<1>7. <<q[n]>> \in Seq(S)
  BY <1>1
<1> HIDE DEF a, b
<1> QED BY <1>3, <1>4, <1>5, <1>6, <1>7, Zenon DEF TakesOut

LEMMA Removed ==
    ASSUME NEW S, NEW q \in Seq(S), NEW n \in DOMAIN q, Unique(q)
    PROVE  /\ RemoveAt(q, n) \in Seq(S) /\ Unique(RemoveAt(q, n))
           /\ Seqs(RemoveAt(q, n)) = Seqs(q) \ {q[n].seq}
           /\ Plain(q) => Plain(RemoveAt(q, n))
<1>1. PICK a, b, one \in Seq(S) :
          one = <<q[n]>> /\ q = a \o (one \o b) /\ RemoveAt(q, n) = a \o b
  <2>1. TakesOut(S, q, n)
    BY RemovesAt
  <2> QED BY <2>1 DEF TakesOut
<1> DEFINE e == q[n]
           r == RemoveAt(q, n)
           x == one \o b
<1>2. Seqs(one) = {e.seq} /\ x \in Seq(S) /\ q = a \o x /\ r = a \o b
  <2>1. Seqs(one) = {e.seq}
    BY <1>1, Single, Zenon
  <2>2. x \in Seq(S)
    BY <1>1, ConcatAt, Zenon
  <2> QED BY <1>1, <2>1, <2>2
<1>3. x = one \o b
  OBVIOUS
<1> HIDE DEF e, r, x
<1>4. Unique(a) /\ Unique(x) /\ Seqs(a) \cap Seqs(x) = {}
  BY <1>2, UniqueConcat
<1>5. Unique(b) /\ {e.seq} \cap Seqs(b) = {}
  BY <1>2, <1>3, <1>4, UniqueConcat
<1>6. Seqs(x) = {e.seq} \cup Seqs(b)
  BY <1>2, <1>3, SeqsConcat
<1>7. Seqs(q) = Seqs(a) \cup Seqs(x)
  BY <1>2, SeqsConcat
<1>8. Seqs(r) = Seqs(a) \cup Seqs(b)
  BY <1>2, SeqsConcat
<1>9. r \in Seq(S) /\ Unique(r) /\ Seqs(r) = Seqs(q) \ {e.seq}
  <2>1. Seqs(a) \cap Seqs(b) = {} /\ e.seq \notin Seqs(a)
    BY <1>4, <1>6
  <2>2. r \in Seq(S) /\ Unique(r)
    BY <1>2, <1>4, <1>5, <2>1, UniqueConcat, ConcatAt
  <2>3. Seqs(r) = Seqs(q) \ {e.seq}
    BY <1>5, <1>6, <1>7, <1>8, <2>1
  <2> QED BY <2>2, <2>3
<1>10. Plain(q) => Plain(r)
  BY <1>2, <1>3, PlainConcat
<1> QED BY <1>9, <1>10 DEF e, r

LEMMA Headed ==
    ASSUME NEW S, NEW q \in Seq(S), q # <<>>, Unique(q)
    PROVE  /\ Head(q) \in S /\ Tail(q) \in Seq(S) /\ Unique(Tail(q))
           /\ Seqs(Tail(q)) = Seqs(q) \ {Head(q).seq} /\ Head(q).seq \in Seqs(q)
           /\ Len(Tail(q)) = Len(q) - 1
<1> DEFINE e == Head(q)
           b == Tail(q)
<1>1. /\ e \in S /\ b \in Seq(S) /\ <<e>> \in Seq(S) /\ q = <<e>> \o b
      /\ Len(b) = Len(q) - 1
  BY HeadTail
<1> HIDE DEF e, b
<1>2. Unique(b) /\ {e.seq} \cap Seqs(b) = {}
  <2>1. Unique(<<e>> \o b)
    BY <1>1
  <2>2. Unique(b) /\ Seqs(<<e>>) \cap Seqs(b) = {}
    BY <1>1, <2>1, UniqueConcat, Zenon
  <2> QED BY <2>2, Single, Zenon
<1>3. Seqs(q) = {e.seq} \cup Seqs(b)
  <2>1. Seqs(<<e>> \o b) = Seqs(<<e>>) \cup Seqs(b)
    BY <1>1, SeqsConcat, Zenon
  <2> QED BY <1>1, <2>1, Single
<1> QED BY <1>1, <1>2, <1>3 DEF e, b

LEMMA Appended ==
    ASSUME NEW S, NEW q \in Seq(S), NEW e \in S
    PROVE  /\ Append(q, e) \in Seq(S) /\ Seqs(Append(q, e)) = Seqs(q) \cup {e.seq}
           /\ Unique(q) /\ e.seq \notin Seqs(q) => Unique(Append(q, e))
           /\ Plain(q) /\ (~e.fallback => e.key \in Key) => Plain(Append(q, e))
<1>1. Append(q, e) = q \o <<e>> /\ <<e>> \in Seq(S)
  BY AppendsOne
<1>2. q \o <<e>> \in Seq(S) /\ Seqs(q \o <<e>>) = Seqs(q) \cup Seqs(<<e>>)
  BY <1>1, SeqsConcat, ConcatAt, Zenon
<1>3. Unique(q) /\ Unique(<<e>>) /\ Seqs(q) \cap Seqs(<<e>>) = {}
         => Unique(q \o <<e>>)
  BY <1>1, UniqueConcat, Zenon
<1>4. Plain(q) /\ Plain(<<e>>) => Plain(q \o <<e>>)
  BY <1>1, PlainConcat, Zenon
<1>5. /\ Seqs(<<e>>) = {e.seq} /\ Unique(<<e>>)
      /\ Plain(<<e>>) <=> (~e.fallback => e.key \in Key)
  BY Single, Zenon
<1> QED BY <1>1, <1>2, <1>3, <1>4, <1>5
-----------------------------------------------------------------------------
(* The keys that are down after a sequence of events.                       *)

\* The last event of key k in a sequence.
LastOf(q, k, n) ==
    n \in DOMAIN q /\ q[n].key = k /\ \A m \in DOMAIN q : q[m].key = k => m <= n

NoneOf(q, k) == \A n \in DOMAIN q : q[n].key # k

LEMMA KeysAfterCases ==
    ASSUME NEW d, NEW q \in Seq(DispatchEntry), NEW k \in KeysAfter(d, q)
    PROVE  /\ k \in KeyCode
           /\ \/ \E n \in Nat : LastOf(q, k, n) /\ q[n].action = "DOWN"
              \/ k \in d /\ NoneOf(q, k)
  BY DEF KeysAfter, LastOf, NoneOf

LEMMA KeysDown ==
    ASSUME NEW d, NEW q, NEW k \in KeyCode, NEW n, LastOf(q, k, n),
           q[n].action = "DOWN"
    PROVE  k \in KeysAfter(d, q)
  BY DEF KeysAfter, LastOf

LEMMA KeysKept ==
    ASSUME NEW d, NEW q, NEW k \in KeyCode, k \in d, NoneOf(q, k)
    PROVE  k \in KeysAfter(d, q)
  BY DEF KeysAfter, NoneOf

LEMMA NoneOfConcat ==
    ASSUME NEW a \in Seq(DispatchEntry), NEW b \in Seq(DispatchEntry), NEW k
    PROVE  NoneOf(a \o b, k) <=> NoneOf(a, k) /\ NoneOf(b, k)
<1>1. ASSUME NoneOf(a, k), NoneOf(b, k) PROVE NoneOf(a \o b, k)
  BY <1>1, ConcatCases DEF NoneOf
<1>2. ASSUME NoneOf(a \o b, k), NEW n \in DOMAIN a PROVE a[n].key # k
  <2>1. n \in DOMAIN (a \o b) /\ (a \o b)[n] = a[n]
    BY ConcatAt
  <2> QED BY <1>2, <2>1 DEF NoneOf
<1>3. ASSUME NoneOf(a \o b, k), NEW n \in DOMAIN b PROVE b[n].key # k
  <2>1. Len(a) + n \in DOMAIN (a \o b) /\ (a \o b)[Len(a) + n] = b[n]
    BY ConcatAt
  <2> QED BY <1>3, <2>1 DEF NoneOf
<1> QED BY <1>1, <1>2, <1>3 DEF NoneOf

LEMMA LastOfSecond ==
    ASSUME NEW a \in Seq(DispatchEntry), NEW b \in Seq(DispatchEntry),
           NEW k, NEW n \in Nat, LastOf(b, k, n)
    PROVE  LastOf(a \o b, k, Len(a) + n) /\ (a \o b)[Len(a) + n] = b[n]
<1> DEFINE z == a \o b
<1>1. Len(a) \in Nat /\ Len(b) \in Nat /\ DOMAIN a = 1 .. Len(a) /\ DOMAIN b = 1 .. Len(b)
  OBVIOUS
<1>2. LastOf(z, k, Len(a) + n) /\ z[Len(a) + n] = b[n]
  <2>1. n \in 1 .. Len(b)
    BY <1>1 DEF LastOf
  <2>2. Len(a) + n \in DOMAIN z /\ z[Len(a) + n] = b[n]
    BY <1>1, <2>1, ConcatAt
  <2>3. ASSUME NEW m \in DOMAIN z, z[m].key = k PROVE m <= Len(a) + n
    <3>1. CASE m \in DOMAIN a
      BY <1>1, <2>1, <3>1
    <3>2. CASE m - Len(a) \in DOMAIN b /\ z[m] = b[m - Len(a)]
      <4>1. m - Len(a) <= n
        BY <2>3, <3>2 DEF LastOf
      <4>2. m \in Nat
        BY <2>3, ConcatAt
      <4> QED BY <1>1, <2>1, <4>1, <4>2
    <3> QED BY <3>1, <3>2, ConcatCases
  <2>4. z[Len(a) + n].key = k
    BY <2>2 DEF LastOf
  <2> QED BY <2>2, <2>3, <2>4 DEF LastOf
<1> QED BY <1>2

LEMMA LastOfFirst ==
    ASSUME NEW a \in Seq(DispatchEntry), NEW b \in Seq(DispatchEntry),
           NEW k, NEW n \in Nat, LastOf(a, k, n), NoneOf(b, k)
    PROVE  LastOf(a \o b, k, n) /\ (a \o b)[n] = a[n]
<1> DEFINE z == a \o b
<1>1. Len(a) \in Nat /\ Len(b) \in Nat /\ DOMAIN a = 1 .. Len(a) /\ DOMAIN b = 1 .. Len(b)
  OBVIOUS
<1>3. LastOf(z, k, n) /\ z[n] = a[n]
  <2>1. n \in 1 .. Len(a)
    BY <1>1 DEF LastOf
  <2>2. n \in DOMAIN z /\ z[n] = a[n]
    BY <1>1, <2>1, ConcatAt
  <2>3. ASSUME NEW m \in DOMAIN z, z[m].key = k PROVE m <= n
    <3>1. CASE m \in DOMAIN a /\ z[m] = a[m]
      BY <2>3, <3>1 DEF LastOf
    <3>2. CASE m - Len(a) \in DOMAIN b /\ z[m] = b[m - Len(a)]
      BY <2>3, <3>2 DEF NoneOf
    <3> QED BY <3>1, <3>2, ConcatCases
  <2> QED BY <2>2, <2>3 DEF LastOf
<1> QED BY <1>3

LEMMA LastOfSplit ==
    ASSUME NEW a \in Seq(DispatchEntry), NEW b \in Seq(DispatchEntry),
           NEW k, NEW n \in Nat, LastOf(a \o b, k, n)
    PROVE  \/ n - Len(a) \in DOMAIN b /\ LastOf(b, k, n - Len(a))
              /\ (a \o b)[n] = b[n - Len(a)]
           \/ /\ LastOf(a, k, n) /\ (a \o b)[n] = a[n]
              /\ NoneOf(b, k)
<1> DEFINE z == a \o b
<1>1. Len(a) \in Nat /\ Len(b) \in Nat /\ DOMAIN a = 1 .. Len(a) /\ DOMAIN b = 1 .. Len(b)
  OBVIOUS
<1>2. n \in DOMAIN z /\ z[n].key = k /\ \A m \in DOMAIN z : z[m].key = k => m <= n
  BY DEF LastOf
<1>3. \A m \in DOMAIN b : Len(a) + m \in DOMAIN z /\ z[Len(a) + m] = b[m]
  BY <1>1, ConcatAt
<1>4. n \in Nat
  BY <1>2, ConcatAt
<1>5. \A m \in DOMAIN b : b[m].key = k => Len(a) + m <= n
  BY <1>2, <1>3
<1>6. CASE n - Len(a) \in DOMAIN b /\ z[n] = b[n - Len(a)]
  <2>1. ASSUME NEW m \in DOMAIN b, b[m].key = k PROVE m <= n - Len(a)
    BY <1>1, <1>4, <1>5, <2>1
  <2>2. b[n - Len(a)].key = k
    BY <1>2, <1>6
  <2> QED BY <1>6, <2>1, <2>2 DEF LastOf
<1>7. CASE n \in DOMAIN a /\ z[n] = a[n]
  <2>1. ASSUME NEW m \in DOMAIN b PROVE b[m].key # k
    BY <1>1, <1>5, <1>7
  <2>2. ASSUME NEW m \in DOMAIN a, a[m].key = k PROVE m <= n
    <3>1. m \in DOMAIN z /\ z[m] = a[m]
      BY <1>1, ConcatAt
    <3> QED BY <1>2, <2>2, <3>1
  <2> QED BY <1>2, <1>7, <2>1, <2>2 DEF LastOf, NoneOf
<1> QED BY <1>2, <1>6, <1>7, ConcatCases

\* Events in two parts act one after the other.
LEMMA KeysConcat ==
    ASSUME NEW a \in Seq(DispatchEntry), NEW b \in Seq(DispatchEntry), NEW d
    PROVE  KeysAfter(d, a \o b) = KeysAfter(KeysAfter(d, a), b)
<1> DEFINE z == a \o b
<1>z. z = a \o b /\ z \in Seq(DispatchEntry)
  OBVIOUS
<1> HIDE DEF z
<1>1. ASSUME NEW k \in KeysAfter(d, z) PROVE k \in KeysAfter(KeysAfter(d, a), b)
  <2>1. k \in KeyCode
    BY <1>z, KeysAfterCases
  <2>2. ASSUME NEW n \in Nat, LastOf(z, k, n), z[n].action = "DOWN"
        PROVE  k \in KeysAfter(KeysAfter(d, a), b)
    <3>1. LastOf(a \o b, k, n)
      BY <1>z, <2>2
    <3>2. \/ n - Len(a) \in DOMAIN b /\ LastOf(b, k, n - Len(a))
             /\ (a \o b)[n] = b[n - Len(a)]
          \/ /\ LastOf(a, k, n) /\ (a \o b)[n] = a[n]
             /\ NoneOf(b, k)
      BY <3>1, LastOfSplit
    <3>3. CASE LastOf(b, k, n - Len(a)) /\ z[n] = b[n - Len(a)]
      BY <2>1, <2>2, <3>3, KeysDown
    <3>4. CASE LastOf(a, k, n) /\ z[n] = a[n] /\ NoneOf(b, k)
      <4>1. k \in KeysAfter(d, a)
        BY <2>1, <2>2, <3>4, KeysDown
      <4> QED BY <2>1, <3>4, <4>1, KeysKept
    <3> QED BY <1>z, <3>2, <3>3, <3>4
  <2>3. ASSUME k \in d, NoneOf(z, k) PROVE k \in KeysAfter(KeysAfter(d, a), b)
    <3>1. NoneOf(a, k) /\ NoneOf(b, k)
      BY <1>z, <2>3, NoneOfConcat
    <3>2. k \in KeysAfter(d, a)
      BY <2>1, <2>3, <3>1, KeysKept
    <3> QED BY <2>1, <3>1, <3>2, KeysKept
  <2> QED BY <1>z, <2>2, <2>3, KeysAfterCases
<1>2. ASSUME NEW k \in KeysAfter(KeysAfter(d, a), b) PROVE k \in KeysAfter(d, z)
  <2>1. k \in KeyCode
    BY KeysAfterCases
  <2>2. ASSUME NEW n \in Nat, LastOf(b, k, n), b[n].action = "DOWN"
        PROVE  k \in KeysAfter(d, z)
    <3>1. LastOf(a \o b, k, Len(a) + n) /\ (a \o b)[Len(a) + n] = b[n]
      BY <2>2, LastOfSecond
    <3>2. LastOf(z, k, Len(a) + n) /\ z[Len(a) + n] = b[n]
      BY <1>z, <3>1
    <3> QED BY <2>1, <2>2, <3>2, KeysDown
  <2>3. ASSUME k \in KeysAfter(d, a), NoneOf(b, k) PROVE k \in KeysAfter(d, z)
    <3>1. ASSUME NEW n \in Nat, LastOf(a, k, n), a[n].action = "DOWN"
          PROVE  k \in KeysAfter(d, z)
      <4>1. LastOf(a \o b, k, n) /\ (a \o b)[n] = a[n]
        BY <2>3, <3>1, LastOfFirst
      <4>2. LastOf(z, k, n) /\ z[n] = a[n]
        BY <1>z, <4>1
      <4> QED BY <2>1, <3>1, <4>2, KeysDown
    <3>2. ASSUME k \in d, NoneOf(a, k) PROVE k \in KeysAfter(d, z)
      <4>1. NoneOf(z, k)
        BY <1>z, <2>3, <3>2, NoneOfConcat
      <4> QED BY <2>1, <3>2, <4>1, KeysKept
    <3> QED BY <2>3, <3>1, <3>2, KeysAfterCases
  <2> QED BY <2>2, <2>3, KeysAfterCases
<1> QED BY <1>z, <1>1, <1>2

LEMMA KeysOne ==
    ASSUME NEW d \in SUBSET KeyCode, NEW e \in DispatchEntry
    PROVE  KeysAfter(d, <<e>>) = KeyState(d, e)
<1>1. e.key \in KeyCode /\ e.action \in {"DOWN", "UP"}
  BY DEF DispatchEntry
<1>2. DOMAIN <<e>> = {1} /\ <<e>>[1] = e
  OBVIOUS
<1>3. KeysAfter(d, <<e>>) =
        {k \in KeyCode : (e.key = k /\ e.action = "DOWN") \/ (k \in d /\ e.key # k)}
  BY <1>2 DEF KeysAfter
<1> QED BY <1>1, <1>3 DEF KeyState

LEMMA KeysType ==
    ASSUME NEW d, NEW q PROVE KeysAfter(d, q) \in SUBSET KeyCode
  BY DEF KeysAfter

LEMMA KeysSame ==
    ASSUME NEW c, NEW d, c \cap Key = d \cap Key, NEW q
    PROVE  KeysAfter(c, q) \cap Key = KeysAfter(d, q) \cap Key
  BY DEF KeysAfter
-----------------------------------------------------------------------------
(* Mementos.                                                                *)

LEMMA RemoveAtIndex ==
    ASSUME NEW S, NEW q \in Seq(S), NEW n \in DOMAIN q
    PROVE  /\ RemoveAt(q, n) \in Seq(S) /\ Len(RemoveAt(q, n)) = Len(q) - 1
           /\ \A m \in 1 .. Len(q) - 1 : m < n => RemoveAt(q, n)[m] = q[m]
           /\ \A m \in 1 .. Len(q) - 1 : ~(m < n) => RemoveAt(q, n)[m] = q[m + 1]
<1> DEFINE a == SubSeq(q, 1, n - 1)
           b == SubSeq(q, n + 1, Len(q))
<1>1. Len(q) \in Nat /\ n \in Nat /\ 1 <= n /\ n <= Len(q)
  OBVIOUS
<1>2. \A i \in 1 .. n - 1 : q[i] \in S
  BY <1>1, ElementOfSeq
<1>3. 1 \in Int /\ n - 1 \in Int /\ n + 1 \in Int /\ Len(q) \in Int
  BY <1>1
<1>4. /\ a \in Seq(S) /\ Len(a) = IF 1 <= n - 1 THEN (n - 1) - 1 + 1 ELSE 0
      /\ \A i \in 1 .. (n - 1) - 1 + 1 : a[i] = q[1 + i - 1]
  BY <1>2, <1>3, SubSeqProperties
<1>5. \A i \in n + 1 .. Len(q) : q[i] \in S
  BY <1>1, ElementOfSeq
<1>6. /\ b \in Seq(S) /\ Len(b) = IF n + 1 <= Len(q) THEN Len(q) - (n + 1) + 1 ELSE 0
      /\ \A i \in 1 .. Len(q) - (n + 1) + 1 : b[i] = q[(n + 1) + i - 1]
  BY <1>3, <1>5, SubSeqProperties
<1>7. RemoveAt(q, n) = a \o b
  BY DEF RemoveAt
<1> HIDE DEF a, b
<1>8. Len(a) = n - 1 /\ Len(b) = Len(q) - n
  BY <1>1, <1>4, <1>6
<1>9. /\ a \o b \in Seq(S) /\ Len(a \o b) = Len(a) + Len(b)
      /\ \A i \in 1 .. Len(a) + Len(b) : (a \o b)[i] =
                     IF i <= Len(a) THEN a[i] ELSE b[i - Len(a)]
  BY <1>4, <1>6, ConcatProperties
<1>10. ASSUME NEW m \in 1 .. Len(q) - 1, m < n PROVE (a \o b)[m] = q[m]
  <2>1. (a \o b)[m] = a[m]
    BY <1>1, <1>8, <1>9, <1>10
  <2>2. m \in 1 .. (n - 1) - 1 + 1 /\ 1 + m - 1 = m
    BY <1>1, <1>10
  <2> QED BY <1>4, <2>1, <2>2
<1>11. ASSUME NEW m \in 1 .. Len(q) - 1, ~(m < n) PROVE (a \o b)[m] = q[m + 1]
  <2>0. m \in 1 .. Len(a) + Len(b) /\ ~(m <= Len(a))
    BY <1>1, <1>8, <1>11
  <2>1. (a \o b)[m] = b[m - (n - 1)]
    BY <1>8, <1>9, <2>0
  <2>2. m - (n - 1) \in 1 .. Len(q) - (n + 1) + 1 /\ (n + 1) + (m - (n - 1)) - 1 = m + 1
    BY <1>1, <1>11
  <2> QED BY <1>6, <2>1, <2>2
<1>12. Len(a \o b) = Len(q) - 1
  BY <1>1, <1>8, <1>9
<1> QED BY <1>7, <1>9, <1>10, <1>11, <1>12

LEMMA RemoveMemento ==
    ASSUME NEW q, Mementos(q), NEW n \in DOMAIN q
    PROVE  /\ Mementos(RemoveAt(q, n)) /\ KeysOf(RemoveAt(q, n)) = KeysOf(q) \ {q[n].key}
           /\ n = 1 => RemoveAt(q, n) = Tail(q)
<1> DEFINE r == RemoveAt(q, n)
           at(m) == IF m < n THEN m ELSE m + 1
<1>1. q \in Seq(Memento) /\ Len(q) \in Nat /\ n \in 1 .. Len(q) /\ DOMAIN q = 1 .. Len(q)
  BY DEF Mementos
<1>2. /\ r \in Seq(Memento) /\ Len(r) = Len(q) - 1
      /\ \A m \in 1 .. Len(q) - 1 : m < n => r[m] = q[m]
      /\ \A m \in 1 .. Len(q) - 1 : ~(m < n) => r[m] = q[m + 1]
  BY <1>1, RemoveAtIndex
<1> HIDE DEF r
<1>3. DOMAIN r = 1 .. Len(q) - 1
  BY <1>1, <1>2
<1>4. ASSUME NEW m \in DOMAIN r
      PROVE  /\ m \in Int /\ at(m) \in DOMAIN q /\ at(m) # n /\ r[m] = q[at(m)]
  BY <1>1, <1>2, <1>3
<1>5. \A m, o \in DOMAIN r : at(m) = at(o) => m = o
  BY <1>1, <1>3
<1>6. ASSUME NEW o \in DOMAIN q, o # n PROVE \E m \in DOMAIN r : r[m] = q[o]
  <2>1. CASE o < n
    <3>1. o \in 1 .. Len(q) - 1
      BY <1>1, <2>1
    <3> QED BY <1>2, <1>3, <2>1, <3>1
  <2>2. CASE o > n
    <3>1. o - 1 \in 1 .. Len(q) - 1 /\ ~(o - 1 < n) /\ (o - 1) + 1 = o
      BY <1>1, <2>2
    <3> QED BY <1>2, <1>3, <3>1
  <2> QED BY <1>1, <1>6, <2>1, <2>2
<1> HIDE DEF at
<1>7. ASSUME NEW m \in DOMAIN r, NEW o \in DOMAIN r, r[m].key = r[o].key PROVE m = o
  <2>1. at(m) = at(o)
    BY <1>4, <1>7 DEF Mementos
  <2> QED BY <1>5, <2>1
<1>8. \A m \in DOMAIN r : ~r[m].fallback /\ r[m].key \in Key
  BY <1>4 DEF Mementos
<1>9. KeysOf(r) = KeysOf(q) \ {q[n].key}
  <2>1. ASSUME NEW m \in DOMAIN r PROVE r[m].key \in KeysOf(q) \ {q[n].key}
    <3>1. at(m) \in DOMAIN q /\ at(m) # n /\ r[m] = q[at(m)]
      BY <1>4
    <3> QED BY <3>1 DEF KeysOf, Mementos
  <2>2. ASSUME NEW o \in DOMAIN q, q[o].key # q[n].key PROVE q[o].key \in KeysOf(r)
    BY <1>6, <2>2 DEF KeysOf
  <2> QED BY <2>1, <2>2 DEF KeysOf
<1>10. n = 1 => r = Tail(q)
  <2> SUFFICES ASSUME n = 1 PROVE r = Tail(q)
    OBVIOUS
  <2>1. q # <<>>
    BY <1>1
  <2>2. /\ Tail(q) \in Seq(Memento) /\ Len(Tail(q)) = Len(q) - 1
        /\ \A i \in 1 .. Len(Tail(q)) : Tail(q)[i] = q[i + 1]
    BY <1>1, <2>1, HeadTailProperties
  <2>3. \A i \in 1 .. Len(q) - 1 : ~(i < 1)
    BY <1>1
  <2>4. \A i \in 1 .. Len(r) : r[i] = Tail(q)[i]
    BY <1>2, <2>2, <2>3
  <2> QED BY <1>2, <2>2, <2>4, SeqEqual
<1> QED BY <1>2, <1>7, <1>8, <1>9, <1>10 DEF Mementos, r

LEMMA AppendMemento ==
    ASSUME NEW q, Mementos(q), NEW k \in Key, k \notin KeysOf(q)
    PROVE  LET r == Append(q, [key |-> k, fallback |-> FALSE])
           IN  Mementos(r) /\ KeysOf(r) = KeysOf(q) \cup {k}
<1> DEFINE x == [key |-> k, fallback |-> FALSE]
           r == Append(q, x)
<1>1. x \in Memento /\ x.key = k /\ x.fallback = FALSE
  BY DEF Memento, KeyCode
<1> HIDE DEF x
<1>2. q \in Seq(Memento) /\ Len(q) \in Nat /\ DOMAIN q = 1 .. Len(q)
  BY DEF Mementos
<1>3. /\ r \in Seq(Memento) /\ DOMAIN r = 1 .. Len(q) + 1
      /\ \A n \in 1 .. Len(q) : r[n] = q[n]
      /\ r[Len(q) + 1] = x
  BY <1>1, <1>2
<1> HIDE DEF r
<1>4. \A n \in DOMAIN r : n \in DOMAIN q \/ n = Len(q) + 1
  BY <1>2, <1>3
<1>5. \A n \in DOMAIN q : q[n].key # k
  BY DEF KeysOf
<1>6. \A m, n \in DOMAIN r : r[m].key = r[n].key => m = n
  BY <1>1, <1>2, <1>3, <1>4, <1>5 DEF Mementos
<1>7. \A n \in DOMAIN r : ~r[n].fallback /\ r[n].key \in Key
  BY <1>1, <1>2, <1>3, <1>4 DEF Mementos
<1>8. KeysOf(r) = KeysOf(q) \cup {k}
  <2>1. Len(q) + 1 \in DOMAIN r
    BY <1>2, <1>3
  <2>2. \A n \in DOMAIN q : n \in DOMAIN r /\ r[n] = q[n]
    BY <1>2, <1>3
  <2>3. KeysOf(r) \subseteq KeysOf(q) \cup {k}
    BY <1>1, <1>3, <1>4, <2>2 DEF KeysOf
  <2>4. KeysOf(q) \cup {k} \subseteq KeysOf(r)
    BY <1>1, <1>3, <2>1, <2>2 DEF KeysOf
  <2> QED BY <2>3, <2>4
<1> QED BY <1>3, <1>6, <1>7, <1>8 DEF Mementos, r, x

\* What trackKey makes of the mementos.
LEMMA TrackKey ==
    ASSUME NEW c \in Connection, Mementos(c.mKeyMementos),
           NEW e \in DispatchEntry, ~e.fallback, e.key \in Key
    PROVE  LET t == trackKey(c, e)
           IN  /\ t \in Connection /\ t.status = c.status /\ t.blocked = c.blocked
               /\ t.outboundQueue = c.outboundQueue /\ t.waitQueue = c.waitQueue
               /\ Mementos(t.mKeyMementos)
               /\ KeysOf(t.mKeyMementos) = KeyState(KeysOf(c.mKeyMementos), e)
               /\ (/\ e.action = "UP" /\ c.mKeyMementos # <<>>
                   /\ c.mKeyMementos[1].key = e.key)
                  => t.mKeyMementos = Tail(c.mKeyMementos)
<1> DEFINE q == c.mKeyMementos
           found == findKeyMemento(c, e.key)
           n == CHOOSE m \in found : TRUE
           others == IF found = {} THEN q ELSE RemoveAt(q, n)
           t == trackKey(c, e)
<1>1. q \in Seq(Memento)
  BY DEF Mementos
<1>2. found = {m \in DOMAIN q : q[m].key = e.key}
  BY DEF findKeyMemento
<1>3. Mementos(others) /\ KeysOf(others) = KeysOf(q) \ {e.key}
  <2>1. CASE found = {}
    BY <1>2, <2>1 DEF KeysOf
  <2>2. CASE found # {}
    <3>1. n \in found
      BY <2>2
    <3>2. n \in DOMAIN q /\ q[n].key = e.key
      BY <1>2, <3>1
    <3> HIDE DEF n
    <3> QED BY <2>2, <3>2, RemoveMemento
  <2> QED BY <2>1, <2>2
<1>4. q # <<>> /\ q[1].key = e.key => others = Tail(q)
  <2> SUFFICES ASSUME q # <<>>, q[1].key = e.key PROVE others = Tail(q)
    OBVIOUS
  <2>1. 1 \in DOMAIN q
    BY <1>1
  <2>2. found # {}
    BY <1>2, <2>1
  <2>3. n \in found
    BY <2>2
  <2>4. n = 1
    BY <1>2, <2>1, <2>3 DEF Mementos
  <2>5. Mementos(q)
    OBVIOUS
  <2> HIDE DEF n, found, q
  <2> QED BY <2>1, <2>2, <2>4, <2>5, RemoveMemento
<1> HIDE DEF n, found
<1>5. CASE e.action = "DOWN"
  <2> DEFINE r == Append(others, [key |-> e.key, fallback |-> FALSE])
  <2>1. e.fallback = FALSE
    BY DEF DispatchEntry
  <2>2. t = [c EXCEPT !.mKeyMementos = r]
    BY <1>5, <2>1 DEF trackKey, found, n
  <2>3. Mementos(r) /\ KeysOf(r) = KeysOf(others) \cup {e.key}
    BY <1>3, AppendMemento
  <2>4. KeysOf(r) = KeyState(KeysOf(q), e)
    BY <1>3, <1>5, <2>3 DEF KeyState
  <2>5. r \in Seq(Memento)
    BY <2>3 DEF Mementos
  <2> HIDE DEF r, t, others
  <2>6. /\ t \in Connection /\ t.status = c.status /\ t.blocked = c.blocked
        /\ t.outboundQueue = c.outboundQueue /\ t.waitQueue = c.waitQueue
        /\ t.mKeyMementos = r
    BY <2>2, <2>5 DEF Connection, Memento
  <2> QED BY <1>5, <2>3, <2>4, <2>6 DEF t
<1>6. CASE e.action = "UP"
  <2> DEFINE r == [k \in Key |-> IF e.fallback /\ c.mFallbackKeys[k] = e.key
                                 THEN "none" ELSE c.mFallbackKeys[k]]
  <2>1. t = [c EXCEPT !.mKeyMementos = others, !.mFallbackKeys = r]
    BY <1>6 DEF trackKey, found, n
  <2>2. r \in [Key -> FallbackCode]
    BY DEF Connection, FallbackCode
  <2>3. KeysOf(others) = KeyState(KeysOf(q), e)
    BY <1>3, <1>6 DEF KeyState
  <2>4. others \in Seq(Memento)
    BY <1>3 DEF Mementos
  <2> HIDE DEF r, t, others
  <2>5. /\ t \in Connection /\ t.status = c.status /\ t.blocked = c.blocked
        /\ t.outboundQueue = c.outboundQueue /\ t.waitQueue = c.waitQueue
        /\ t.mKeyMementos = others
    BY <2>1, <2>2, <2>4 DEF Connection, Memento
  <2> QED BY <1>3, <1>4, <1>6, <2>3, <2>5 DEF t
<1>7. e.action \in {"DOWN", "UP"}
  BY DEF DispatchEntry
<1> QED BY <1>5, <1>6, <1>7
-----------------------------------------------------------------------------
(* Counting the dispatches of an injected event.                            *)

\* The dispatches of other windows stay.
LEMMA ForegroundFrame ==
    ASSUME NEW s, NEW t, NEW w \in Window, NEW i,
           \A v \in Window \ {w} : Dispatches(t, v, i) = Dispatches(s, v, i)
    PROVE  /\ Foreground(t, i) =
                 (Foreground(s, i) \ Dispatches(s, w, i)) \cup Dispatches(t, w, i)
           /\ Dispatches(s, w, i) \subseteq Foreground(s, i)
           /\ \A x : x \in Foreground(s, i) /\ x[1] = w => x \in Dispatches(s, w, i)
<1>1. ASSUME NEW v \in Window, NEW u, NEW x \in Dispatches(u, v, i) PROVE x[1] = v
  BY DEF Dispatches
<1>2. ASSUME NEW x \in Foreground(t, i)
      PROVE  x \in (Foreground(s, i) \ Dispatches(s, w, i)) \cup Dispatches(t, w, i)
  <2>1. PICK v \in Window : x \in Dispatches(t, v, i)
    BY DEF Foreground
  <2>2. CASE v # w
    <3>1. x \in Dispatches(s, v, i)
      BY <2>1, <2>2
    <3>2. x \notin Dispatches(s, w, i)
      BY <1>1, <2>1, <2>2
    <3> QED BY <3>1, <3>2 DEF Foreground
  <2> QED BY <2>1, <2>2
<1>3. ASSUME NEW x \in Foreground(s, i), x \notin Dispatches(s, w, i)
      PROVE  x \in Foreground(t, i)
  <2>1. PICK v \in Window : x \in Dispatches(s, v, i)
    BY DEF Foreground
  <2> QED BY <1>3, <2>1 DEF Foreground
<1>4. Dispatches(t, w, i) \subseteq Foreground(t, i)
  BY DEF Foreground
<1>5. Dispatches(s, w, i) \subseteq Foreground(s, i)
  BY DEF Foreground
<1>6. ASSUME NEW x \in Foreground(s, i), x[1] = w PROVE x \in Dispatches(s, w, i)
  <2>1. PICK v \in Window : x \in Dispatches(s, v, i)
    BY DEF Foreground
  <2> QED BY <1>1, <1>6, <2>1
<1> QED BY <1>2, <1>3, <1>4, <1>5, <1>6

\* The four ways in which a call changes the dispatches of a window.
Recounts(s, t, w, i) ==
    \/ /\ Dispatches(t, w, i) = Dispatches(s, w, i)
       /\ t.injection[i].pending = s.injection[i].pending
    \/ \E x : /\ x[1] = w /\ x \notin Dispatches(s, w, i)
              /\ Dispatches(t, w, i) = Dispatches(s, w, i) \cup {x}
              /\ t.injection[i].pending = s.injection[i].pending + 1
    \/ \E x : /\ x \in Dispatches(s, w, i)
              /\ Dispatches(t, w, i) = Dispatches(s, w, i) \ {x}
              /\ t.injection[i].pending = s.injection[i].pending - 1
    \/ /\ Dispatches(t, w, i) = {}
       /\ t.injection[i].pending =
             s.injection[i].pending - Cardinality(Dispatches(s, w, i))

LEMMA Recounted ==
    ASSUME NEW s, NEW t, Counted(s), NEW w \in Window,
           \A i \in Injector : /\ Recounts(s, t, w, i)
                               /\ \A v \in Window \ {w} :
                                    Dispatches(t, v, i) = Dispatches(s, v, i)
    PROVE  Counted(t) /\ \A i \in Injector : t.injection[i].pending \in Nat
<1> SUFFICES ASSUME NEW i \in Injector
             PROVE  /\ IsFiniteSet(Foreground(t, i))
                    /\ t.injection[i].pending = Cardinality(Foreground(t, i))
                    /\ t.injection[i].pending \in Nat
  BY DEF Counted
<1> DEFINE F == Foreground(s, i)
           G == Foreground(t, i)
           D == Dispatches(s, w, i)
           E == Dispatches(t, w, i)
           n == s.injection[i].pending
           m == t.injection[i].pending
<1>1. IsFiniteSet(F) /\ n = Cardinality(F)
  BY DEF Counted
<1>2. n \in Nat
  BY <1>1, FS_CardinalityType
<1>3. /\ G = (F \ D) \cup E /\ D \subseteq F
      /\ \A x : x \in F /\ x[1] = w => x \in D
  BY ForegroundFrame
<1>4. \/ E = D /\ m = n
      \/ \E x : x[1] = w /\ x \notin D /\ E = D \cup {x} /\ m = n + 1
      \/ \E x : x \in D /\ E = D \ {x} /\ m = n - 1
      \/ E = {} /\ m = n - Cardinality(D)
  BY DEF Recounts
<1> SUFFICES IsFiniteSet(G) /\ m = Cardinality(G)
  BY FS_CardinalityType
<1> HIDE DEF F, G, D, E, n, m
<1>5. CASE E = D /\ m = n
  <2>1. G = F
    BY <1>3, <1>5
  <2> QED BY <1>1, <1>5, <2>1
<1>6. CASE \E x : x[1] = w /\ x \notin D /\ E = D \cup {x} /\ m = n + 1
  <2>1. PICK x : x[1] = w /\ x \notin D /\ E = D \cup {x} /\ m = n + 1
    BY <1>6
  <2>2. x \notin F /\ G = F \cup {x}
    BY <1>3, <2>1
  <2>3. IsFiniteSet(F \cup {x}) /\ Cardinality(F \cup {x}) = Cardinality(F) + 1
    BY <1>1, <2>2, FS_AddElement
  <2> QED BY <1>1, <2>1, <2>2, <2>3
<1>7. CASE \E x : x \in D /\ E = D \ {x} /\ m = n - 1
  <2>1. PICK x : x \in D /\ E = D \ {x} /\ m = n - 1
    BY <1>7
  <2>2. x \in F /\ G = F \ {x}
    BY <1>3, <2>1
  <2>3. IsFiniteSet(F \ {x}) /\ Cardinality(F \ {x}) = Cardinality(F) - 1
    BY <1>1, <2>2, FS_RemoveElement
  <2> QED BY <1>1, <2>1, <2>2, <2>3
<1>8. CASE E = {} /\ m = n - Cardinality(D)
  <2>1. G = F \ D /\ F \cap D = D
    BY <1>3, <1>8
  <2>2. IsFiniteSet(F \ D) /\ Cardinality(F \ D) = Cardinality(F) - Cardinality(F \cap D)
    BY <1>1, FS_Difference
  <2> QED BY <1>1, <1>8, <2>1, <2>2
<1> QED BY <1>4, <1>5, <1>6, <1>7, <1>8

LEMMA ToSetConcat ==
    ASSUME NEW a \in Seq(DispatchEntry), NEW b \in Seq(DispatchEntry)
    PROVE  ToSet(a \o b) = ToSet(a) \cup ToSet(b)
<1>1. ToSet(a \o b) \subseteq ToSet(a) \cup ToSet(b)
  BY ConcatCases DEF ToSet
<1>2. ASSUME NEW n \in DOMAIN a PROVE a[n] \in ToSet(a \o b)
  <2>1. n \in DOMAIN (a \o b) /\ (a \o b)[n] = a[n]
    BY ConcatAt
  <2> QED BY <2>1 DEF ToSet
<1>3. ASSUME NEW n \in DOMAIN b PROVE b[n] \in ToSet(a \o b)
  <2>1. Len(a) + n \in DOMAIN (a \o b) /\ (a \o b)[Len(a) + n] = b[n]
    BY ConcatAt
  <2> QED BY <2>1 DEF ToSet
<1> QED BY <1>1, <1>2, <1>3 DEF ToSet

\* The foreground entries of some, by their numbers.
ForegroundOf(w, X, i) ==
    {<<w, e.seq>> : e \in {x \in X : x.foreground /\ x.injector = i}}

\* The dispatches of a window are told by its two queues.
LEMMA DispatchesAt ==
    ASSUME NEW s, NEW w, NEW i,
           s.connection[w].outboundQueue \in Seq(DispatchEntry),
           s.connection[w].waitQueue \in Seq(DispatchEntry)
    PROVE  Dispatches(s, w, i) =
              ForegroundOf(w, ToSet(s.connection[w].outboundQueue)
                                 \cup ToSet(s.connection[w].waitQueue), i)
<1> DEFINE a == s.connection[w].outboundQueue
           b == s.connection[w].waitQueue
<1> SUFFICES ToSet(a \o b) = ToSet(a) \cup ToSet(b)
  BY DEF Dispatches, ForegroundOf
<1>0. a \in Seq(DispatchEntry) /\ b \in Seq(DispatchEntry)
  OBVIOUS
<1> HIDE DEF a, b
<1> QED BY <1>0, ToSetConcat

\* An entry with a new number joins them.
Adds(s, t, w, i, e) ==
    Dispatches(t, w, i) =
        Dispatches(s, w, i) \cup
           (IF e.foreground /\ e.injector = i THEN {<<w, e.seq>>} ELSE {})

LEMMA DispatchesAdd ==
    ASSUME NEW s, NEW t, NEW w, NEW i, NEW e \in DispatchEntry,
           NEW a \in Seq(DispatchEntry), NEW b \in Seq(DispatchEntry),
           s.connection[w].outboundQueue = a, s.connection[w].waitQueue = b,
           t.connection[w].outboundQueue = Append(a, e), t.connection[w].waitQueue = b
    PROVE  Adds(s, t, w, i, e)
<1>1. ToSet(Append(a, e)) = ToSet(a) \cup {e}
  <2>1. /\ DOMAIN Append(a, e) = 1 .. Len(a) + 1 /\ DOMAIN a = 1 .. Len(a)
        /\ Len(a) \in Nat /\ Append(a, e)[Len(a) + 1] = e
        /\ \A n \in 1 .. Len(a) : Append(a, e)[n] = a[n]
    OBVIOUS
  <2>2. \A n \in 1 .. Len(a) + 1 : n \in 1 .. Len(a) \/ n = Len(a) + 1
    BY <2>1
  <2>3. Len(a) + 1 \in 1 .. Len(a) + 1 /\ 1 .. Len(a) \subseteq 1 .. Len(a) + 1
    BY <2>1
  <2> QED BY <2>1, <2>2, <2>3 DEF ToSet
<1> DEFINE c == Append(a, e)
           X == ToSet(a) \cup ToSet(b)
           Y == ToSet(c) \cup ToSet(b)
<1>2. c \in Seq(DispatchEntry) /\ t.connection[w].outboundQueue = c
  OBVIOUS
<1> HIDE DEF c
<1>3. Dispatches(s, w, i) = ForegroundOf(w, X, i)
  BY DispatchesAt
<1>4. Dispatches(t, w, i) = ForegroundOf(w, Y, i)
  BY <1>2, DispatchesAt
<1>5. Y = X \cup {e}
  BY <1>1 DEF c
<1> HIDE DEF X, Y
<1> QED BY <1>3, <1>4, <1>5 DEF ForegroundOf, Adds

LEMMA ToSetRemove ==
    ASSUME NEW q \in Seq(DispatchEntry), NEW n \in DOMAIN q, Unique(q)
    PROVE  ToSet(RemoveAt(q, n)) = ToSet(q) \ {q[n]}
<1> DEFINE r == RemoveAt(q, n)
           e == q[n]
<1>1. PICK a, b, one \in Seq(DispatchEntry) :
          one = <<q[n]>> /\ q = a \o (one \o b) /\ RemoveAt(q, n) = a \o b
  <2>1. TakesOut(DispatchEntry, q, n)
    BY RemovesAt
  <2> QED BY <2>1 DEF TakesOut
<1>2. ToSet(one) = {e}
  BY <1>1 DEF ToSet
<1>3. r = a \o b /\ one \o b \in Seq(DispatchEntry)
  BY <1>1, ConcatAt
<1>4. ToSet(r) = ToSet(a) \cup ToSet(b)
  BY <1>3, ToSetConcat
<1>5. ToSet(q) = ToSet(a) \cup (ToSet(one) \cup ToSet(b))
  <2> DEFINE x == one \o b
  <2>1. x \in Seq(DispatchEntry) /\ q = a \o x
    BY <1>1, <1>3
  <2>2. ToSet(x) = ToSet(one) \cup ToSet(b)
    BY ToSetConcat
  <2> HIDE DEF x
  <2>3. ToSet(q) = ToSet(a) \cup ToSet(x)
    BY <2>1, ToSetConcat
  <2> QED BY <2>2, <2>3
<1>6. e \notin ToSet(r)
  <2>1. e.seq \notin Seqs(r)
    BY Removed
  <2> QED BY <2>1 DEF ToSet, Seqs
<1> QED BY <1>2, <1>4, <1>5, <1>6

\* The entries of the two queues of a connection.
Entries(c) == ToSet(c.outboundQueue) \cup ToSet(c.waitQueue)

LEMMA DispatchesOf ==
    ASSUME NEW s, NEW w, NEW i, s.connection[w] \in Connection
    PROVE  Dispatches(s, w, i) = ForegroundOf(w, Entries(s.connection[w]), i)
<1>1. /\ s.connection[w].outboundQueue \in Seq(DispatchEntry)
      /\ s.connection[w].waitQueue \in Seq(DispatchEntry)
  BY DEF Connection
<1> QED BY <1>1, DispatchesAt DEF Entries

LEMMA EntriesUnique ==
    ASSUME NEW c, NEW seq, QueuesOK(c, seq), NEW x \in Entries(c), NEW y \in Entries(c),
           x.seq = y.seq
    PROVE  x = y
<1>1. \A z \in ToSet(c.outboundQueue) : z.seq \in Seqs(c.outboundQueue)
  BY DEF ToSet, Seqs
<1>2. \A z \in ToSet(c.waitQueue) : z.seq \in Seqs(c.waitQueue)
  BY DEF ToSet, Seqs
<1>3. Seqs(c.outboundQueue) \cap Seqs(c.waitQueue) = {}
  BY DEF QueuesOK
<1>4. CASE x \in ToSet(c.outboundQueue) /\ y \in ToSet(c.outboundQueue)
  BY <1>4 DEF ToSet, QueuesOK, Unique
<1>5. CASE x \in ToSet(c.waitQueue) /\ y \in ToSet(c.waitQueue)
  BY <1>5 DEF ToSet, QueuesOK, Unique
<1> QED BY <1>1, <1>2, <1>3, <1>4, <1>5 DEF Entries
-----------------------------------------------------------------------------
(* The commands.                                                            *)

LEMMA FinishAppend ==
    ASSUME NEW q \in Seq(Command), NEW x \in Command, x.type # "finished", NEW w
    PROVE  /\ Append(q, x) \in Seq(Command)
           /\ FinishSeqs(Append(q, x), w) = FinishSeqs(q, w)
           /\ FinishOnce(q, w) => FinishOnce(Append(q, x), w)
<1> DEFINE r == Append(q, x)
<1>1. /\ r \in Seq(Command) /\ DOMAIN r = 1 .. Len(q) + 1 /\ DOMAIN q = 1 .. Len(q)
      /\ Len(q) \in Nat /\ r[Len(q) + 1] = x /\ \A n \in 1 .. Len(q) : r[n] = q[n]
  OBVIOUS
<1> HIDE DEF r
<1>2. \A n \in DOMAIN r : r[n].type = "finished" => n \in DOMAIN q /\ r[n] = q[n]
  BY <1>1
<1>3. \A n \in DOMAIN q : n \in DOMAIN r /\ r[n] = q[n]
  BY <1>1
<1>4. FinishSeqs(r, w) = FinishSeqs(q, w)
  BY <1>2, <1>3 DEF FinishSeqs
<1>5. FinishOnce(q, w) => FinishOnce(r, w)
  BY <1>2 DEF FinishOnce
<1> QED BY <1>1, <1>4, <1>5 DEF r

LEMMA FinishTail ==
    ASSUME NEW q \in Seq(Command), q # <<>>, NEW w
    PROVE  /\ Head(q) \in Command /\ Tail(q) \in Seq(Command)
           /\ FinishOnce(q, w) => FinishOnce(Tail(q), w)
           /\ ~(Head(q).type = "finished" /\ Head(q).window = w)
                 => FinishSeqs(Tail(q), w) = FinishSeqs(q, w)
           /\ Head(q).type = "finished" /\ Head(q).window = w =>
                 /\ Head(q).seq \in FinishSeqs(q, w)
                 /\ FinishOnce(q, w) =>
                      FinishSeqs(Tail(q), w) = FinishSeqs(q, w) \ {Head(q).seq}
<1> DEFINE r == Tail(q)
           x == Head(q)
<1>1. /\ x \in Command /\ r \in Seq(Command) /\ Len(q) \in Nat \ {0} /\ x = q[1]
      /\ DOMAIN q = 1 .. Len(q) /\ DOMAIN r = 1 .. Len(q) - 1
      /\ \A n \in 1 .. Len(q) - 1 : r[n] = q[n + 1]
  OBVIOUS
<1> HIDE DEF r, x
<1>2. 1 \in DOMAIN q
  BY <1>1
<1>3. \A n \in DOMAIN r : n \in Nat /\ n + 1 \in DOMAIN q /\ n + 1 # 1 /\ r[n] = q[n + 1]
  BY <1>1
<1>4. ASSUME NEW n \in DOMAIN q, n # 1 PROVE \E m \in DOMAIN r : r[m] = q[n]
  <2>1. n - 1 \in DOMAIN r /\ (n - 1) + 1 = n
    BY <1>1, <1>4
  <2> QED BY <1>3, <2>1
<1>5. FinishOnce(q, w) => FinishOnce(r, w)
  <2> SUFFICES ASSUME FinishOnce(q, w), NEW m \in DOMAIN r, NEW n \in DOMAIN r,
                      r[m].type = "finished" /\ r[m].window = w,
                      r[n].type = "finished" /\ r[n].window = w,
                      r[m].seq = r[n].seq
               PROVE  m = n
    BY DEF FinishOnce
  <2>1. m + 1 = n + 1
    BY <1>3 DEF FinishOnce
  <2> QED BY <1>3, <2>1
<1>6. FinishSeqs(r, w) \subseteq FinishSeqs(q, w)
  BY <1>3 DEF FinishSeqs
<1>7. ASSUME NEW n \in DOMAIN q, q[n].type = "finished", q[n].window = w,
             n # 1 PROVE q[n].seq \in FinishSeqs(r, w)
  <2>1. PICK m \in DOMAIN r : r[m] = q[n]
    BY <1>4, <1>7
  <2> QED BY <1>7, <2>1 DEF FinishSeqs
<1>8. CASE ~(x.type = "finished" /\ x.window = w)
  <2>1. FinishSeqs(q, w) \subseteq FinishSeqs(r, w)
    BY <1>1, <1>7, <1>8 DEF FinishSeqs
  <2> QED BY <1>1, <1>5, <1>6, <1>8, <2>1 DEF x, r
<1>9. CASE x.type = "finished" /\ x.window = w
  <2>1. x.seq \in FinishSeqs(q, w)
    BY <1>1, <1>2, <1>9 DEF FinishSeqs
  <2>2. FinishSeqs(q, w) \subseteq FinishSeqs(r, w) \cup {x.seq}
    BY <1>1, <1>7 DEF FinishSeqs
  <2>3. FinishOnce(q, w) => x.seq \notin FinishSeqs(r, w)
    <3> SUFFICES ASSUME FinishOnce(q, w), NEW n \in DOMAIN r, r[n].type = "finished",
                        r[n].window = w, r[n].seq = x.seq
                 PROVE  FALSE
      BY DEF FinishSeqs
    <3> QED BY <1>1, <1>2, <1>3, <1>9 DEF FinishOnce
  <2> QED BY <1>1, <1>5, <1>6, <1>9, <2>1, <2>2, <2>3 DEF x, r
<1> QED BY <1>8, <1>9
-----------------------------------------------------------------------------
(* What a call leaves alone.                                                *)

Same(s, t, v) ==
    /\ t.connection[v] = s.connection[v] /\ t.pipe[v] = s.pipe[v]
    /\ FinishSeqs(t.commands, v) = FinishSeqs(s.commands, v)
    /\ FinishOnce(s.commands, v) => FinishOnce(t.commands, v)
    /\ s.seq <= t.seq

LEMMA QueuesLater ==
    ASSUME NEW c \in Connection, NEW m \in Nat, NEW n \in Nat, m <= n, QueuesOK(c, m)
    PROVE  QueuesOK(c, n)
<1>1. ASSUME NEW q \in Seq(DispatchEntry) PROVE Seqs(q) \subseteq Nat
  <2>1. \A k \in DOMAIN q : q[k] \in DispatchEntry
    OBVIOUS
  <2> QED BY <2>1 DEF Seqs, DispatchEntry
<1>2. c.outboundQueue \in Seq(DispatchEntry) /\ c.waitQueue \in Seq(DispatchEntry)
  BY DEF Connection
<1>3. Seqs(c.outboundQueue) \cup Seqs(c.waitQueue) \subseteq Nat
  BY <1>1, <1>2
<1>4. \A x \in Seqs(c.outboundQueue) \cup Seqs(c.waitQueue) : x < n
  BY <1>3 DEF QueuesOK
<1> QED BY <1>4 DEF QueuesOK

LEMMA WorldFields ==
    ASSUME NEW s \in WorldType
    PROVE  /\ s.connection \in [Window -> Connection] /\ s.commands \in Seq(Command)
           /\ s.injection \in [Injector -> InjectionState] /\ s.seq \in Nat \ {0}
           /\ s.pipe \in [Window -> Seq(DispatchEntry)]
           /\ \A v \in Window :
                 s.connection[v] \in Connection /\ s.pipe[v] \in Seq(DispatchEntry)
  BY DEF WorldType

LEMMA SameWindow ==
    ASSUME NEW s \in WorldType, NEW t \in WorldType, NEW p, NEW cmd, NEW dmd,
           NEW Q, NEW U, NEW V, NEW v \in Window, WindowOK(s, p, cmd, Q, U, v),
           Same(s, t, v), InHand(dmd, v) = InHand(cmd, v), v \in U => v \in V
    PROVE  WindowOK(t, p, dmd, Q, V, v)
<1>1. /\ s.connection[v] \in Connection /\ s.seq \in Nat /\ t.seq \in Nat
  BY WorldFields
<1>2. QueuesOK(t.connection[v], t.seq)
  BY <1>1, QueuesLater DEF WindowOK, Same
<1>3. LiveOK(s, p, cmd, U, v)
  BY DEF WindowOK
<1>4. IsLive(t, p, v) => IsLive(s, p, v)
  BY DEF IsLive, Same
<1>5. PlacesOK(s, p, cmd, v) => PlacesOK(t, p, dmd, v)
  BY DEF PlacesOK, Same
<1>6. BlockedOK(s, p, v) => BlockedOK(t, p, v)
  BY DEF BlockedOK, Same
<1>7. StartedOK(s.connection[v], v \in U) => StartedOK(t.connection[v], v \in V)
  BY DEF StartedOK, Same
<1>8. KeysOK(s, p, v) => KeysOK(t, p, v)
  BY DEF KeysOK, Same
<1>9. LiveOK(t, p, dmd, V, v)
  BY <1>3, <1>4, <1>5, <1>6, <1>7, <1>8 DEF LiveOK
<1>10. UnusedOK(t, p, v)
  BY DEF WindowOK, UnusedOK, Same
<1> QED BY <1>2, <1>9, <1>10 DEF WindowOK, Same

\* A call that changes one window.
LEMMA Frame ==
    ASSUME NEW s, NEW t \in WorldType, NEW p, NEW cmd, NEW dmd, NEW Q, NEW U, NEW V,
           Good(s, p, cmd, Q, U), Counted(t), HandOK(t, dmd), NEW w \in Window,
           \A v \in Window \ {w} : /\ Same(s, t, v) /\ InHand(dmd, v) = InHand(cmd, v)
                                   /\ v \in U => v \in V,
           WindowOK(t, p, dmd, Q, V, w)
    PROVE  Good(t, p, dmd, Q, V)
<1>1. s \in WorldType
  BY DEF Good
<1>2. ASSUME NEW v \in Window \ {w} PROVE WindowOK(t, p, dmd, Q, V, v)
  <2>1. WindowOK(s, p, cmd, Q, U, v)
    BY DEF Good
  <2>2. Same(s, t, v) /\ InHand(dmd, v) = InHand(cmd, v) /\ (v \in U => v \in V)
    OBVIOUS
  <2> QED BY <1>1, <2>1, <2>2, SameWindow
<1> QED BY <1>2 DEF Good

\* A call that changes no window.
LEMMA FrameAll ==
    ASSUME NEW s, NEW t \in WorldType, NEW p, NEW cmd, NEW dmd, NEW Q, NEW U,
           Good(s, p, cmd, Q, U), Counted(t), HandOK(t, dmd),
           \A v \in Window : Same(s, t, v) /\ InHand(dmd, v) = InHand(cmd, v)
    PROVE  Good(t, p, dmd, Q, U)
<1>1. s \in WorldType
  BY DEF Good
<1>2. ASSUME NEW v \in Window PROVE WindowOK(t, p, dmd, Q, U, v)
  <2>1. WindowOK(s, p, cmd, Q, U, v)
    BY DEF Good
  <2>2. Same(s, t, v) /\ InHand(dmd, v) = InHand(cmd, v)
    OBVIOUS
  <2> QED BY <1>1, <2>1, <2>2, SameWindow
<1> QED BY <1>2 DEF Good

\* The dispatches depend on the connections alone.
LEMMA DispatchesSame ==
    ASSUME NEW s, NEW t, NEW v, NEW i, t.connection[v] = s.connection[v]
    PROVE  Dispatches(t, v, i) = Dispatches(s, v, i)
  BY DEF Dispatches

LEMMA CountedSame ==
    ASSUME NEW s, NEW t, Counted(s), t.connection = s.connection,
           \A i \in Injector : t.injection[i].pending = s.injection[i].pending
    PROVE  Counted(t)
<1>1. ASSUME NEW i \in Injector PROVE Foreground(t, i) = Foreground(s, i)
  BY DEF Foreground, Dispatches
<1> QED BY <1>1 DEF Counted
-----------------------------------------------------------------------------
(* Calls about injections and commands.                                     *)

\* The broadcasts change nothing but the pc of a call.
LEMMA WokenFromType ==
    ASSUME NEW j, NEW a, NEW b \in {"checkResult", "checkFinished"},
           j \in [Injector -> InjectionState]
    PROVE  /\ WokenFrom(j, a, b) \in [Injector -> InjectionState]
           /\ \A i \in Injector : WokenFrom(j, a, b)[i].pending = j[i].pending
<1>1. ASSUME NEW i \in Injector
      PROVE  /\ [j[i] EXCEPT !.pc = b] \in InjectionState
             /\ [j[i] EXCEPT !.pc = b].pending = j[i].pending
  BY DEF InjectionState
<1> QED BY <1>1 DEF WokenFrom

\* A call that changes nothing but injections, and no count.
LEMMA InjectionOnly ==
    ASSUME NEW s, NEW j \in [Injector -> InjectionState], NEW p, NEW cmd, NEW Q, NEW U,
           Good(s, p, cmd, Q, U),
           \A i \in Injector : j[i].pending = s.injection[i].pending
    PROVE  Good([s EXCEPT !.injection = j], p, cmd, Q, U)
<1> DEFINE t == [s EXCEPT !.injection = j]
<1>1. s \in WorldType /\ Counted(s) /\ HandOK(s, cmd)
  BY DEF Good
<1>2. /\ t \in WorldType /\ t.connection = s.connection /\ t.commands = s.commands
      /\ t.seq = s.seq /\ t.pipe = s.pipe /\ t.injection = j /\ t.seq \in Nat
  BY <1>1 DEF WorldType
<1> HIDE DEF t
<1>3. Counted(t)
  BY <1>1, <1>2, CountedSame
<1>4. HandOK(t, cmd)
  BY <1>1, <1>2 DEF HandOK
<1>5. \A v \in Window : Same(s, t, v)
  BY <1>2 DEF Same
<1> QED BY <1>2, <1>3, <1>4, <1>5, FrameAll DEF t

LEMMA SetInjectionResult ==
    ASSUME NEW s, NEW p, NEW cmd, NEW Q, NEW U, Good(s, p, cmd, Q, U),
           NEW i \in Injector \cup {NoInjector},
           NEW r \in {"SUCCEEDED", "FAILED", "PERMISSION_DENIED", "TIMED_OUT"}
    PROVE  Good(setInjectionResultLocked(s, i, r), p, cmd, Q, U)
<1>1. CASE i = NoInjector
  BY <1>1 DEF setInjectionResultLocked
<1>2. CASE i # NoInjector
  <2> DEFINE j == [s.injection EXCEPT ![i].result = r]
             k == WokenFrom(j, "awaitResult", "checkResult")
  <2>1. i \in Injector
    BY <1>2
  <2>2. s.injection \in [Injector -> InjectionState]
    BY WorldFields DEF Good
  <2>3. /\ j \in [Injector -> InjectionState]
        /\ \A m \in Injector : j[m].pending = s.injection[m].pending
    BY <2>1, <2>2 DEF InjectionState
  <2>4. setInjectionResultLocked(s, i, r) = [s EXCEPT !.injection = k]
    BY <1>2 DEF setInjectionResultLocked
  <2> HIDE DEF j
  <2>5. /\ k \in [Injector -> InjectionState]
        /\ \A m \in Injector : k[m].pending = s.injection[m].pending
    BY <2>3, WokenFromType
  <2> HIDE DEF k
  <2> QED BY <2>4, <2>5, InjectionOnly
<1> QED BY <1>1, <1>2

LEMMA ReleaseInboundEvent ==
    ASSUME NEW s, NEW p, NEW cmd, NEW Q, NEW U, Good(s, p, cmd, Q, U), NEW events
    PROVE  Good(releaseInboundEventLocked(s, events), p, cmd, Q, U)
<1> DEFINE failed == {i \in Injector : s.injection[i].result = "PENDING"
                                         /\ \E ev \in events : ev.injector = i}
           j == [i \in Injector |-> IF i \in failed
                    THEN [s.injection[i] EXCEPT !.result = "FAILED"]
                    ELSE s.injection[i]]
           k == WokenFrom(j, "awaitResult", "checkResult")
<1>1. CASE failed = {}
  BY <1>1 DEF releaseInboundEventLocked
<1>2. CASE failed # {}
  <2>1. s.injection \in [Injector -> InjectionState]
    BY WorldFields DEF Good
  <2>2. releaseInboundEventLocked(s, events) = [s EXCEPT !.injection = k]
    BY <1>2 DEF releaseInboundEventLocked
  <2> HIDE DEF failed
  <2>3. ASSUME NEW i \in Injector
        PROVE  /\ [s.injection[i] EXCEPT !.result = "FAILED"] \in InjectionState
               /\ [s.injection[i] EXCEPT !.result = "FAILED"].pending
                     = s.injection[i].pending
    BY <2>1 DEF InjectionState
  <2>4. /\ j \in [Injector -> InjectionState]
        /\ \A m \in Injector : j[m].pending = s.injection[m].pending
    BY <2>1, <2>3
  <2> HIDE DEF j
  <2>5. /\ k \in [Injector -> InjectionState]
        /\ \A m \in Injector : k[m].pending = s.injection[m].pending
    BY <2>4, WokenFromType
  <2> HIDE DEF k
  <2> QED BY <2>2, <2>5, InjectionOnly
<1> QED BY <1>1, <1>2

LEMMA PostCommand ==
    ASSUME NEW s, NEW p, NEW cmd, NEW Q, NEW U, Good(s, p, cmd, Q, U),
           NEW x \in Command, x.type # "finished"
    PROVE  Good(postCommandLocked(s, x), p, cmd, Q, U)
<1> DEFINE t == postCommandLocked(s, x)
<1>1. s \in WorldType /\ Counted(s) /\ HandOK(s, cmd)
  BY DEF Good
<1>2. s.commands \in Seq(Command) /\ Append(s.commands, x) \in Seq(Command)
  BY <1>1, WorldFields
<1>3. /\ t \in WorldType /\ t.connection = s.connection
      /\ t.commands = Append(s.commands, x)
      /\ t.seq = s.seq /\ t.pipe = s.pipe /\ t.injection = s.injection /\ t.seq \in Nat
  BY <1>1, <1>2 DEF postCommandLocked, WorldType
<1> HIDE DEF t
<1>4. Counted(t)
  BY <1>1, <1>3, CountedSame
<1>5. HandOK(t, cmd)
  BY <1>1, <1>3 DEF HandOK
<1>6. \A v \in Window : Same(s, t, v)
  BY <1>2, <1>3, FinishAppend DEF Same
<1> QED BY <1>3, <1>4, <1>5, <1>6, FrameAll DEF t
-----------------------------------------------------------------------------
(* Calls about one connection.                                              *)

LEMMA HandType ==
    ASSUME NEW cmd \in Command \cup {NoCommand}, IsHand(cmd)
    PROVE  cmd.window \in Window /\ cmd.entry \in DispatchEntry /\ cmd.fallback \in FallbackCode
  BY DEF Command, NoCommand, IsHand

LEMMA EntryFields ==
    ASSUME NEW e \in DispatchEntry
    PROVE  /\ e.seq \in Nat \ {0} /\ e.key \in KeyCode /\ e.action \in {"DOWN", "UP"}
           /\ e.foreground \in BOOLEAN /\ e.fallback \in BOOLEAN
           /\ e.injector \in Injector \cup {NoInjector}
  BY DEF DispatchEntry

LEMMA ConnectionFields ==
    ASSUME NEW c \in Connection
    PROVE  /\ c.outboundQueue \in Seq(DispatchEntry) /\ c.waitQueue \in Seq(DispatchEntry)
           /\ c.blocked \in BOOLEAN /\ c.mKeyMementos \in Seq(Memento)
           /\ c.status \in {"NONE", "NORMAL", "BROKEN", "ZOMBIE"}
           /\ c.mFallbackKeys \in [Key -> FallbackCode]
  BY DEF Connection, Memento

\* One more event on its way.
LEMMA KeysAppend ==
    ASSUME NEW d, NEW a \in Seq(DispatchEntry), NEW b \in Seq(DispatchEntry),
           NEW e \in DispatchEntry
    PROVE  KeysAfter(d, a \o Append(b, e)) = KeyState(KeysAfter(d, a \o b), e)
<1> DEFINE one == <<e>>
           ab == a \o b
           z == a \o Append(b, e)
           K == KeysAfter(d, ab)
<1>1. one \in Seq(DispatchEntry) /\ ab \in Seq(DispatchEntry) /\ z = ab \o one
  OBVIOUS
<1>2. K \in SUBSET KeyCode
  BY KeysType
<1>3. KeysAfter(K, one) = KeyState(K, e)
  BY <1>2, KeysOne
<1> HIDE DEF one, ab, z
<1>4. KeysAfter(d, ab \o one) = KeysAfter(K, one)
  BY <1>1, KeysConcat
<1> QED BY <1>1, <1>3, <1>4 DEF z, ab

\* A connection is replaced, and with it perhaps injections, numbers and a pipe.
LEMMA IncrementPending ==
    ASSUME NEW s \in WorldType, NEW e \in DispatchEntry
    PROVE  LET r == incrementPendingForegroundDispatchesLocked(s, e)
           IN  /\ r \in WorldType /\ r.connection = s.connection /\ r.commands = s.commands
               /\ r.seq = s.seq /\ r.pipe = s.pipe
               /\ \A i \in Injector : r.injection[i].pending =
                     IF e.foreground /\ e.injector = i THEN s.injection[i].pending + 1
                     ELSE s.injection[i].pending
<1> DEFINE r == incrementPendingForegroundDispatchesLocked(s, e)
           i0 == e.injector
           j == [s.injection EXCEPT ![i0].pending = @ + 1]
<1>1. CASE e.foreground /\ i0 # NoInjector
  <2>1. i0 \in Injector /\ s.injection \in [Injector -> InjectionState]
    BY <1>1, EntryFields, WorldFields
  <2>2. s.injection[i0] \in InjectionState /\ s.injection[i0].pending \in Nat
    BY <2>1 DEF InjectionState
  <2>3. [s.injection[i0] EXCEPT !.pending = @ + 1] \in InjectionState
    BY <2>2 DEF InjectionState
  <2>4. /\ j \in [Injector -> InjectionState]
        /\ \A i \in Injector : j[i].pending =
              IF i0 = i THEN s.injection[i].pending + 1 ELSE s.injection[i].pending
    BY <2>1, <2>2, <2>3 DEF InjectionState
  <2>5. r = [s EXCEPT !.injection = j]
    BY <1>1 DEF incrementPendingForegroundDispatchesLocked, WorldType
  <2> HIDE DEF j, r, i0
  <2>6. /\ r \in WorldType /\ r.connection = s.connection /\ r.commands = s.commands
        /\ r.seq = s.seq /\ r.pipe = s.pipe /\ r.injection = j
    BY <2>4, <2>5 DEF WorldType
  <2> QED BY <1>1, <2>4, <2>6 DEF r, i0
<1>2. CASE ~(e.foreground /\ i0 # NoInjector)
  <2>1. r = s
    BY <1>2 DEF incrementPendingForegroundDispatchesLocked
  <2>2. ~(e.foreground /\ \E i \in Injector : e.injector = i)
    BY <1>2, ChannelAssumption
  <2> QED BY <2>1, <2>2
<1> QED BY <1>1, <1>2

\* What enqueueDispatchEntryLocked leaves behind.
LEMMA EnqueueFields ==
    ASSUME NEW s \in WorldType, NEW w \in Window, NEW e \in DispatchEntry,
           ~e.fallback, e.key \in Key, Mementos(s.connection[w].mKeyMementos)
    PROVE  LET t == enqueueDispatchEntryLocked(s, w, e)
               c == s.connection[w]
               d == t.connection[w]
           IN  /\ t \in WorldType /\ t.commands = s.commands /\ t.seq = s.seq + 1
               /\ t.pipe = s.pipe
               /\ \A v \in Window \ {w} : t.connection[v] = s.connection[v]
               /\ \A i \in Injector : t.injection[i].pending =
                     IF e.foreground /\ e.injector = i THEN s.injection[i].pending + 1
                     ELSE s.injection[i].pending
               /\ d.status = c.status /\ d.blocked = c.blocked
               /\ d.outboundQueue = Append(c.outboundQueue, e)
               /\ d.waitQueue = c.waitQueue
               /\ Mementos(d.mKeyMementos)
               /\ KeysOf(d.mKeyMementos) = KeyState(KeysOf(c.mKeyMementos), e)
               /\ (/\ e.action = "UP" /\ c.mKeyMementos # <<>>
                   /\ c.mKeyMementos[1].key = e.key)
                  => d.mKeyMementos = Tail(c.mKeyMementos)
<1> DEFINE t == enqueueDispatchEntryLocked(s, w, e)
           c == s.connection[w]
           b == trackKey(c, e)
           d == [b EXCEPT !.outboundQueue = Append(@, e)]
           r == incrementPendingForegroundDispatchesLocked(s, e)
<1>1. c \in Connection
  BY WorldFields
<1>2. /\ b \in Connection /\ b.status = c.status /\ b.blocked = c.blocked
      /\ b.outboundQueue = c.outboundQueue /\ b.waitQueue = c.waitQueue
      /\ Mementos(b.mKeyMementos)
      /\ KeysOf(b.mKeyMementos) = KeyState(KeysOf(c.mKeyMementos), e)
      /\ (/\ e.action = "UP" /\ c.mKeyMementos # <<>>
          /\ c.mKeyMementos[1].key = e.key)
         => b.mKeyMementos = Tail(c.mKeyMementos)
  BY <1>1, TrackKey
<1>3. /\ r \in WorldType /\ r.connection = s.connection /\ r.commands = s.commands
      /\ r.seq = s.seq /\ r.pipe = s.pipe
      /\ \A i \in Injector : r.injection[i].pending =
            IF e.foreground /\ e.injector = i THEN s.injection[i].pending + 1
            ELSE s.injection[i].pending
  BY IncrementPending
<1>4. t = [WithConnection(r, w, d) EXCEPT !.seq = @ + 1]
  BY DEF enqueueDispatchEntryLocked
<1> HIDE DEF b, r
<1>5. Append(b.outboundQueue, e) \in Seq(DispatchEntry)
  BY <1>2, ConnectionFields
<1>6. /\ d \in Connection /\ d.status = b.status /\ d.blocked = b.blocked
      /\ d.outboundQueue = Append(b.outboundQueue, e) /\ d.waitQueue = b.waitQueue
      /\ d.mKeyMementos = b.mKeyMementos
  BY <1>2, <1>5 DEF Connection
<1> HIDE DEF d, t
<1>7. r.seq + 1 \in Nat \ {0}
  BY <1>3, WorldFields
<1>8. /\ t \in WorldType /\ t.commands = r.commands /\ t.seq = r.seq + 1
      /\ t.pipe = r.pipe /\ t.injection = r.injection
      /\ t.connection = [r.connection EXCEPT ![w] = d]
  BY <1>3, <1>4, <1>6, <1>7 DEF WithConnection, WorldType
<1>9. /\ \A v \in Window \ {w} : t.connection[v] = s.connection[v]
      /\ t.connection[w] = d
  BY <1>3, <1>8, WorldFields
<1> QED BY <1>2, <1>3, <1>6, <1>8, <1>9 DEF t

\* enqueueDispatchEntryLocked of a key as itself, for a window that may have the
\* key down.
LEMMA Enqueue ==
    ASSUME NEW s, NEW p, NEW cmd \in Command \cup {NoCommand}, NEW Q, NEW U,
           Good(s, p, cmd, Q, U), NEW w \in Window, NEW e \in DispatchEntry,
           ~e.fallback, e.key \in Key, e.seq = s.seq, s.connection[w].status # "NONE",
           s.connection[w].status = "NORMAL" /\ e.action = "DOWN" => w \in Q
    PROVE  Good(enqueueDispatchEntryLocked(s, w, e), p, cmd, Q, U \cup {w})
<1> DEFINE t == enqueueDispatchEntryLocked(s, w, e)
           c == s.connection[w]
           d == t.connection[w]
           V == U \cup {w}
<1>1. s \in WorldType /\ Counted(s) /\ HandOK(s, cmd) /\ WindowOK(s, p, cmd, Q, U, w)
  BY DEF Good
<1>2. QueuesOK(c, s.seq) /\ MementosOK(c, w \in Q) /\ LiveOK(s, p, cmd, U, w)
  BY <1>1 DEF WindowOK
<1>3. Mementos(c.mKeyMementos)
  BY <1>2 DEF MementosOK
<1>4. /\ t \in WorldType /\ t.commands = s.commands /\ t.seq = s.seq + 1
      /\ t.pipe = s.pipe
      /\ \A v \in Window \ {w} : t.connection[v] = s.connection[v]
      /\ \A i \in Injector : t.injection[i].pending =
            IF e.foreground /\ e.injector = i THEN s.injection[i].pending + 1
            ELSE s.injection[i].pending
      /\ d.status = c.status /\ d.blocked = c.blocked
      /\ d.outboundQueue = Append(c.outboundQueue, e)
      /\ d.waitQueue = c.waitQueue
      /\ Mementos(d.mKeyMementos)
      /\ KeysOf(d.mKeyMementos) = KeyState(KeysOf(c.mKeyMementos), e)
      /\ (/\ e.action = "UP" /\ c.mKeyMementos # <<>>
          /\ c.mKeyMementos[1].key = e.key)
         => d.mKeyMementos = Tail(c.mKeyMementos)
  BY <1>1, <1>3, EnqueueFields
<1> SUFFICES Good(t, p, cmd, Q, V)
  OBVIOUS
<1> HIDE DEF t
<1>5. c \in Connection /\ s.seq \in Nat \ {0} /\ d \in Connection
  BY <1>1, <1>4, WorldFields
<1>6. c.outboundQueue \in Seq(DispatchEntry) /\ c.waitQueue \in Seq(DispatchEntry)
  BY <1>5, ConnectionFields
<1>7. /\ e.seq \notin Seqs(c.outboundQueue) /\ e.seq \notin Seqs(c.waitQueue)
      /\ Seqs(d.outboundQueue) = Seqs(c.outboundQueue) \cup {e.seq}
      /\ Unique(d.outboundQueue) /\ Plain(d.outboundQueue)
  <2>1. e.seq \notin Seqs(c.outboundQueue) /\ e.seq \notin Seqs(c.waitQueue)
    BY <1>2, <1>5 DEF QueuesOK
  <2>2. Unique(c.outboundQueue) /\ Plain(c.outboundQueue)
    BY <1>2 DEF QueuesOK
  <2> QED BY <1>4, <1>6, <2>1, <2>2, Appended
<1>8. QueuesOK(d, t.seq)
  <2>1. QueuesOK(c, t.seq)
    BY <1>2, <1>4, <1>5, QueuesLater
  <2>2. e.seq < t.seq
    BY <1>4, <1>5
  <2> QED BY <1>2, <1>4, <1>7, <2>1, <2>2 DEF QueuesOK
<1>9. HandOK(t, cmd)
  <2> SUFFICES ASSUME IsHand(cmd) PROVE HandOK(t, cmd)
    BY DEF HandOK
  <2>1. cmd.window \in Window /\ cmd.entry.seq \in Nat
    BY HandType, EntryFields
  <2>2. /\ s.connection[cmd.window].status # "NONE" /\ cmd.entry.seq < s.seq
        /\ cmd.entry.seq \notin Seqs(s.connection[cmd.window].outboundQueue)
    BY <1>1 DEF HandOK
  <2>3. cmd.entry.seq < t.seq /\ cmd.entry.seq # e.seq
    BY <1>4, <1>5, <2>1, <2>2
  <2>4. CASE cmd.window = w
    <3>1. cmd.entry.seq \notin Seqs(d.outboundQueue)
      BY <1>7, <2>2, <2>3, <2>4
    <3> QED BY <1>1, <1>4, <2>2, <2>3, <2>4, <3>1 DEF HandOK
  <2>5. CASE cmd.window # w
    <3>1. t.connection[cmd.window] = s.connection[cmd.window]
      BY <1>4, <2>1, <2>5
    <3> QED BY <1>1, <2>2, <2>3, <3>1 DEF HandOK
  <2> QED BY <2>4, <2>5
<1>10. Counted(t)
  <2>1. ASSUME NEW i \in Injector PROVE Recounts(s, t, w, i)
    <3>1. Dispatches(t, w, i) = Dispatches(s, w, i) \cup
            (IF e.foreground /\ e.injector = i THEN {<<w, e.seq>>} ELSE {})
      <4> DEFINE a == c.outboundQueue
                 b == c.waitQueue
      <4>1. /\ a \in Seq(DispatchEntry) /\ b \in Seq(DispatchEntry)
            /\ s.connection[w].outboundQueue = a /\ s.connection[w].waitQueue = b
            /\ t.connection[w].outboundQueue = Append(a, e) /\ t.connection[w].waitQueue = b
        BY <1>4, <1>6
      <4> HIDE DEF a, b
      <4>2. Adds(s, t, w, i, e)
        BY <4>1, DispatchesAdd, Zenon
      <4> QED BY <4>2 DEF Adds
    <3>2. CASE e.foreground /\ e.injector = i
      <4> DEFINE x == <<w, e.seq>>
      <4>1. x[1] = w
        OBVIOUS
      <4>2. x \notin Dispatches(s, w, i)
        <5>1. ASSUME NEW z \in Entries(c) PROVE z.seq # e.seq
          <6>1. z.seq \in Seqs(c.outboundQueue) \cup Seqs(c.waitQueue)
            BY DEF Entries, ToSet, Seqs
          <6> QED BY <1>7, <6>1
        <5>2. Dispatches(s, w, i) = ForegroundOf(w, Entries(c), i)
          BY <1>5, DispatchesOf
        <5>3. ASSUME NEW z PROVE <<w, z.seq>> = x <=> z.seq = e.seq
          OBVIOUS
        <5> HIDE DEF x
        <5> QED BY <5>1, <5>2, <5>3 DEF ForegroundOf
      <4>3. Dispatches(t, w, i) = Dispatches(s, w, i) \cup {x}
        BY <3>1, <3>2
      <4>4. t.injection[i].pending = s.injection[i].pending + 1
        BY <1>4, <3>2
      <4> HIDE DEF x
      <4> QED BY <4>1, <4>2, <4>3, <4>4 DEF Recounts
    <3>3. CASE ~(e.foreground /\ e.injector = i)
      <4>1. Dispatches(t, w, i) = Dispatches(s, w, i)
        BY <3>1, <3>3
      <4>2. t.injection[i].pending = s.injection[i].pending
        BY <1>4, <3>3
      <4> QED BY <4>1, <4>2 DEF Recounts
    <3> QED BY <3>2, <3>3
  <2>2. ASSUME NEW i \in Injector, NEW v \in Window \ {w}
        PROVE  Dispatches(t, v, i) = Dispatches(s, v, i)
    BY <1>4, DispatchesSame
  <2> QED BY <1>1, <2>1, <2>2, Recounted
<1>11. MementosOK(d, w \in Q)
  <2>1. CASE c.status = "NORMAL" /\ w \notin Q
    <3>1. c.mKeyMementos = <<>> /\ e.action = "UP"
      BY <1>2, <2>1, EntryFields DEF MementosOK
    <3>2. KeysOf(c.mKeyMementos) = {}
      BY <3>1 DEF KeysOf
    <3>3. KeysOf(d.mKeyMementos) = {}
      BY <1>4, <3>1, <3>2 DEF KeyState
    <3>4. d.mKeyMementos \in Seq(Memento)
      BY <1>4 DEF Mementos
    <3>5. d.mKeyMementos = <<>>
      <4>1. DOMAIN d.mKeyMementos = {}
        BY <3>3 DEF KeysOf
      <4> QED BY <3>4, <4>1, NoDomain
    <3> QED BY <1>4, <3>5 DEF MementosOK
  <2> QED BY <1>4, <2>1 DEF MementosOK
<1>12. LiveOK(t, p, cmd, V, w)
  <2> SUFFICES ASSUME IsLive(t, p, w)
               PROVE  /\ PlacesOK(t, p, cmd, w) /\ BlockedOK(t, p, w)
                      /\ StartedOK(d, w \in V) /\ KeysOK(t, p, w)
    BY DEF LiveOK
  <2>1. PlacesOK(s, p, cmd, w) /\ BlockedOK(s, p, w) /\ KeysOK(s, p, w)
    BY <1>2, <1>4 DEF LiveOK, IsLive
  <2>2. PlacesOK(t, p, cmd, w)
    BY <1>4, <2>1 DEF PlacesOK
  <2>3. BlockedOK(t, p, w)
    BY <1>4, <2>1 DEF BlockedOK
  <2>4. StartedOK(d, w \in V)
    BY DEF StartedOK
  <2>5. KeysOK(t, p, w)
    <3> DEFINE K == KeysAfter(p.down[w], s.pipe[w] \o c.outboundQueue)
    <3>1. s.pipe[w] \in Seq(DispatchEntry)
      BY <1>1, WorldFields
    <3>2. KeysAfter(p.down[w], t.pipe[w] \o d.outboundQueue) = KeyState(K, e)
      BY <1>4, <1>6, <3>1, KeysAppend
    <3>3. K \cap Key \subseteq KeysOf(c.mKeyMementos)
      BY <2>1 DEF KeysOK
    <3> HIDE DEF K
    <3>4. KeyState(K, e) \cap Key \subseteq KeyState(KeysOf(c.mKeyMementos), e)
      BY <3>3 DEF KeyState
    <3> QED BY <1>4, <3>2, <3>4 DEF KeysOK
  <2> QED BY <2>2, <2>3, <2>4, <2>5
<1>13. WindowOK(t, p, cmd, Q, V, w)
  <2>1. UnusedOK(t, p, w) /\ Len(t.pipe[w]) <= PipeSize
    BY <1>1, <1>4 DEF UnusedOK, WindowOK
  <2> QED BY <1>8, <1>11, <1>12, <2>1 DEF WindowOK
<1>14. \A v \in Window \ {w} : Same(s, t, v)
  BY <1>4, <1>5 DEF Same
<1> QED BY <1>1, <1>4, <1>9, <1>10, <1>13, <1>14, Frame

\* The entries of both queues are released.
LEMMA DrainQueues ==
    ASSUME NEW s \in WorldType, Counted(s), NEW w \in Window
    PROVE  /\ drainDispatchQueues(s, w) \in [Injector -> InjectionState]
           /\ \A i \in Injector : drainDispatchQueues(s, w)[i].pending =
                 s.injection[i].pending - Cardinality(Dispatches(s, w, i))
<1> DEFINE left == [i \in Injector |-> [s.injection[i] EXCEPT
                      !.pending = @ - Cardinality(Dispatches(s, w, i))]]
<1>1. s.injection \in [Injector -> InjectionState]
  BY WorldFields
<1>2. ASSUME NEW i \in Injector
      PROVE  s.injection[i].pending - Cardinality(Dispatches(s, w, i)) \in Nat
  <2>1. Dispatches(s, w, i) \subseteq Foreground(s, i)
    BY DEF Foreground
  <2>2. /\ IsFiniteSet(Foreground(s, i))
        /\ s.injection[i].pending = Cardinality(Foreground(s, i))
    BY DEF Counted
  <2>3. /\ IsFiniteSet(Dispatches(s, w, i))
        /\ Cardinality(Dispatches(s, w, i)) <= Cardinality(Foreground(s, i))
    BY <2>1, <2>2, FS_Subset
  <2>4. Cardinality(Dispatches(s, w, i)) \in Nat /\ Cardinality(Foreground(s, i)) \in Nat
    BY <2>2, <2>3, FS_CardinalityType
  <2> QED BY <2>2, <2>3, <2>4
<1>3. ASSUME NEW i \in Injector
      PROVE  /\ left[i] \in InjectionState
             /\ left[i].pending = s.injection[i].pending - Cardinality(Dispatches(s, w, i))
  <2> DEFINE n == s.injection[i].pending - Cardinality(Dispatches(s, w, i))
             j == s.injection[i]
  <2>1. j \in InjectionState
    BY <1>1
  <2>2. n \in Nat /\ left[i] = [j EXCEPT !.pending = n]
    BY <1>2
  <2> HIDE DEF left, n, j
  <2>3. left[i] \in InjectionState /\ left[i].pending = n
    BY <2>1, <2>2 DEF InjectionState
  <2> QED BY <2>3 DEF n
<1>4. left \in [Injector -> InjectionState]
  BY <1>3
<1>5. \/ drainDispatchQueues(s, w) = left
      \/ drainDispatchQueues(s, w) = WokenFrom(left, "awaitFinished", "checkFinished")
  BY DEF drainDispatchQueues
<1> HIDE DEF left
<1>6. /\ WokenFrom(left, "awaitFinished", "checkFinished") \in [Injector -> InjectionState]
      /\ \A i \in Injector :
            WokenFrom(left, "awaitFinished", "checkFinished")[i].pending = left[i].pending
  BY <1>4, WokenFromType
<1>7. CASE drainDispatchQueues(s, w) = left
  BY <1>3, <1>4, <1>7
<1>8. CASE drainDispatchQueues(s, w) = WokenFrom(left, "awaitFinished", "checkFinished")
  BY <1>3, <1>6, <1>8
<1> QED BY <1>5, <1>7, <1>8

LEMMA AbortFields ==
    ASSUME NEW s \in WorldType, Counted(s), NEW w \in Window, NEW notify \in BOOLEAN
    PROVE  LET t == abortBrokenDispatchCycleLocked(s, w, notify)
               c == s.connection[w]
               d == t.connection[w]
           IN  /\ t \in WorldType /\ Counted(t) /\ t.seq = s.seq /\ t.pipe = s.pipe
               /\ \A v \in Window \ {w} : t.connection[v] = s.connection[v]
               /\ \A v \in Window :
                     /\ FinishSeqs(t.commands, v) = FinishSeqs(s.commands, v)
                     /\ FinishOnce(s.commands, v) => FinishOnce(t.commands, v)
               /\ d \in Connection /\ d.outboundQueue = <<>> /\ d.waitQueue = <<>>
               /\ d.blocked = c.blocked /\ d.mKeyMementos = c.mKeyMementos
               /\ d.status = IF c.status = "NORMAL" THEN "BROKEN" ELSE c.status
<1> DEFINE t == abortBrokenDispatchCycleLocked(s, w, notify)
           c == s.connection[w]
           d == AbortedConnection(c)
           q == NotifiesBroken(s, w, notify)
           x == [type |-> "broken", window |-> w]
<1>1. c \in Connection /\ s.commands \in Seq(Command)
  BY WorldFields
<1>2. /\ d \in Connection /\ d.outboundQueue = <<>> /\ d.waitQueue = <<>>
      /\ d.blocked = c.blocked /\ d.mKeyMementos = c.mKeyMementos
      /\ d.status = IF c.status = "NORMAL" THEN "BROKEN" ELSE c.status
  <2>1. <<>> \in Seq(DispatchEntry)
    OBVIOUS
  <2> QED BY <1>1, <2>1 DEF AbortedConnection, Connection
<1>3. x \in Command /\ x.type # "finished"
  BY DEF Command
<1>4. q = s.commands \/ q = Append(s.commands, x)
  BY DEF NotifiesBroken
<1> HIDE DEF x
<1>5. /\ q \in Seq(Command)
      /\ \A v \in Window : /\ FinishSeqs(q, v) = FinishSeqs(s.commands, v)
                           /\ FinishOnce(s.commands, v) => FinishOnce(q, v)
  BY <1>1, <1>3, <1>4, FinishAppend
<1> HIDE DEF d, q
<1>6. /\ drainDispatchQueues(s, w) \in [Injector -> InjectionState]
      /\ \A i \in Injector : drainDispatchQueues(s, w)[i].pending =
            s.injection[i].pending - Cardinality(Dispatches(s, w, i))
  BY DrainQueues
<1>7. /\ t.connection = [s.connection EXCEPT ![w] = d] /\ t.commands = q
      /\ t.injection = drainDispatchQueues(s, w) /\ t.seq = s.seq /\ t.pipe = s.pipe
      /\ t = [connection |-> t.connection, commands |-> q,
              injection |-> t.injection, seq |-> s.seq, pipe |-> s.pipe]
  BY DEF abortBrokenDispatchCycleLocked, d, q
<1> HIDE DEF t
<1>8. /\ t.connection \in [Window -> Connection] /\ t.connection[w] = d
      /\ \A v \in Window \ {w} : t.connection[v] = s.connection[v]
  BY <1>2, <1>7, WorldFields
<1>9. t \in WorldType
  BY <1>5, <1>6, <1>7, <1>8, WorldFields DEF WorldType
<1>10. Counted(t)
  <2>1. ASSUME NEW i \in Injector PROVE Recounts(s, t, w, i)
    <3>1. Dispatches(t, w, i) = ForegroundOf(w, Entries(d), i)
      BY <1>2, <1>8, DispatchesOf
    <3>2. Entries(d) = {}
      BY <1>2 DEF Entries, ToSet
    <3>3. Dispatches(t, w, i) = {}
      BY <3>1, <3>2 DEF ForegroundOf
    <3> QED BY <1>6, <1>7, <3>3 DEF Recounts
  <2>2. ASSUME NEW i \in Injector, NEW v \in Window \ {w}
        PROVE  Dispatches(t, v, i) = Dispatches(s, v, i)
    BY <1>8, DispatchesSame
  <2> QED BY <2>1, <2>2, Recounted
<1> QED BY <1>2, <1>5, <1>7, <1>8, <1>9, <1>10 DEF t

\* abortBrokenDispatchCycleLocked, whatever it was that broke.
LEMMA Abort ==
    ASSUME NEW s, NEW p, NEW cmd \in Command \cup {NoCommand}, NEW Q, NEW U,
           Good(s, p, cmd, Q, U), NEW w \in Window, NEW notify \in BOOLEAN
    PROVE  Good(abortBrokenDispatchCycleLocked(s, w, notify), p, cmd, Q, U \ {w})
<1> DEFINE t == abortBrokenDispatchCycleLocked(s, w, notify)
           c == s.connection[w]
           d == t.connection[w]
           V == U \ {w}
<1>1. s \in WorldType /\ Counted(s) /\ HandOK(s, cmd) /\ WindowOK(s, p, cmd, Q, U, w)
  BY DEF Good
<1>2. MementosOK(c, w \in Q) /\ UnusedOK(s, p, w) /\ Len(s.pipe[w]) <= PipeSize
  BY <1>1 DEF WindowOK
<1>3. /\ t \in WorldType /\ Counted(t) /\ t.seq = s.seq /\ t.pipe = s.pipe
      /\ \A v \in Window \ {w} : t.connection[v] = s.connection[v]
      /\ \A v \in Window :
            /\ FinishSeqs(t.commands, v) = FinishSeqs(s.commands, v)
            /\ FinishOnce(s.commands, v) => FinishOnce(t.commands, v)
      /\ d \in Connection /\ d.outboundQueue = <<>> /\ d.waitQueue = <<>>
      /\ d.blocked = c.blocked /\ d.mKeyMementos = c.mKeyMementos
      /\ d.status = IF c.status = "NORMAL" THEN "BROKEN" ELSE c.status
  BY <1>1, AbortFields
<1> SUFFICES Good(t, p, cmd, Q, V)
  OBVIOUS
<1> HIDE DEF t
<1>4. HandOK(t, cmd)
  <2> SUFFICES ASSUME IsHand(cmd) PROVE HandOK(t, cmd)
    BY DEF HandOK
  <2>1. cmd.window \in Window
    BY HandType
  <2>2. s.connection[cmd.window].status # "NONE" /\ cmd.entry.seq < s.seq
    BY <1>1 DEF HandOK
  <2>3. CASE cmd.window = w
    BY <1>3, <2>2, <2>3, Empty DEF HandOK
  <2>4. CASE cmd.window # w
    BY <1>1, <1>3, <2>1, <2>2, <2>4 DEF HandOK
  <2> QED BY <2>3, <2>4
<1>5. QueuesOK(d, t.seq)
  BY <1>3, Empty DEF QueuesOK
<1>6. d.status # "NORMAL"
  BY <1>3
<1>7. MementosOK(d, w \in Q)
  BY <1>2, <1>3, <1>6 DEF MementosOK
<1>8. UnusedOK(t, p, w)
  <2>1. d.status = "NONE" => c.status = "NONE"
    BY <1>3
  <2> QED BY <1>2, <1>3, <2>1 DEF UnusedOK
<1>9. LiveOK(t, p, cmd, V, w)
  BY <1>6 DEF LiveOK, IsLive
<1>10. WindowOK(t, p, cmd, Q, V, w)
  BY <1>2, <1>3, <1>5, <1>7, <1>8, <1>9 DEF WindowOK
<1>11. \A v \in Window \ {w} : Same(s, t, v) /\ (v \in U => v \in V)
  BY <1>1, <1>3, WorldFields DEF Same
<1> QED BY <1>1, <1>3, <1>4, <1>10, <1>11, Frame

\* The end of a dispatch cycle that has not been broken.
Published(s, w, a, b) ==
    LET c == s.connection[w]
    IN [WithConnection(s, w, [c EXCEPT !.outboundQueue = b,
                                       !.waitQueue = c.waitQueue \o a,
                                       !.blocked = @ \/ b # <<>>])
           EXCEPT !.pipe[w] = @ \o a]

\* What startDispatchCycleLocked does: nothing, an abort, or the outbound queue is
\* split into what fits into the socket and the rest.
Splits(s, w) ==
    \E a, b \in Seq(DispatchEntry) :
        /\ s.connection[w].status = "NORMAL" /\ w \in open
        /\ s.connection[w].outboundQueue = a \o b
        /\ Len(s.pipe[w]) + Len(a) <= PipeSize
        /\ b # <<>> => /\ Len(s.pipe[w]) + Len(a) = PipeSize
                       /\ s.connection[w].waitQueue \o a # <<>>
        /\ startDispatchCycleLocked(s, w) = Published(s, w, a, b)

LEMMA StartCases ==
    ASSUME NEW s \in WorldType, NEW w \in Window, Len(s.pipe[w]) <= PipeSize
    PROVE  LET c == s.connection[w]
               t == startDispatchCycleLocked(s, w)
           IN  \/ (c.status # "NORMAL" \/ c.outboundQueue = <<>>) /\ t = s
               \/ t = abortBrokenDispatchCycleLocked(s, w, TRUE)
               \/ Splits(s, w)
<1> DEFINE c == s.connection[w]
           t == startDispatchCycleLocked(s, w)
           out == c.outboundQueue
           room == PipeSize - Len(s.pipe[w])
           n == IF Len(out) < room THEN Len(out) ELSE room
           a == SubSeq(out, 1, n)
           b == SubSeq(out, n + 1, Len(out))
           waits == c.waitQueue \o a
<1>1. c \in Connection /\ s.pipe[w] \in Seq(DispatchEntry) /\ out \in Seq(DispatchEntry)
  BY WorldFields, ConnectionFields
<1>2. PipeSize \in Nat /\ Len(s.pipe[w]) \in Nat /\ Len(out) \in Nat
  BY <1>1, ChannelAssumption
<1>3. n \in 0 .. Len(out) /\ n <= room /\ (n # Len(out) => n = room)
  <2> DEFINE x == Len(out)
             y == Len(s.pipe[w])
  <2>1. x \in Nat /\ y \in Nat /\ PipeSize \in Nat /\ y <= PipeSize
    BY <1>2
  <2> HIDE DEF x, y
  <2>2. CASE x < PipeSize - y
    <3>1. n = x
      BY <2>2 DEF x, y
    <3>2. x \in 0 .. x /\ x <= PipeSize - y
      BY <2>1, <2>2
    <3> QED BY <3>1, <3>2 DEF x, y
  <2>3. CASE ~(x < PipeSize - y)
    <3>1. n = PipeSize - y
      BY <2>3 DEF x, y
    <3>2. PipeSize - y \in 0 .. x
      BY <2>1, <2>3
    <3> QED BY <3>1, <3>2 DEF x, y
  <2> QED BY <2>2, <2>3
<1>4. t = IF c.status # "NORMAL" \/ out = <<>> THEN s
          ELSE IF w \notin open \/ (b # <<>> /\ waits = <<>>)
            THEN abortBrokenDispatchCycleLocked(s, w, TRUE)
            ELSE Published(s, w, a, b)
  BY DEF startDispatchCycleLocked, Published
<1> HIDE DEF t, n, c, out
<1>5. /\ a \in Seq(DispatchEntry) /\ b \in Seq(DispatchEntry) /\ Len(a) = n
      /\ Len(b) = Len(out) - n /\ out = a \o b
  BY <1>1, <1>3, SplitAt
<1> HIDE DEF a, b
<1>6. CASE /\ c.status = "NORMAL" /\ out # <<>> /\ w \in open
           /\ ~(b # <<>> /\ waits = <<>>)
  <2>1. Len(s.pipe[w]) + Len(a) <= PipeSize
    BY <1>2, <1>3, <1>5
  <2>2. b # <<>> => Len(s.pipe[w]) + Len(a) = PipeSize
    <3> SUFFICES ASSUME b # <<>> PROVE Len(s.pipe[w]) + Len(a) = PipeSize
      OBVIOUS
    <3>1. Len(b) # 0
      BY <1>5, EmptySeq
    <3> QED BY <1>2, <1>3, <1>5, <3>1
  <2>3. t = Published(s, w, a, b)
    BY <1>4, <1>6
  <2> QED BY <1>5, <1>6, <2>1, <2>2, <2>3 DEF Splits, t, c, out
<1> QED BY <1>4, <1>6 DEF t, c, out

Publishes(s, t, w, a, b) ==
    LET c == s.connection[w]
        d == t.connection[w]
    IN  /\ t \in WorldType /\ t.seq = s.seq /\ t.commands = s.commands
        /\ t.injection = s.injection
        /\ \A v \in Window \ {w} : /\ t.connection[v] = s.connection[v]
                                   /\ t.pipe[v] = s.pipe[v]
        /\ t.pipe[w] = s.pipe[w] \o a
        /\ d \in Connection /\ d.outboundQueue = b /\ d.waitQueue = c.waitQueue \o a
        /\ d.blocked = (c.blocked \/ b # <<>>)
        /\ d.mKeyMementos = c.mKeyMementos /\ d.status = c.status

LEMMA PublishedFields ==
    ASSUME NEW s \in WorldType, NEW w \in Window, NEW a \in Seq(DispatchEntry),
           NEW b \in Seq(DispatchEntry)
    PROVE  Publishes(s, Published(s, w, a, b), w, a, b)
<1> DEFINE t == Published(s, w, a, b)
           c == s.connection[w]
           waits == c.waitQueue \o a
           blocks == c.blocked \/ b # <<>>
           d == [c EXCEPT !.outboundQueue = b, !.waitQueue = waits, !.blocked = blocks]
           q == s.pipe[w] \o a
<1>1. /\ c \in Connection /\ s.pipe[w] \in Seq(DispatchEntry)
      /\ c.waitQueue \in Seq(DispatchEntry)
  BY WorldFields, ConnectionFields
<1>2. waits \in Seq(DispatchEntry) /\ q \in Seq(DispatchEntry)
  BY <1>1
<1>3. blocks \in BOOLEAN
  OBVIOUS
<1>4. t = [WithConnection(s, w, d) EXCEPT !.pipe[w] = q]
  BY DEF Published, WithConnection, WorldType
<1> HIDE DEF waits, blocks, q
<1>5. /\ d \in Connection /\ d.outboundQueue = b /\ d.waitQueue = waits
      /\ d.blocked = blocks /\ d.mKeyMementos = c.mKeyMementos /\ d.status = c.status
  BY <1>1, <1>2, <1>3 DEF Connection
<1> HIDE DEF d, t
<1>6. /\ t \in WorldType /\ t.seq = s.seq /\ t.commands = s.commands
      /\ t.injection = s.injection
      /\ t.connection = [s.connection EXCEPT ![w] = d]
      /\ t.pipe = [s.pipe EXCEPT ![w] = q]
  BY <1>2, <1>4, <1>5 DEF WithConnection, WorldType
<1>7. /\ \A v \in Window \ {w} : t.connection[v] = s.connection[v] /\ t.pipe[v] = s.pipe[v]
      /\ t.connection[w] = d /\ t.pipe[w] = q
  BY <1>6, WorldFields
<1>8. Publishes(s, t, w, a, b)
  BY <1>5, <1>6, <1>7 DEF Publishes, q, waits, blocks
<1> QED BY <1>8 DEF t

\* What is published moves from the outbound queue to the wait queue.
LEMMA PublishCounted ==
    ASSUME NEW s \in WorldType, Counted(s), NEW w \in Window, NEW a \in Seq(DispatchEntry),
           NEW b \in Seq(DispatchEntry), s.connection[w].outboundQueue = a \o b
    PROVE  Counted(Published(s, w, a, b))
<1> DEFINE t == Published(s, w, a, b)
           c == s.connection[w]
           d == t.connection[w]
<1>1. /\ t \in WorldType /\ t.injection = s.injection
      /\ \A v \in Window \ {w} : t.connection[v] = s.connection[v]
      /\ d \in Connection /\ d.outboundQueue = b /\ d.waitQueue = c.waitQueue \o a
  <2>1. Publishes(s, t, w, a, b)
    BY PublishedFields, Zenon
  <2> HIDE DEF t
  <2> QED BY <2>1 DEF Publishes
<1>2. c \in Connection /\ c.waitQueue \in Seq(DispatchEntry)
  BY WorldFields, ConnectionFields
<1> HIDE DEF t
<1>3. Entries(d) = Entries(c)
  <2>1. ToSet(c.outboundQueue) = ToSet(a) \cup ToSet(b)
    BY ToSetConcat
  <2>2. ToSet(d.waitQueue) = ToSet(c.waitQueue) \cup ToSet(a)
    BY <1>1, <1>2, ToSetConcat
  <2> QED BY <1>1, <2>1, <2>2 DEF Entries
<1>4. ASSUME NEW i \in Injector PROVE Recounts(s, t, w, i)
  <2>1. Dispatches(t, w, i) = Dispatches(s, w, i)
    BY <1>1, <1>2, <1>3, DispatchesOf
  <2> QED BY <1>1, <2>1 DEF Recounts
<1>5. ASSUME NEW i \in Injector, NEW v \in Window \ {w}
      PROVE  Dispatches(t, v, i) = Dispatches(s, v, i)
  BY <1>1, DispatchesSame
<1>6. Counted(t)
  BY <1>4, <1>5, Recounted
<1> QED BY <1>6 DEF t

\* startDispatchCycleLocked: afterwards the cycle of the window has started.
LEMMA Start ==
    ASSUME NEW s, NEW p, NEW cmd \in Command \cup {NoCommand}, NEW Q, NEW U,
           Good(s, p, cmd, Q, U), p.open = open, NEW w \in Window
    PROVE  Good(startDispatchCycleLocked(s, w), p, cmd, Q, U \ {w})
<1> DEFINE t == startDispatchCycleLocked(s, w)
           c == s.connection[w]
           d == t.connection[w]
           V == U \ {w}
<1>1. s \in WorldType /\ Counted(s) /\ HandOK(s, cmd) /\ WindowOK(s, p, cmd, Q, U, w)
  BY DEF Good
<1>2. /\ QueuesOK(c, s.seq) /\ MementosOK(c, w \in Q) /\ LiveOK(s, p, cmd, U, w)
      /\ Len(s.pipe[w]) <= PipeSize
  BY <1>1 DEF WindowOK
<1>3. \/ (c.status # "NORMAL" \/ c.outboundQueue = <<>>) /\ t = s
      \/ t = abortBrokenDispatchCycleLocked(s, w, TRUE)
      \/ Splits(s, w)
  BY <1>1, <1>2, StartCases
<1>4. CASE (c.status # "NORMAL" \/ c.outboundQueue = <<>>) /\ t = s
  <2>1. LiveOK(s, p, cmd, V, w)
    BY <1>2, <1>4 DEF LiveOK, IsLive, StartedOK
  <2>2. WindowOK(s, p, cmd, Q, V, w)
    BY <1>1, <2>1 DEF WindowOK
  <2>3. \A v \in Window \ {w} : Same(s, s, v)
    BY <1>1, WorldFields DEF Same
  <2>4. \A v \in Window \ {w} : v \in U => v \in V
    OBVIOUS
  <2> HIDE DEF V
  <2> QED BY <1>1, <1>4, <2>2, <2>3, <2>4, Frame DEF V
<1>5. CASE t = abortBrokenDispatchCycleLocked(s, w, TRUE)
  <2>1. TRUE \in BOOLEAN
    OBVIOUS
  <2>2. Good(abortBrokenDispatchCycleLocked(s, w, TRUE), p, cmd, Q, U \ {w})
    BY <2>1, Abort, Zenon
  <2> QED BY <1>5, <2>2
<1>6. CASE Splits(s, w)
  <2>1. PICK a \in Seq(DispatchEntry), b \in Seq(DispatchEntry) :
            /\ c.status = "NORMAL" /\ w \in open
            /\ c.outboundQueue = a \o b
            /\ Len(s.pipe[w]) + Len(a) <= PipeSize
            /\ b # <<>> => /\ Len(s.pipe[w]) + Len(a) = PipeSize
                           /\ c.waitQueue \o a # <<>>
            /\ t = Published(s, w, a, b)
    BY <1>6 DEF Splits
  <2>2. /\ t \in WorldType /\ t.seq = s.seq /\ t.commands = s.commands
        /\ t.injection = s.injection
        /\ \A v \in Window \ {w} : /\ t.connection[v] = s.connection[v]
                                   /\ t.pipe[v] = s.pipe[v]
        /\ t.pipe[w] = s.pipe[w] \o a
        /\ d \in Connection /\ d.outboundQueue = b /\ d.waitQueue = c.waitQueue \o a
        /\ d.blocked = (c.blocked \/ b # <<>>)
        /\ d.mKeyMementos = c.mKeyMementos /\ d.status = c.status
    <3>1. Publishes(s, Published(s, w, a, b), w, a, b)
      BY <1>1, PublishedFields, Zenon
    <3> HIDE DEF t
    <3> QED BY <2>1, <3>1 DEF Publishes
  <2>3. Counted(t)
    BY <1>1, <2>1, PublishCounted
  <2> SUFFICES Good(t, p, cmd, Q, V)
    OBVIOUS
  <2> HIDE DEF t
  <2>4. /\ s.pipe[w] \in Seq(DispatchEntry) /\ c.waitQueue \in Seq(DispatchEntry)
        /\ c \in Connection
    BY <1>1, WorldFields, ConnectionFields
  <2>5. PlacesOK(s, p, cmd, w) /\ BlockedOK(s, p, w) /\ KeysOK(s, p, w)
    BY <1>2, <2>1 DEF LiveOK, IsLive
  <2>6. /\ Unique(d.outboundQueue) /\ Unique(d.waitQueue) /\ Unique(t.pipe[w])
        /\ Seqs(c.outboundQueue) = Seqs(a) \cup Seqs(b) /\ Seqs(a) \cap Seqs(b) = {}
        /\ Seqs(d.waitQueue) = Seqs(c.waitQueue) \cup Seqs(a)
        /\ Seqs(t.pipe[w]) = Seqs(s.pipe[w]) \cup Seqs(a)
        /\ Plain(d.outboundQueue) /\ Plain(d.waitQueue)
    <3>1. /\ Unique(c.outboundQueue) /\ Unique(c.waitQueue) /\ Unique(s.pipe[w])
          /\ Seqs(c.outboundQueue) \cap Seqs(c.waitQueue) = {}
          /\ Plain(c.outboundQueue) /\ Plain(c.waitQueue)
          /\ Seqs(s.pipe[w]) \subseteq Seqs(c.waitQueue)
      BY <1>2, <2>5 DEF QueuesOK, PlacesOK, Parts
    <3>2. Seqs(c.outboundQueue) = Seqs(a) \cup Seqs(b)
      BY <2>1, SeqsConcat
    <3>3. Seqs(s.pipe[w]) \cap Seqs(a) = {}
      BY <3>1, <3>2
    <3> DEFINE out == c.outboundQueue
               q == c.waitQueue
               r == s.pipe[w]
               x == d.waitQueue
               y == t.pipe[w]
    <3>4. /\ q \in Seq(DispatchEntry) /\ r \in Seq(DispatchEntry) /\ out = a \o b
          /\ Unique(out) /\ Unique(q) /\ Unique(r) /\ Seqs(out) \cap Seqs(q) = {}
          /\ Seqs(r) \cap Seqs(a) = {} /\ x = q \o a /\ y = r \o a
          /\ Plain(out) /\ Plain(q) /\ d.outboundQueue = b
      BY <2>1, <2>2, <2>4, <3>1, <3>3
    <3> HIDE DEF out, q, r, x, y
    <3>5. /\ Unique(b) /\ Unique(x) /\ Unique(y)
          /\ Seqs(out) = Seqs(a) \cup Seqs(b) /\ Seqs(a) \cap Seqs(b) = {}
          /\ Seqs(x) = Seqs(q) \cup Seqs(a) /\ Seqs(y) = Seqs(r) \cup Seqs(a)
          /\ Plain(b) /\ Plain(x)
      <4>1. Unique(a) /\ Unique(b) /\ Seqs(a) \cap Seqs(b) = {}
        BY <3>4, UniqueConcat
      <4>2. Seqs(out) = Seqs(a) \cup Seqs(b)
        BY <3>4, SeqsConcat
      <4>3. Seqs(x) = Seqs(q) \cup Seqs(a) /\ Seqs(y) = Seqs(r) \cup Seqs(a)
        BY <3>4, SeqsConcat
      <4>4. Seqs(q) \cap Seqs(a) = {}
        BY <3>4, <4>2
      <4>5. Unique(x)
        BY <3>4, <4>1, <4>4, UniqueConcat
      <4>6. Unique(y)
        BY <3>4, <4>1, UniqueConcat
      <4>7. Plain(a) /\ Plain(b)
        BY <3>4, PlainConcat
      <4>8. Plain(x)
        BY <3>4, <4>7, PlainConcat
      <4> QED BY <4>1, <4>2, <4>3, <4>5, <4>6, <4>7, <4>8
    <3> QED BY <3>4, <3>5 DEF out, q, r, x, y
  <2>7. QueuesOK(d, t.seq)
    BY <1>2, <2>2, <2>6 DEF QueuesOK
  <2>8. HandOK(t, cmd)
    <3> SUFFICES ASSUME IsHand(cmd) PROVE HandOK(t, cmd)
      BY DEF HandOK
    <3>1. cmd.window \in Window
      BY HandType
    <3>2. CASE cmd.window = w
      <4>1. /\ cmd.entry.seq \notin Seqs(c.outboundQueue)
            /\ \A n \in DOMAIN c.waitQueue :
                  c.waitQueue[n].seq = cmd.entry.seq => c.waitQueue[n] = cmd.entry
        BY <1>1, <3>2 DEF HandOK
      <4>2. cmd.entry.seq \notin Seqs(d.outboundQueue) /\ cmd.entry.seq \notin Seqs(a)
        BY <2>2, <2>6, <4>1
      <4>3. ASSUME NEW n \in DOMAIN d.waitQueue, d.waitQueue[n].seq = cmd.entry.seq
            PROVE  d.waitQueue[n] = cmd.entry
        <5> DEFINE q == c.waitQueue
        <5>1. \/ n \in DOMAIN q /\ d.waitQueue[n] = q[n]
              \/ n - Len(q) \in DOMAIN a /\ d.waitQueue[n] = a[n - Len(q)]
          BY <2>2, <2>4, ConcatCases
        <5>2. \A m \in DOMAIN a : a[m].seq # cmd.entry.seq
          BY <4>2 DEF Seqs
        <5> QED BY <4>1, <4>3, <5>1, <5>2
      <4> QED BY <1>1, <2>2, <3>2, <4>2, <4>3 DEF HandOK
    <3>3. CASE cmd.window # w
      BY <1>1, <2>2, <3>1, <3>3 DEF HandOK
    <3> QED BY <3>2, <3>3
  <2>9. PlacesOK(t, p, cmd, w)
    <3>1. Seqs(a) \cap Seqs(c.waitQueue) = {}
      BY <1>2, <2>6 DEF QueuesOK
    <3>2. Parts(Seqs(t.pipe[w]), Seqs(p.received[w]), Seqs(p.signals[w]),
                FinishSeqs(t.commands, w), InHand(cmd, w), Seqs(d.waitQueue))
      BY <2>2, <2>5, <2>6, <3>1 DEF PlacesOK, Parts
    <3> QED BY <2>2, <2>5, <2>6, <3>2 DEF PlacesOK
  <2>10. Len(t.pipe[w]) <= PipeSize /\ BlockedOK(t, p, w)
    <3>1. Len(t.pipe[w]) = Len(s.pipe[w]) + Len(a) /\ t.pipe[w] \in Seq(DispatchEntry)
      BY <2>2, <2>4
    <3>2. b # <<>> => t.pipe[w] # <<>>
      BY <2>1, <3>1, ChannelAssumption
    <3>3. s.pipe[w] # <<>> => t.pipe[w] # <<>>
      BY <2>2, <2>4
    <3>4. BlockedOK(t, p, w)
      BY <2>2, <2>5, <3>2, <3>3 DEF BlockedOK
    <3> QED BY <2>1, <3>1, <3>4
  <2>11. StartedOK(d, w \in V)
    BY <2>1, <2>2 DEF StartedOK
  <2>12. KeysOK(t, p, w)
    <3>1. t.pipe[w] \o d.outboundQueue = s.pipe[w] \o c.outboundQueue
      <4> DEFINE r == s.pipe[w]
      <4>1. r \in Seq(DispatchEntry)
        BY <2>4
      <4> HIDE DEF r
      <4>2. (r \o a) \o b = r \o (a \o b)
        BY <4>1, ConcatAssociative
      <4> QED BY <2>1, <2>2, <4>2 DEF r
    <3> QED BY <2>2, <2>5, <3>1 DEF KeysOK
  <2>13. UnusedOK(t, p, w) /\ MementosOK(d, w \in Q)
    BY <1>2, <2>1, <2>2 DEF UnusedOK, MementosOK
  <2>14. LiveOK(t, p, cmd, V, w)
    BY <2>9, <2>10, <2>11, <2>12 DEF LiveOK
  <2>15. WindowOK(t, p, cmd, Q, V, w)
    BY <2>7, <2>10, <2>13, <2>14 DEF WindowOK
  <2>16. \A v \in Window \ {w} : Same(s, t, v) /\ (v \in U => v \in V)
    BY <1>1, <2>2, WorldFields DEF Same
  <2> QED BY <1>1, <2>2, <2>3, <2>8, <2>15, <2>16, Frame
<1> QED BY <1>3, <1>4, <1>5, <1>6
-----------------------------------------------------------------------------
(* Canceling keys.                                                          *)

LEMMA Least ==
    ASSUME NEW T, T \subseteq Nat, T # {}
    PROVE  \E m \in T : \A k \in T : m <= k
<1> DEFINE R == OpToRel(<, Nat)
<1>1. IsWellFoundedOn(R, Nat)
  BY NatLessThanWellFounded
<1>2. \A x \in T, y \in T : <<x, y>> \in R <=> x < y
  BY DEF OpToRel
<1> HIDE DEF R
<1>3. PICK x \in T : \A y \in T : ~(<<y, x>> \in R)
  BY <1>1, WFMin
<1>4. \A y \in T : ~(y < x)
  BY <1>2, <1>3
<1> QED BY <1>4

\* What holds of 0, and of the successor of what it holds of, holds of all.
LEMMA Counting ==
    ASSUME NEW T, NEW k \in Nat, 0 \in T, \A n \in 0 .. k - 1 : n \in T => n + 1 \in T
    PROVE  \A n \in 0 .. k : n \in T
<1> DEFINE B == {n \in 0 .. k : n \notin T}
<1> SUFFICES ASSUME B # {} PROVE FALSE
  OBVIOUS
<1>1. PICK m \in B : \A j \in B : m <= j
  <2>1. B \subseteq Nat
    OBVIOUS
  <2> HIDE DEF B
  <2> QED BY <2>1, Least
<1>2. m # 0 /\ m - 1 \in 0 .. k - 1 /\ m - 1 \notin B
  BY <1>1
<1> QED BY <1>1, <1>2

CancelIteration(g, s, w, q, k) ==
    g = [n \in 0 .. k |-> IF n = 0 THEN s ELSE NextCancel(g[n - 1], w, q[n])]

\* The function that the loop over the cancelation events defines exists.
LEMMA CancelIterates ==
    ASSUME NEW s, NEW w, NEW q, NEW len \in Nat
    PROVE  \E g : CancelIteration(g, s, w, q, len)
<1> DEFINE G(g, k) == CancelIteration(g, s, w, q, k)
           T == {k \in Nat : \E g : G(g, k)}
<1>1. 0 \in T
  <2>1. G([n \in 0 .. 0 |-> s], 0)
    BY DEF CancelIteration
  <2> QED BY <2>1
<1>2. ASSUME NEW k \in Nat, k \in T PROVE k + 1 \in T
  <2>1. PICK g : G(g, k)
    BY <1>2
  <2> DEFINE h == [n \in 0 .. k + 1 |->
                      IF n = k + 1 THEN NextCancel(g[k], w, q[k + 1]) ELSE g[n]]
  <2>2. \A n \in 0 .. k : n # 0 => g[n] = NextCancel(g[n - 1], w, q[n])
    BY <2>1 DEF CancelIteration
  <2>3. g[0] = s
    BY <2>1 DEF CancelIteration
  <2>4. \A n \in 0 .. k : h[n] = g[n] /\ h[k + 1] = NextCancel(g[k], w, q[k + 1])
    OBVIOUS
  <2> HIDE DEF G
  <2>5. \A n \in 0 .. k + 1 : h[n] = IF n = 0 THEN s ELSE NextCancel(h[n - 1], w, q[n])
    <3> SUFFICES ASSUME NEW n \in 0 .. k + 1
                 PROVE  h[n] = IF n = 0 THEN s ELSE NextCancel(h[n - 1], w, q[n])
      OBVIOUS
    <3> HIDE DEF h
    <3>1. CASE n = 0
      BY <2>3, <2>4, <3>1
    <3>2. CASE n \in 1 .. k
      <4>1. n \in 0 .. k /\ n - 1 \in 0 .. k /\ n # 0
        BY <3>2
      <4> QED BY <2>2, <2>4, <4>1
    <3>3. CASE n = k + 1
      <4>1. n # 0 /\ n - 1 = k /\ k \in 0 .. k
        BY <3>3
      <4> QED BY <2>4, <3>3, <4>1
    <3> QED BY <3>1, <3>2, <3>3
  <2>6. h = [n \in 0 .. k + 1 |-> h[n]]
    OBVIOUS
  <2> HIDE DEF h
  <2>7. G(h, k + 1)
    BY <2>5, <2>6 DEF G, CancelIteration
  <2> QED BY <2>7
<1>3. len \in T
  <2> HIDE DEF T
  <2>1. \A n \in 0 .. len : n \in T
    BY <1>1, <1>2, Counting
  <2> QED BY <2>1
<1> QED BY <1>3

LEMMA CancelLoop ==
    ASSUME NEW s, NEW w, NEW q, Len(q) \in Nat
    PROVE  \E f : /\ f[0] = s /\ CancelEach(s, w, q) = f[Len(q)]
                  /\ \A n \in 0 .. Len(q) - 1 : f[n + 1] = NextCancel(f[n], w, q[n + 1])
<1> DEFINE f == CHOOSE g : CancelIteration(g, s, w, q, Len(q))
<1>1. CancelIteration(f, s, w, q, Len(q))
  BY CancelIterates
<1>2. CancelEach(s, w, q) = f[Len(q)]
  BY DEF CancelEach, CancelIteration
<1> HIDE DEF f
<1>3. f[0] = s
  BY <1>1 DEF CancelIteration
<1>4. ASSUME NEW n \in 0 .. Len(q) - 1 PROVE f[n + 1] = NextCancel(f[n], w, q[n + 1])
  <2>1. n + 1 \in 0 .. Len(q) /\ n + 1 # 0 /\ (n + 1) - 1 = n
    OBVIOUS
  <2> QED BY <1>1, <2>1 DEF CancelIteration
<1> QED BY <1>2, <1>3, <1>4

LEMMA TailOfSub ==
    ASSUME NEW S, NEW q \in Seq(S), NEW n \in 0 .. Len(q) - 1
    PROVE  LET r == SubSeq(q, n + 1, Len(q))
           IN  r # <<>> /\ r[1] = q[n + 1] /\ Tail(r) = SubSeq(q, (n + 1) + 1, Len(q))
<1> DEFINE r == SubSeq(q, n + 1, Len(q))
           z == SubSeq(q, (n + 1) + 1, Len(q))
<1>1. Len(q) \in Nat /\ n \in Nat /\ n < Len(q)
  OBVIOUS
<1>2. /\ r \in Seq(S) /\ Len(r) = Len(q) - n
      /\ \A m \in 1 .. Len(q) - n : r[m] = q[n + m]
  BY <1>1
<1>3. /\ z \in Seq(S) /\ Len(z) = Len(q) - n - 1
      /\ \A m \in 1 .. Len(q) - n - 1 : z[m] = q[n + 1 + m]
  BY <1>1
<1> SUFFICES r # <<>> /\ r[1] = q[n + 1] /\ Tail(r) = z
  OBVIOUS
<1> HIDE DEF r, z
<1>4. r # <<>> /\ r[1] = q[n + 1]
  BY <1>1, <1>2
<1>5. Tail(r) \in Seq(S) /\ Len(Tail(r)) = Len(z)
  BY <1>1, <1>2, <1>3, <1>4
<1>6. ASSUME NEW m \in 1 .. Len(z) PROVE Tail(r)[m] = z[m]
  <2>1. Tail(r)[m] = r[m + 1]
    BY <1>1, <1>2, <1>3, <1>4
  <2>2. m + 1 \in 1 .. Len(q) - n /\ n + (m + 1) = n + 1 + m
    BY <1>1, <1>3
  <2> QED BY <1>2, <1>3, <2>1, <2>2
<1> QED BY <1>3, <1>4, <1>5, <1>6, SeqEqual

\* The cancelation event of the first memento.
CanCancel(s, p, cmd, Q, U, w, x) ==
    /\ cmd \in Command \cup {NoCommand} /\ Good(s, p, cmd, Q, U) /\ w \in Window
    /\ w \in U /\ s.connection[w].status # "NONE"
    /\ s.connection[w].mKeyMementos # <<>> /\ x = s.connection[w].mKeyMementos[1]

Canceled(s, t, p, cmd, Q, U, w) ==
    /\ Good(t, p, cmd, Q, U) /\ t.connection[w].status = s.connection[w].status
    /\ t.connection[w].mKeyMementos = Tail(s.connection[w].mKeyMementos)

LEMMA CancelFirst ==
    ASSUME NEW s, NEW p, NEW cmd, NEW Q, NEW U, NEW w, NEW x,
           CanCancel(s, p, cmd, Q, U, w, x)
    PROVE  Canceled(s, NextCancel(s, w, x), p, cmd, Q, U, w)
<1> USE DEF CanCancel
<1> DEFINE e == [seq |-> s.seq, key |-> x.key, action |-> "UP", foreground |-> FALSE,
                 fallback |-> x.fallback, injector |-> NoInjector]
           q == s.connection[w].mKeyMementos
           t == enqueueDispatchEntryLocked(s, w, e)
<1>1. s \in WorldType /\ WindowOK(s, p, cmd, Q, U, w) /\ s.seq \in Nat \ {0}
  BY WorldFields DEF Good
<1>2. Mementos(q)
  BY <1>1 DEF WindowOK, MementosOK
<1>3. ~x.fallback /\ x.key \in Key /\ x.fallback \in BOOLEAN
  <2>1. q \in Seq(Memento) /\ 1 \in DOMAIN q
    BY <1>2 DEF Mementos
  <2>2. x \in Memento
    BY <2>1
  <2> QED BY <1>2, <2>1, <2>2 DEF Mementos, Memento
<1>4. /\ e \in DispatchEntry /\ ~e.fallback /\ e.key \in Key /\ e.seq = s.seq
      /\ e.action = "UP" /\ q[1].key = e.key
  BY <1>1, <1>3 DEF DispatchEntry, KeyCode
<1>5. NextCancel(s, w, x) = t
  BY DEF NextCancel, Cancel
<1> SUFFICES /\ Good(t, p, cmd, Q, U)
             /\ t.connection[w].status = s.connection[w].status
             /\ t.connection[w].mKeyMementos = Tail(q)
  BY <1>5 DEF Canceled
<1> HIDE DEF e
<1>6. Good(t, p, cmd, Q, U)
  <2>1. Good(t, p, cmd, Q, U \cup {w})
    BY <1>4, Enqueue
  <2>2. U \cup {w} = U
    OBVIOUS
  <2> QED BY <2>1, <2>2
<1>7. /\ t.connection[w].status = s.connection[w].status
      /\ t.connection[w].mKeyMementos = Tail(q)
  BY <1>1, <1>2, <1>4, EnqueueFields
<1> QED BY <1>6, <1>7

\* The cancelation events of all keys.
LEMMA CancelAll ==
    ASSUME NEW s, NEW p, NEW cmd \in Command \cup {NoCommand}, NEW Q, NEW U,
           Good(s, p, cmd, Q, U), NEW w \in Window, s.connection[w].status # "NONE", w \in U
    PROVE  LET t == CancelEach(s, w, s.connection[w].mKeyMementos)
           IN  /\ Good(t, p, cmd, Q, U) /\ t.connection[w].mKeyMementos = <<>>
               /\ t.connection[w].status = s.connection[w].status
<1> DEFINE q == s.connection[w].mKeyMementos
           st == s.connection[w].status
<1>1. s \in WorldType /\ WindowOK(s, p, cmd, Q, U, w)
  BY DEF Good
<1>2. q \in Seq(Memento) /\ Len(q) \in Nat
  BY <1>1 DEF WindowOK, MementosOK, Mementos
<1>3. PICK f : /\ f[0] = s /\ CancelEach(s, w, q) = f[Len(q)]
               /\ \A n \in 0 .. Len(q) - 1 : f[n + 1] = NextCancel(f[n], w, q[n + 1])
  BY <1>2, CancelLoop
<1> DEFINE Holds(n) == /\ Good(f[n], p, cmd, Q, U) /\ f[n].connection[w].status = st
                       /\ f[n].connection[w].mKeyMementos = SubSeq(q, n + 1, Len(q))
           T == {n \in Nat : Holds(n)}
<1>4. 0 \in T
  <2>1. q = SubSeq(q, 0 + 1, Len(q))
    BY <1>2
  <2> QED BY <1>3, <2>1
<1>5. ASSUME NEW n \in 0 .. Len(q) - 1, n \in T PROVE n + 1 \in T
  <2> DEFINE r == SubSeq(q, n + 1, Len(q))
             x == q[n + 1]
             u == f[n]
             t == NextCancel(u, w, x)
  <2>1. Good(u, p, cmd, Q, U) /\ u.connection[w].status = st /\ u.connection[w].mKeyMementos = r
    BY <1>5
  <2>2. r # <<>> /\ r[1] = x /\ Tail(r) = SubSeq(q, (n + 1) + 1, Len(q))
    BY <1>2, TailOfSub
  <2>3. f[n + 1] = t /\ n + 1 \in Nat
    BY <1>3
  <2> HIDE DEF r, x, u, st
  <2>4. /\ u.connection[w].status # "NONE" /\ u.connection[w].mKeyMementos # <<>>
        /\ x = u.connection[w].mKeyMementos[1]
    BY <2>1, <2>2 DEF st
  <2>a. Canceled(u, t, p, cmd, Q, U, w)
    <3>1. CanCancel(u, p, cmd, Q, U, w, x)
      BY <2>1, <2>4 DEF CanCancel
    <3> QED BY <3>1, CancelFirst, Zenon
  <2>5. /\ Good(t, p, cmd, Q, U) /\ t.connection[w].status = u.connection[w].status
        /\ t.connection[w].mKeyMementos = Tail(u.connection[w].mKeyMementos)
    BY <2>a DEF Canceled
  <2> HIDE DEF t
  <2>6. /\ t.connection[w].status = st
        /\ t.connection[w].mKeyMementos = SubSeq(q, (n + 1) + 1, Len(q))
    BY <2>1, <2>2, <2>5
  <2>7. Holds(n + 1)
    BY <2>3, <2>5, <2>6
  <2> QED BY <2>3, <2>7
<1>6. Len(q) \in T
  <2> HIDE DEF T
  <2>1. \A n \in 0 .. Len(q) : n \in T
    BY <1>2, <1>4, <1>5, Counting
  <2> QED BY <1>2, <2>1
<1>7. SubSeq(q, Len(q) + 1, Len(q)) = <<>>
  BY <1>2
<1>8. Holds(Len(q))
  BY <1>6
<1> QED BY <1>3, <1>7, <1>8

LEMMA GoodMore ==
    ASSUME NEW s, NEW p, NEW cmd, NEW Q, NEW U, NEW V, U \subseteq V, Good(s, p, cmd, Q, U)
    PROVE  Good(s, p, cmd, Q, V)
<1>1. s \in WorldType
  BY DEF Good
<1>2. ASSUME NEW v \in Window PROVE WindowOK(s, p, cmd, Q, V, v)
  <2>1. WindowOK(s, p, cmd, Q, U, v)
    BY DEF Good
  <2>2. Same(s, s, v)
    BY <1>1, WorldFields DEF Same
  <2> QED BY <1>1, <2>1, <2>2, SameWindow
<1> QED BY <1>2 DEF Good

LEMMA StartKeeps ==
    ASSUME NEW s \in WorldType, Counted(s), NEW w \in Window, Len(s.pipe[w]) <= PipeSize
    PROVE  LET t == startDispatchCycleLocked(s, w)
           IN  /\ t.connection[w].mKeyMementos = s.connection[w].mKeyMementos
               /\ t.connection[w].status = "NORMAL" => s.connection[w].status = "NORMAL"
<1> DEFINE t == startDispatchCycleLocked(s, w)
<1>1. \/ t = s \/ t = abortBrokenDispatchCycleLocked(s, w, TRUE)
      \/ Splits(s, w)
  BY StartCases
<1>2. CASE t = abortBrokenDispatchCycleLocked(s, w, TRUE)
  <2> DEFINE u == abortBrokenDispatchCycleLocked(s, w, TRUE)
  <2>1. TRUE \in BOOLEAN
    OBVIOUS
  <2>2. /\ u.connection[w].mKeyMementos = s.connection[w].mKeyMementos
        /\ u.connection[w].status =
              IF s.connection[w].status = "NORMAL" THEN "BROKEN" ELSE s.connection[w].status
    BY <2>1, AbortFields
  <2> HIDE DEF u
  <2>3. u.connection[w].status # "NORMAL"
    BY <2>2
  <2> QED BY <1>2, <2>2, <2>3 DEF u
<1>3. CASE Splits(s, w)
  <2>1. PICK a \in Seq(DispatchEntry), b \in Seq(DispatchEntry) :
            s.connection[w].status = "NORMAL" /\ t = Published(s, w, a, b)
    BY <1>3 DEF Splits
  <2>2. Publishes(s, Published(s, w, a, b), w, a, b)
    BY PublishedFields, Zenon
  <2> HIDE DEF t
  <2>3. t.connection[w].mKeyMementos = s.connection[w].mKeyMementos
    BY <2>1, <2>2 DEF Publishes
  <2> QED BY <2>1, <2>3 DEF t
<1> QED BY <1>1, <1>2, <1>3

\* synthesizeCancelationEventsForConnectionLocked: no key of the connection stays
\* down if all are canceled.
CancelsKeys(t, p, cmd, Q, w, code) ==
    /\ Good(t, p, cmd, Q, {})
    /\ code = "none" /\ t.connection[w].status = "NORMAL"
          => t.connection[w].mKeyMementos = <<>>

LEMMA Synthesize ==
    ASSUME NEW s, NEW p, NEW cmd \in Command \cup {NoCommand}, NEW Q,
           Good(s, p, cmd, Q, {}), p.open = open, NEW w \in Window, NEW code
    PROVE  CancelsKeys(synthesizeCancelationEventsForConnectionLocked(s, w, code),
                       p, cmd, Q, w, code)
<1> DEFINE t == synthesizeCancelationEventsForConnectionLocked(s, w, code)
           c == s.connection[w]
           q == c.mKeyMementos
<1>1. s \in WorldType /\ WindowOK(s, p, cmd, Q, {}, w)
  BY DEF Good
<1>2. Mementos(q) /\ (c.status = "NONE" => q = <<>>)
  BY <1>1 DEF WindowOK, MementosOK, UnusedOK
<1>3. CASE c.status = "BROKEN" \/ q = <<>> \/ code # "none"
  <2>1. CanceledKeys(c, code) = <<>> \/ CanceledKeys(c, code) = q
    BY <1>2 DEF CanceledKeys, findKeyMemento, Mementos
  <2>2. code # "none" => CanceledKeys(c, code) = <<>>
    BY <1>2 DEF CanceledKeys, findKeyMemento, Mementos
  <2>3. t = s
    BY <1>3, <2>1, <2>2 DEF synthesizeCancelationEventsForConnectionLocked
  <2>4. code = "none" /\ c.status = "NORMAL" => q = <<>>
    BY <1>3
  <2> HIDE DEF t
  <2>5. CancelsKeys(t, p, cmd, Q, w, code)
    BY <2>3, <2>4 DEF CancelsKeys
  <2> QED BY <2>5 DEF t
<1>4. CASE c.status # "BROKEN" /\ q # <<>> /\ code = "none"
  <2> DEFINE u == CancelEach(s, w, q)
             U == {w}
  <2>1. t = startDispatchCycleLocked(u, w)
    BY <1>4 DEF synthesizeCancelationEventsForConnectionLocked, CanceledKeys
  <2>2. Good(s, p, cmd, Q, U) /\ w \in U
    <3>1. {} \subseteq U /\ w \in U
      OBVIOUS
    <3> HIDE DEF U
    <3> QED BY <3>1, GoodMore
  <2>3. c.status # "NONE"
    BY <1>2, <1>4
  <2>4. U \ {w} = {}
    OBVIOUS
  <2> HIDE DEF U
  <2>5. Good(u, p, cmd, Q, U) /\ u.connection[w].mKeyMementos = <<>>
    BY <2>2, <2>3, CancelAll
  <2> HIDE DEF u
  <2>6. Good(startDispatchCycleLocked(u, w), p, cmd, Q, U \ {w})
    BY <2>5, Start
  <2>7. u \in WorldType /\ Counted(u) /\ Len(u.pipe[w]) <= PipeSize
    BY <2>5 DEF Good, WindowOK
  <2>8. t.connection[w].mKeyMementos = <<>>
    BY <2>1, <2>5, <2>7, StartKeeps
  <2> HIDE DEF t
  <2>9. CancelsKeys(t, p, cmd, Q, w, code)
    BY <2>1, <2>4, <2>6, <2>8 DEF CancelsKeys
  <2> QED BY <2>9 DEF t
<1> QED BY <1>3, <1>4

ConnectionIteration(g, s, q, k) ==
    g = [n \in 0 .. k |-> IF n = 0 THEN s ELSE NextConnection(g[n - 1], q[n])]

\* The function that the loop over the connections defines exists.
LEMMA ConnectionIterates ==
    ASSUME NEW s, NEW q, NEW len \in Nat
    PROVE  \E g : ConnectionIteration(g, s, q, len)
<1> DEFINE G(g, k) == ConnectionIteration(g, s, q, k)
           T == {k \in Nat : \E g : G(g, k)}
<1>1. 0 \in T
  <2>1. G([n \in 0 .. 0 |-> s], 0)
    BY DEF ConnectionIteration
  <2> QED BY <2>1
<1>2. ASSUME NEW k \in Nat, k \in T PROVE k + 1 \in T
  <2>1. PICK g : G(g, k)
    BY <1>2
  <2> DEFINE h == [n \in 0 .. k + 1 |->
                      IF n = k + 1 THEN NextConnection(g[k], q[k + 1]) ELSE g[n]]
  <2>2. \A n \in 0 .. k : n # 0 => g[n] = NextConnection(g[n - 1], q[n])
    BY <2>1 DEF ConnectionIteration
  <2>3. g[0] = s
    BY <2>1 DEF ConnectionIteration
  <2>4. \A n \in 0 .. k : h[n] = g[n] /\ h[k + 1] = NextConnection(g[k], q[k + 1])
    OBVIOUS
  <2> HIDE DEF G
  <2>5. \A n \in 0 .. k + 1 : h[n] = IF n = 0 THEN s ELSE NextConnection(h[n - 1], q[n])
    <3> SUFFICES ASSUME NEW n \in 0 .. k + 1
                 PROVE  h[n] = IF n = 0 THEN s ELSE NextConnection(h[n - 1], q[n])
      OBVIOUS
    <3> HIDE DEF h
    <3>1. CASE n = 0
      BY <2>3, <2>4, <3>1
    <3>2. CASE n \in 1 .. k
      <4>1. n \in 0 .. k /\ n - 1 \in 0 .. k /\ n # 0
        BY <3>2
      <4> QED BY <2>2, <2>4, <4>1
    <3>3. CASE n = k + 1
      <4>1. n # 0 /\ n - 1 = k /\ k \in 0 .. k
        BY <3>3
      <4> QED BY <2>4, <3>3, <4>1
    <3> QED BY <3>1, <3>2, <3>3
  <2>6. h = [n \in 0 .. k + 1 |-> h[n]]
    OBVIOUS
  <2> HIDE DEF h
  <2>7. G(h, k + 1)
    BY <2>5, <2>6 DEF G, ConnectionIteration
  <2> QED BY <2>7
<1>3. len \in T
  <2> HIDE DEF T
  <2>1. \A n \in 0 .. len : n \in T
    BY <1>1, <1>2, Counting
  <2> QED BY <2>1
<1> QED BY <1>3

LEMMA ConnectionLoop ==
    ASSUME NEW s, NEW q, Len(q) \in Nat
    PROVE  \E f : /\ f[0] = s
                  /\ synthesizeCancelationEventsForAllConnectionsLocked(s, q) = f[Len(q)]
                  /\ \A n \in 0 .. Len(q) - 1 : f[n + 1] = NextConnection(f[n], q[n + 1])
<1> DEFINE f == CHOOSE g : ConnectionIteration(g, s, q, Len(q))
<1>1. ConnectionIteration(f, s, q, Len(q))
  BY ConnectionIterates
<1>2. synthesizeCancelationEventsForAllConnectionsLocked(s, q) = f[Len(q)]
  BY DEF synthesizeCancelationEventsForAllConnectionsLocked, ConnectionIteration
<1> HIDE DEF f
<1>3. f[0] = s
  BY <1>1 DEF ConnectionIteration
<1>4. ASSUME NEW n \in 0 .. Len(q) - 1 PROVE f[n + 1] = NextConnection(f[n], q[n + 1])
  <2>1. n + 1 \in 0 .. Len(q) /\ n + 1 # 0 /\ (n + 1) - 1 = n
    OBVIOUS
  <2> QED BY <1>1, <2>1 DEF ConnectionIteration
<1> QED BY <1>2, <1>3, <1>4

LEMMA SynthesizeAll ==
    ASSUME NEW s, NEW p, NEW cmd \in Command \cup {NoCommand}, NEW Q,
           Good(s, p, cmd, Q, {}), p.open = open,
           NEW r, NEW order \in SetToSeqs(Registered(r))
    PROVE  Good(synthesizeCancelationEventsForAllConnectionsLocked(s, order), p, cmd, Q, {})
<1>1. Len(order) \in Nat /\ \A n \in 1 .. Len(order) : order[n] \in Window
  <2> DEFINE R == Registered(r)
             k == Cardinality(R)
  <2>1. R \subseteq Window
    BY DEF Registered
  <2>2. k \in Nat
    BY <2>1, DispatcherAssumption, FS_Subset, FS_CardinalityType
  <2>3. order \in [1 .. k -> R]
    BY DEF SetToSeqs
  <2> HIDE DEF R, k
  <2>4. order \in Seq(R) /\ Len(order) = k
    BY <2>2, <2>3
  <2> QED BY <2>1, <2>2, <2>3, <2>4
<1>2. PICK f : /\ f[0] = s
               /\ synthesizeCancelationEventsForAllConnectionsLocked(s, order)
                     = f[Len(order)]
               /\ \A n \in 0 .. Len(order) - 1 :
                     f[n + 1] = NextConnection(f[n], order[n + 1])
  BY <1>1, ConnectionLoop
<1> DEFINE T == {n \in Nat : Good(f[n], p, cmd, Q, {})}
<1>3. 0 \in T
  BY <1>2
<1>4. ASSUME NEW n \in 0 .. Len(order) - 1, n \in T PROVE n + 1 \in T
  <2> DEFINE w == order[n + 1]
             u == f[n]
             t == synthesizeCancelationEventsForConnectionLocked(u, w, "none")
  <2>1. w \in Window /\ n + 1 \in Nat
    BY <1>1
  <2>2. f[n + 1] = t
    BY <1>2 DEF NextConnection
  <2>3. Good(u, p, cmd, Q, {})
    BY <1>4
  <2> HIDE DEF u, w
  <2>4. CancelsKeys(t, p, cmd, Q, w, "none")
    BY <2>1, <2>3, Synthesize
  <2> HIDE DEF t
  <2> QED BY <2>1, <2>2, <2>4 DEF CancelsKeys
<1>5. Len(order) \in T
  <2> HIDE DEF T
  <2>1. \A n \in 0 .. Len(order) : n \in T
    BY <1>1, <1>3, <1>4, Counting
  <2> QED BY <1>1, <2>1
<1> QED BY <1>2, <1>5
-----------------------------------------------------------------------------
(* Dispatching an event, and unregistering a channel.                       *)

\* prepareDispatchCycleLocked for the focused window, when it is ready.
LEMMA Prepare ==
    ASSUME NEW s, NEW p, NEW cmd \in Command \cup {NoCommand}, NEW Q,
           Good(s, p, cmd, Q, {}), p.open = open, NEW w \in Window, w \in Q,
           NEW ev \in KeyEntry, s.connection[w].outboundQueue = <<>>
    PROVE  Good(prepareDispatchCycleLocked(s, w, ev), p, cmd, Q, {})
<1> DEFINE e == [seq |-> s.seq, key |-> ev.key, action |-> ev.action,
                 foreground |-> TRUE, fallback |-> FALSE, injector |-> ev.injector]
           u == enqueueDispatchEntryLocked(s, w, e)
           t == prepareDispatchCycleLocked(s, w, ev)
<1>1. CASE s.connection[w].status # "NORMAL"
  <2>1. t = s
    BY <1>1 DEF prepareDispatchCycleLocked
  <2> QED BY <2>1
<1>2. CASE s.connection[w].status = "NORMAL"
  <2>1. t = startDispatchCycleLocked(u, w)
    BY <1>2 DEF prepareDispatchCycleLocked
  <2>2. s.seq \in Nat \ {0}
    BY WorldFields DEF Good
  <2>3. /\ e \in DispatchEntry /\ ~e.fallback /\ e.key \in Key /\ e.seq = s.seq
    BY <2>2 DEF DispatchEntry, KeyEntry, KeyCode
  <2> HIDE DEF e
  <2>4. s.connection[w].status # "NONE"
    BY <1>2
  <2> DEFINE U == {} \cup {w}
  <2>5. Good(u, p, cmd, Q, U)
    BY <2>3, <2>4, Enqueue
  <2>6. U \ {w} = {}
    OBVIOUS
  <2> HIDE DEF u, U
  <2>7. Good(startDispatchCycleLocked(u, w), p, cmd, Q, U \ {w})
    BY <2>5, Start
  <2> QED BY <2>1, <2>6, <2>7
<1> QED BY <1>1, <1>2

\* The peers of a window do not change.
SamePeers(p, r, v) ==
    /\ r.received[v] = p.received[v] /\ r.down[v] = p.down[v]
    /\ r.signals[v] = p.signals[v] /\ (v \in r.open <=> v \in p.open)

LEMMA PeersWindow ==
    ASSUME NEW s, NEW p, NEW r, NEW cmd, NEW Q, NEW U, NEW v, SamePeers(p, r, v),
           WindowOK(s, p, cmd, Q, U, v)
    PROVE  WindowOK(s, r, cmd, Q, U, v)
<1>1. LiveOK(s, p, cmd, U, v) /\ UnusedOK(s, p, v)
  BY DEF WindowOK
<1>2. UnusedOK(s, r, v)
  BY <1>1 DEF UnusedOK, SamePeers
<1>3. PlacesOK(s, p, cmd, v) => PlacesOK(s, r, cmd, v)
  BY DEF PlacesOK, SamePeers
<1>4. BlockedOK(s, p, v) => BlockedOK(s, r, v)
  BY DEF BlockedOK, SamePeers
<1>5. KeysOK(s, p, v) => KeysOK(s, r, v)
  BY DEF KeysOK, SamePeers
<1>6. LiveOK(s, r, cmd, U, v)
  BY <1>1, <1>3, <1>4, <1>5 DEF LiveOK, IsLive, SamePeers
<1> QED BY <1>2, <1>6 DEF WindowOK

\* What changes one window, and its peers.
LEMMA FramePeers ==
    ASSUME NEW s, NEW t \in WorldType, NEW p, NEW r, NEW cmd, NEW dmd, NEW Q, NEW U,
           Good(s, p, cmd, Q, U), Counted(t), HandOK(t, dmd), NEW w \in Window,
           \A v \in Window \ {w} : /\ Same(s, t, v) /\ InHand(dmd, v) = InHand(cmd, v)
                                   /\ SamePeers(p, r, v),
           WindowOK(t, r, dmd, Q, U, w)
    PROVE  Good(t, r, dmd, Q, U)
<1>1. s \in WorldType
  BY DEF Good
<1>2. ASSUME NEW v \in Window \ {w} PROVE WindowOK(t, r, dmd, Q, U, v)
  <2>1. WindowOK(s, p, cmd, Q, U, v)
    BY DEF Good
  <2>2. Same(s, t, v) /\ InHand(dmd, v) = InHand(cmd, v) /\ SamePeers(p, r, v)
    OBVIOUS
  <2>3. WindowOK(t, p, dmd, Q, U, v)
    BY <1>1, <2>1, <2>2, SameWindow
  <2> QED BY <2>2, <2>3, PeersWindow
<1> QED BY <1>2 DEF Good

\* A window that is not live needs little.
LEMMA DeadWindow ==
    ASSUME NEW t, NEW r, NEW cmd, NEW Q, NEW U, NEW w, ~IsLive(t, r, w),
           QueuesOK(t.connection[w], t.seq), MementosOK(t.connection[w], w \in Q),
           Len(t.pipe[w]) <= PipeSize, UnusedOK(t, r, w)
    PROVE  WindowOK(t, r, cmd, Q, U, w)
  BY DEF WindowOK, LiveOK

LEMMA SetFallbackKey ==
    ASSUME NEW s, NEW p, NEW cmd \in Command \cup {NoCommand}, NEW Q, NEW U,
           Good(s, p, cmd, Q, U), NEW w \in Window, NEW key \in Key, NEW code \in FallbackCode
    PROVE  /\ Good(setFallbackKey(s, w, key, code), p, cmd, Q, U)
           /\ setFallbackKey(s, w, key, code).commands = s.commands
<1> DEFINE t == setFallbackKey(s, w, key, code)
           c == s.connection[w]
           f == [c.mFallbackKeys EXCEPT ![key] = code]
           d == [c EXCEPT !.mFallbackKeys = f]
<1>1. s \in WorldType /\ Counted(s) /\ HandOK(s, cmd) /\ WindowOK(s, p, cmd, Q, U, w)
  BY DEF Good
<1>2. c \in Connection /\ c.mFallbackKeys \in [Key -> FallbackCode]
  BY <1>1, WorldFields, ConnectionFields
<1>3. f \in [Key -> FallbackCode]
  BY <1>2
<1>4. t = [s EXCEPT !.connection[w] = d]
  BY <1>1, <1>2 DEF setFallbackKey, WorldType, Connection
<1> SUFFICES Good(t, p, cmd, Q, U) /\ t.commands = s.commands
  OBVIOUS
<1> HIDE DEF t, f
<1>5. /\ d \in Connection /\ d.status = c.status /\ d.blocked = c.blocked
      /\ d.outboundQueue = c.outboundQueue /\ d.waitQueue = c.waitQueue
      /\ d.mKeyMementos = c.mKeyMementos
  BY <1>2, <1>3 DEF Connection
<1> HIDE DEF d
<1>6. /\ t \in WorldType /\ t.seq = s.seq /\ t.commands = s.commands /\ t.pipe = s.pipe
      /\ t.injection = s.injection /\ t.connection = [s.connection EXCEPT ![w] = d]
  BY <1>1, <1>4, <1>5 DEF WorldType
<1>7. t.connection[w] = d /\ \A v \in Window \ {w} : t.connection[v] = s.connection[v]
  BY <1>1, <1>6, WorldFields
<1>8. Counted(t)
  <2>1. Entries(d) = Entries(c)
    BY <1>5 DEF Entries
  <2>2. ASSUME NEW i \in Injector PROVE Recounts(s, t, w, i)
    <3>1. Dispatches(t, w, i) = Dispatches(s, w, i)
      BY <1>2, <1>5, <1>7, <2>1, DispatchesOf
    <3> QED BY <1>6, <3>1 DEF Recounts
  <2>3. ASSUME NEW i \in Injector, NEW v \in Window \ {w}
        PROVE  Dispatches(t, v, i) = Dispatches(s, v, i)
    BY <1>7, DispatchesSame
  <2> QED BY <1>1, <2>2, <2>3, Recounted
<1>9. HandOK(t, cmd)
  <2> SUFFICES ASSUME IsHand(cmd) PROVE HandOK(t, cmd)
    BY DEF HandOK
  <2>1. cmd.window \in Window
    BY HandType
  <2>2. CASE cmd.window = w
    BY <1>1, <1>5, <1>6, <1>7, <2>2 DEF HandOK
  <2>3. CASE cmd.window # w
    BY <1>1, <1>6, <1>7, <2>1, <2>3 DEF HandOK
  <2> QED BY <2>2, <2>3
<1>10. QueuesOK(d, t.seq) /\ MementosOK(d, w \in Q) /\ UnusedOK(t, p, w)
  BY <1>1, <1>5, <1>6, <1>7 DEF WindowOK, QueuesOK, MementosOK, UnusedOK
<1>11. PlacesOK(s, p, cmd, w) => PlacesOK(t, p, cmd, w)
  BY <1>5, <1>6, <1>7 DEF PlacesOK
<1>12. /\ BlockedOK(s, p, w) => BlockedOK(t, p, w)
       /\ StartedOK(c, w \in U) => StartedOK(d, w \in U)
       /\ KeysOK(s, p, w) => KeysOK(t, p, w)
  BY <1>5, <1>6, <1>7 DEF BlockedOK, StartedOK, KeysOK
<1>13. LiveOK(t, p, cmd, U, w)
  BY <1>1, <1>5, <1>7, <1>11, <1>12 DEF WindowOK, LiveOK, IsLive
<1>14. WindowOK(t, p, cmd, Q, U, w)
  BY <1>1, <1>6, <1>7, <1>10, <1>13 DEF WindowOK
<1>15. \A v \in Window \ {w} : Same(s, t, v)
  BY <1>1, <1>6, <1>7, WorldFields DEF Same
<1> QED BY <1>1, <1>6, <1>8, <1>9, <1>14, <1>15, Frame

\* The channel of a window is unregistered and its socket forgotten.
Forgets(p, r, w) ==
    /\ w \notin r.open /\ r.received[w] = <<>> /\ r.down[w] = {} /\ r.signals[w] = <<>>
    /\ \A v \in Window \ {w} : SamePeers(p, r, v)

LEMMA Unregister ==
    ASSUME NEW s, NEW p, NEW r, NEW cmd \in Command \cup {NoCommand}, NEW Q,
           Good(s, p, cmd, Q, {}), NEW w \in Window, Forgets(p, r, w),
           NEW notify \in BOOLEAN
    PROVE  Good(Unregistered(s, w, notify), r, cmd, Q, {})
<1> DEFINE x == abortBrokenDispatchCycleLocked(s, w, notify)
           u == unregisterInputChannelLocked(s, w, notify)
           t == Unregistered(s, w, notify)
<1>1. PICK v : /\ v \in {s, x} /\ Good(v, p, cmd, Q, {})
               /\ u = v \/ (u = [v EXCEPT !.connection[w].status = "ZOMBIE"])
               /\ u = v => v.connection[w].status # "NORMAL"
  <2>1. CASE w \in Registered(s)
    <3>1. {} \ {w} = {}
      OBVIOUS
    <3>2. Good(x, p, cmd, Q, {} \ {w})
      BY Abort, Zenon
    <3>3. u = [x EXCEPT !.connection[w].status = "ZOMBIE"]
      BY <2>1 DEF unregisterInputChannelLocked
    <3>4. x.connection[w].status # "NORMAL"
      <4>1. s \in WorldType /\ Counted(s)
        BY DEF Good
      <4>2. x.connection[w].status =
               IF s.connection[w].status = "NORMAL" THEN "BROKEN" ELSE s.connection[w].status
        BY <4>1, AbortFields
      <4> HIDE DEF x
      <4> QED BY <4>2
    <3> HIDE DEF x, u
    <3> QED BY <3>1, <3>2, <3>3, <3>4
  <2>2. CASE w \notin Registered(s)
    <3>1. u = s /\ s.connection[w].status # "NORMAL"
      BY <2>2 DEF unregisterInputChannelLocked, Registered
    <3> HIDE DEF x, u
    <3> QED BY <3>1
  <2> QED BY <2>1, <2>2
<1>2. t = [u EXCEPT !.pipe[w] = <<>>]
  BY DEF Unregistered
<1> SUFFICES Good(t, r, cmd, Q, {})
  OBVIOUS
<1> HIDE DEF x, u, t
<1> DEFINE c == v.connection[w]
           st == u.connection[w].status
           d == [c EXCEPT !.status = st]
<1>3. v \in WorldType /\ Counted(v) /\ HandOK(v, cmd) /\ WindowOK(v, p, cmd, Q, {}, w)
  BY <1>1 DEF Good
<1>4. c \in Connection /\ c.status \in {"NONE", "NORMAL", "BROKEN", "ZOMBIE"}
  BY <1>3, WorldFields, ConnectionFields
<1>5. /\ u = [v EXCEPT !.connection[w].status = st] /\ st \in {c.status, "ZOMBIE"}
      /\ st # "NORMAL"
  <2>1. CASE u = v
    <3>1. st = c.status /\ st # "NORMAL"
      BY <1>1, <2>1
    <3>2. v = [v EXCEPT !.connection[w].status = v.connection[w].status]
      BY <1>3 DEF WorldType, Connection
    <3> QED BY <2>1, <3>1, <3>2
  <2>2. CASE u = [v EXCEPT !.connection[w].status = "ZOMBIE"]
    <3>1. st = "ZOMBIE"
      BY <1>3, <2>2 DEF WorldType, Connection
    <3> QED BY <2>2, <3>1
  <2> QED BY <1>1, <2>1, <2>2
<1> HIDE DEF st
<1>6. /\ d \in Connection /\ d.status = st /\ d.blocked = c.blocked
      /\ d.outboundQueue = c.outboundQueue /\ d.waitQueue = c.waitQueue
      /\ d.mKeyMementos = c.mKeyMementos
  BY <1>4, <1>5 DEF Connection
<1>7. u = [v EXCEPT !.connection[w] = d]
  BY <1>3, <1>5 DEF WorldType, Connection
<1> HIDE DEF d
<1>8. /\ u \in WorldType /\ u.seq = v.seq /\ u.commands = v.commands /\ u.pipe = v.pipe
      /\ u.injection = v.injection /\ u.connection = [v.connection EXCEPT ![w] = d]
  BY <1>3, <1>6, <1>7 DEF WorldType
<1>9. <<>> \in Seq(DispatchEntry)
  OBVIOUS
<1>10. /\ t \in WorldType /\ t.seq = v.seq /\ t.commands = v.commands
       /\ t.injection = v.injection /\ t.connection = u.connection
       /\ t.pipe = [v.pipe EXCEPT ![w] = <<>>]
  BY <1>2, <1>8, <1>9 DEF WorldType
<1>11. /\ t.connection[w] = d /\ t.pipe[w] = <<>>
       /\ \A y \in Window \ {w} : t.connection[y] = v.connection[y] /\ t.pipe[y] = v.pipe[y]
  BY <1>3, <1>8, <1>10, WorldFields
<1>12. Counted(t)
  <2>1. Entries(d) = Entries(c)
    BY <1>6 DEF Entries
  <2>2. ASSUME NEW i \in Injector PROVE Recounts(v, t, w, i)
    <3>1. Dispatches(t, w, i) = Dispatches(v, w, i)
      BY <1>4, <1>6, <1>11, <2>1, DispatchesOf
    <3> QED BY <1>10, <3>1 DEF Recounts
  <2>3. ASSUME NEW i \in Injector, NEW y \in Window \ {w}
        PROVE  Dispatches(t, y, i) = Dispatches(v, y, i)
    BY <1>11, DispatchesSame
  <2> QED BY <1>3, <2>2, <2>3, Recounted
<1>13. HandOK(t, cmd)
  <2> SUFFICES ASSUME IsHand(cmd) PROVE HandOK(t, cmd)
    BY DEF HandOK
  <2>1. cmd.window \in Window
    BY HandType
  <2>2. CASE cmd.window = w
    <3>1. d.status # "NONE"
      BY <1>3, <1>5, <1>6, <2>2 DEF HandOK
    <3> QED BY <1>3, <1>6, <1>10, <1>11, <2>2, <3>1 DEF HandOK
  <2>3. CASE cmd.window # w
    BY <1>3, <1>10, <1>11, <2>1, <2>3 DEF HandOK
  <2> QED BY <2>2, <2>3
<1>14. QueuesOK(d, t.seq) /\ MementosOK(d, w \in Q)
  BY <1>3, <1>5, <1>6, <1>10 DEF WindowOK, QueuesOK, MementosOK
<1>15. Len(t.pipe[w]) <= PipeSize
  BY <1>11, ChannelAssumption
<1>16. UnusedOK(t, r, w)
  <2>1. d.status = "NONE" => c.status = "NONE"
    BY <1>5, <1>6
  <2> QED BY <1>3, <1>6, <1>10, <1>11, <2>1 DEF WindowOK, UnusedOK, Forgets
<1>17. ~IsLive(t, r, w)
  BY DEF IsLive, Forgets
<1>18. WindowOK(t, r, cmd, Q, {}, w)
  BY <1>11, <1>14, <1>15, <1>16, <1>17, DeadWindow
<1>19. \A y \in Window \ {w} : Same(v, t, y) /\ SamePeers(p, r, y)
  BY <1>3, <1>10, <1>11, WorldFields DEF Same, Forgets
<1> QED BY <1>1, <1>10, <1>12, <1>13, <1>18, <1>19, FramePeers
-----------------------------------------------------------------------------
(* Finishing an entry.  Its number is in the hands of the command cmd, and  *)
(* then nowhere.                                                            *)

LEMMA NoHand ==
    /\ ~IsHand(NoCommand) /\ NoCommand \in Command \cup {NoCommand}
    /\ \A v, s : InHand(NoCommand, v) = {} /\ HandOK(s, NoCommand)
  BY DEF IsHand, NoCommand, InHand, HandOK

LEMMA CommandSwap ==
    ASSUME NEW s, NEW p, NEW cmd, NEW dmd, NEW Q, NEW U, Good(s, p, cmd, Q, U),
           ~IsHand(cmd), ~IsHand(dmd)
    PROVE  Good(s, p, dmd, Q, U)
<1>1. s \in WorldType /\ Counted(s) /\ HandOK(s, dmd)
  BY DEF Good, HandOK
<1>2. \A v \in Window : Same(s, s, v) /\ InHand(dmd, v) = InHand(cmd, v)
  BY <1>1, WorldFields DEF Same, InHand
<1> QED BY <1>1, <1>2, FrameAll

\* The entry in hand leaves the wait queue of its window, and may join the
\* outbound queue.
Takes(s, t, cmd, w, n) ==
    LET c == s.connection[w]
        d == t.connection[w]
    IN  /\ t \in WorldType /\ t.seq = s.seq /\ t.commands = s.commands /\ t.pipe = s.pipe
        /\ \A v \in Window \ {w} : t.connection[v] = s.connection[v]
        /\ d.waitQueue = RemoveAt(c.waitQueue, n) /\ d.status = c.status
        /\ d.blocked = c.blocked /\ d.mKeyMementos = c.mKeyMementos
        /\ Unique(d.outboundQueue) /\ Plain(d.outboundQueue)
        /\ Seqs(d.outboundQueue) \subseteq Seqs(c.outboundQueue) \cup {cmd.entry.seq}

LEMMA Taken ==
    ASSUME NEW s, NEW t, NEW p, NEW cmd \in Command \cup {NoCommand}, NEW Q,
           Good(s, p, cmd, Q, {}), NEW w \in Window, IsHand(cmd), cmd.window = w,
           NEW n \in DOMAIN s.connection[w].waitQueue,
           s.connection[w].waitQueue[n].seq = cmd.entry.seq,
           Takes(s, t, cmd, w, n), Counted(t), KeysOK(s, p, w) => KeysOK(t, p, w)
    PROVE  Good(t, p, NoCommand, Q, {w})
<1> DEFINE c == s.connection[w]
           d == t.connection[w]
           x == cmd.entry.seq
           V == {w}
<1>1. s \in WorldType /\ Counted(s) /\ HandOK(s, cmd) /\ WindowOK(s, p, cmd, Q, {}, w)
  BY DEF Good
<1>2. /\ QueuesOK(c, s.seq) /\ MementosOK(c, w \in Q) /\ LiveOK(s, p, cmd, {}, w)
      /\ Len(s.pipe[w]) <= PipeSize
  BY <1>1 DEF WindowOK
<1>3. /\ t \in WorldType /\ t.seq = s.seq /\ t.commands = s.commands /\ t.pipe = s.pipe
      /\ \A v \in Window \ {w} : t.connection[v] = s.connection[v]
      /\ d.waitQueue = RemoveAt(c.waitQueue, n) /\ d.status = c.status
      /\ d.blocked = c.blocked /\ d.mKeyMementos = c.mKeyMementos
      /\ Unique(d.outboundQueue) /\ Plain(d.outboundQueue)
      /\ Seqs(d.outboundQueue) \subseteq Seqs(c.outboundQueue) \cup {x}
  BY DEF Takes
<1>4. c \in Connection /\ c.waitQueue \in Seq(DispatchEntry)
  BY <1>1, WorldFields, ConnectionFields
<1>5. /\ Unique(c.waitQueue) /\ Plain(c.waitQueue)
      /\ Seqs(c.outboundQueue) \cap Seqs(c.waitQueue) = {} /\ x \in Seqs(c.waitQueue)
  BY <1>2 DEF QueuesOK, Seqs
<1>6. /\ Unique(d.waitQueue) /\ Seqs(d.waitQueue) = Seqs(c.waitQueue) \ {x}
      /\ Plain(d.waitQueue)
  <2> DEFINE q == c.waitQueue
             y == d.waitQueue
  <2>1. /\ q \in Seq(DispatchEntry) /\ n \in DOMAIN q /\ Unique(q) /\ Plain(q)
        /\ y = RemoveAt(q, n) /\ q[n].seq = x
    BY <1>3, <1>4, <1>5
  <2> HIDE DEF q, y
  <2>2. /\ Unique(RemoveAt(q, n)) /\ Seqs(RemoveAt(q, n)) = Seqs(q) \ {q[n].seq}
        /\ Plain(RemoveAt(q, n))
    BY <2>1, Removed
  <2> QED BY <2>1, <2>2 DEF q, y
<1>7. QueuesOK(d, t.seq)
  BY <1>2, <1>3, <1>5, <1>6 DEF QueuesOK
<1>8. MementosOK(d, w \in Q)
  BY <1>2, <1>3 DEF MementosOK
<1>9. UnusedOK(t, p, w)
  BY <1>1, <1>3 DEF HandOK, UnusedOK
<1>10. LiveOK(t, p, NoCommand, V, w)
  <2> SUFFICES ASSUME IsLive(t, p, w)
               PROVE  /\ PlacesOK(t, p, NoCommand, w) /\ BlockedOK(t, p, w)
                      /\ StartedOK(d, w \in V) /\ KeysOK(t, p, w)
    BY DEF LiveOK
  <2>1. PlacesOK(s, p, cmd, w) /\ BlockedOK(s, p, w) /\ KeysOK(s, p, w)
    BY <1>2, <1>3 DEF LiveOK, IsLive
  <2>2. InHand(cmd, w) = {x} /\ InHand(NoCommand, w) = {}
    BY NoHand DEF InHand
  <2>3. Parts(Seqs(t.pipe[w]), Seqs(p.received[w]), Seqs(p.signals[w]),
              FinishSeqs(t.commands, w), InHand(NoCommand, w), Seqs(d.waitQueue))
    BY <1>3, <1>6, <2>1, <2>2 DEF PlacesOK, Parts
  <2>4. PlacesOK(t, p, NoCommand, w)
    BY <1>3, <2>1, <2>3 DEF PlacesOK
  <2>5. BlockedOK(t, p, w)
    BY <1>3, <2>1 DEF BlockedOK
  <2>6. StartedOK(d, w \in V)
    BY DEF StartedOK
  <2> QED BY <2>1, <2>4, <2>5, <2>6
<1>11. WindowOK(t, p, NoCommand, Q, V, w)
  BY <1>2, <1>3, <1>7, <1>8, <1>9, <1>10 DEF WindowOK
<1>12. ASSUME NEW v \in Window \ {w}
       PROVE  Same(s, t, v) /\ InHand(NoCommand, v) = InHand(cmd, v) /\ (v \in {} => v \in V)
  BY <1>1, <1>3, NoHand, WorldFields DEF Same, InHand
<1> HIDE DEF V
<1>13. Good(t, p, NoCommand, Q, V)
  BY <1>1, <1>3, <1>11, <1>12, NoHand, Frame
<1> QED BY <1>13 DEF V

\* The entry is sent again, as a key that is none of Key.
LEMMA SendsAgain ==
    ASSUME NEW s, NEW p, NEW cmd \in Command \cup {NoCommand}, NEW Q,
           Good(s, p, cmd, Q, {}), NEW w \in Window, IsHand(cmd), cmd.window = w,
           NEW n \in DOMAIN s.connection[w].waitQueue,
           s.connection[w].waitQueue[n].seq = cmd.entry.seq,
           NEW again \in DispatchEntry, again.seq = cmd.entry.seq, again.fallback,
           again.foreground = cmd.entry.foreground, again.injector = cmd.entry.injector,
           again.key \notin Key
    PROVE  Good(SendAgain(s, w, n, again), p, NoCommand, Q, {w})
<1> DEFINE c == s.connection[w]
           t == SendAgain(s, w, n, again)
           out == <<again>> \o c.outboundQueue
           wait == RemoveAt(c.waitQueue, n)
           d == [c EXCEPT !.outboundQueue = out, !.waitQueue = wait]
           x == cmd.entry.seq
           one == <<again>>
<1>1. s \in WorldType /\ Counted(s) /\ HandOK(s, cmd) /\ WindowOK(s, p, cmd, Q, {}, w)
  BY DEF Good
<1>2. QueuesOK(c, s.seq)
  BY <1>1 DEF WindowOK
<1>3. /\ c \in Connection /\ c.waitQueue \in Seq(DispatchEntry)
      /\ c.outboundQueue \in Seq(DispatchEntry)
  BY <1>1, WorldFields, ConnectionFields
<1>4. /\ x \notin Seqs(c.outboundQueue) /\ c.waitQueue[n] = cmd.entry
  BY <1>1 DEF HandOK
<1>5. out \in Seq(DispatchEntry) /\ one \in Seq(DispatchEntry)
  BY <1>3
<1>6. wait \in Seq(DispatchEntry) /\ ToSet(wait) = ToSet(c.waitQueue) \ {cmd.entry}
  <2> DEFINE q == c.waitQueue
  <2>1. q \in Seq(DispatchEntry) /\ n \in DOMAIN q /\ Unique(q) /\ q[n] = cmd.entry
    BY <1>2, <1>3, <1>4 DEF QueuesOK
  <2> HIDE DEF q
  <2>2. RemoveAt(q, n) \in Seq(DispatchEntry) /\ ToSet(RemoveAt(q, n)) = ToSet(q) \ {q[n]}
    BY <2>1, Removed, ToSetRemove
  <2> QED BY <2>1, <2>2 DEF q
<1>7. t = WithConnection(s, w, d)
  BY <1>3 DEF SendAgain, Connection
<1> SUFFICES Good(t, p, NoCommand, Q, {w})
  OBVIOUS
<1>8. out = one \o c.outboundQueue
  OBVIOUS
<1>9. ToSet(one) = {again} /\ Seqs(one) = {x} /\ Unique(one) /\ Plain(one)
  BY Single DEF ToSet
<1> HIDE DEF t, out, wait, one
<1>10. /\ d \in Connection /\ d.outboundQueue = out /\ d.waitQueue = wait
       /\ d.status = c.status /\ d.blocked = c.blocked /\ d.mKeyMementos = c.mKeyMementos
  BY <1>3, <1>5, <1>6 DEF Connection
<1> HIDE DEF d
<1>11. /\ t \in WorldType /\ t.seq = s.seq /\ t.commands = s.commands /\ t.pipe = s.pipe
       /\ t.injection = s.injection /\ t.connection = [s.connection EXCEPT ![w] = d]
  BY <1>1, <1>7, <1>10 DEF WithConnection, WorldType
<1>12. t.connection[w] = d /\ \A v \in Window \ {w} : t.connection[v] = s.connection[v]
  BY <1>1, <1>11, WorldFields
<1>13. Seqs(out) = {x} \cup Seqs(c.outboundQueue) /\ Unique(out) /\ Plain(out)
  <2> DEFINE o == c.outboundQueue
  <2>1. o \in Seq(DispatchEntry) /\ Unique(o) /\ Plain(o) /\ x \notin Seqs(o) /\ out = one \o o
    BY <1>2, <1>3, <1>4, <1>8 DEF QueuesOK
  <2> HIDE DEF o
  <2>2. Seqs(out) = Seqs(one) \cup Seqs(o)
    BY <1>5, <2>1, SeqsConcat
  <2>3. Unique(out)
    BY <1>5, <1>9, <2>1, UniqueConcat
  <2>4. Plain(out)
    BY <1>5, <1>9, <2>1, PlainConcat
  <2> QED BY <1>9, <2>2, <2>3, <2>4 DEF o
<1>14. Takes(s, t, cmd, w, n)
  BY <1>10, <1>11, <1>12, <1>13 DEF Takes, wait
<1>15. Counted(t)
  <2> DEFINE E == Entries(c)
             F == Entries(d)
  <2>1. ToSet(out) = {again} \cup ToSet(c.outboundQueue)
    BY <1>3, <1>5, <1>8, <1>9, ToSetConcat
  <2>2. cmd.entry \in ToSet(c.waitQueue) /\ cmd.entry \notin ToSet(c.outboundQueue)
    BY <1>4 DEF ToSet, Seqs
  <2>3. F = (E \ {cmd.entry}) \cup {again} /\ cmd.entry \in E
    BY <1>6, <1>10, <2>1, <2>2 DEF Entries
  <2> HIDE DEF E, F
  <2>4. ASSUME NEW i \in Injector PROVE Recounts(s, t, w, i)
    <3>1. ForegroundOf(w, F, i) = ForegroundOf(w, E, i)
      BY <2>3 DEF ForegroundOf
    <3>2. Dispatches(t, w, i) = Dispatches(s, w, i)
      BY <1>3, <1>10, <1>12, <3>1, DispatchesOf DEF E, F
    <3> QED BY <1>11, <3>2 DEF Recounts
  <2>5. ASSUME NEW i \in Injector, NEW v \in Window \ {w}
        PROVE  Dispatches(t, v, i) = Dispatches(s, v, i)
    BY <1>12, DispatchesSame
  <2> QED BY <1>1, <2>4, <2>5, Recounted
<1>16. KeysOK(s, p, w) => KeysOK(t, p, w)
  <2> DEFINE a == s.pipe[w]
             b == c.outboundQueue
  <2>1. a \in Seq(DispatchEntry) /\ b \in Seq(DispatchEntry)
    BY <1>1, <1>3, WorldFields
  <2>2. KeysAfter(p.down[w], a \o out) \cap Key = KeysAfter(p.down[w], a \o b) \cap Key
    <3> DEFINE L == KeysAfter(p.down[w], a)
               M == KeyState(L, again)
    <3>1. L \in SUBSET KeyCode
      BY KeysType
    <3>2. KeysAfter(L, one) = M /\ M \cap Key = L \cap Key
      BY <3>1, KeysOne DEF one, KeyState
    <3> HIDE DEF a, b, M
    <3>3. KeysAfter(p.down[w], a \o b) = KeysAfter(L, b)
      BY <2>1, KeysConcat
    <3>4. KeysAfter(p.down[w], a \o out) = KeysAfter(L, out)
      BY <1>5, <2>1, KeysConcat
    <3>5. KeysAfter(L, out) = KeysAfter(KeysAfter(L, one), b)
      BY <1>5, <1>8, <2>1, KeysConcat DEF b
    <3> HIDE DEF L
    <3>6. KeysAfter(M, b) \cap Key = KeysAfter(L, b) \cap Key
      BY <3>2, KeysSame
    <3> QED BY <3>2, <3>3, <3>4, <3>5, <3>6
  <2>3. /\ KeysAfter(p.down[w], t.pipe[w] \o t.connection[w].outboundQueue)
              = KeysAfter(p.down[w], a \o out)
        /\ t.connection[w].mKeyMementos = c.mKeyMementos
    BY <1>10, <1>11, <1>12
  <2> QED BY <2>2, <2>3 DEF KeysOK
<1> QED BY <1>14, <1>15, <1>16, Taken

LEMMA ReleaseDispatch ==
    ASSUME NEW s \in WorldType, NEW e \in DispatchEntry,
           e.foreground /\ e.injector # NoInjector
              => s.injection[e.injector].pending - 1 \in Nat
    PROVE  LET r == releaseDispatchEntryLocked(s, e)
           IN  /\ r \in WorldType /\ r.connection = s.connection /\ r.commands = s.commands
               /\ r.seq = s.seq /\ r.pipe = s.pipe
               /\ \A i \in Injector : r.injection[i].pending =
                     IF e.foreground /\ e.injector = i THEN s.injection[i].pending - 1
                     ELSE s.injection[i].pending
<1> DEFINE r == releaseDispatchEntryLocked(s, e)
           i0 == e.injector
           m == s.injection[i0].pending - 1
           left == [s.injection EXCEPT ![i0].pending = @ - 1]
           k == WokenFrom(left, "awaitFinished", "checkFinished")
<1>1. CASE e.foreground /\ i0 # NoInjector
  <2>1. i0 \in Injector /\ s.injection \in [Injector -> InjectionState]
    BY <1>1, EntryFields, WorldFields
  <2>2. s.injection[i0] \in InjectionState /\ m \in Nat
    BY <1>1, <2>1
  <2>3. left = [s.injection EXCEPT ![i0] = [s.injection[i0] EXCEPT !.pending = m]]
    BY <2>1 DEF InjectionState
  <2>4. r = [s EXCEPT !.injection = k] \/ r = [s EXCEPT !.injection = left]
    BY <1>1 DEF releaseDispatchEntryLocked, WorldType
  <2> HIDE DEF m, left
  <2>5. /\ [s.injection[i0] EXCEPT !.pending = m] \in InjectionState
        /\ [s.injection[i0] EXCEPT !.pending = m].pending = m
    BY <2>2 DEF InjectionState
  <2>6. /\ left \in [Injector -> InjectionState]
        /\ \A i \in Injector :
              left[i].pending = IF i0 = i THEN m ELSE s.injection[i].pending
    BY <2>1, <2>3, <2>5
  <2>7. /\ k \in [Injector -> InjectionState]
        /\ \A i \in Injector : k[i].pending = left[i].pending
    BY <2>6, WokenFromType
  <2> HIDE DEF k, r, i0
  <2>8. PICK j \in {k, left} : r = [s EXCEPT !.injection = j]
    BY <2>4
  <2>9. /\ j \in [Injector -> InjectionState]
        /\ \A i \in Injector : j[i].pending = IF i0 = i THEN m ELSE s.injection[i].pending
    BY <2>6, <2>7
  <2>10. /\ r \in WorldType /\ r.connection = s.connection /\ r.commands = s.commands
         /\ r.seq = s.seq /\ r.pipe = s.pipe /\ r.injection = j
    BY <2>8, <2>9 DEF WorldType
  <2> QED BY <1>1, <2>9, <2>10 DEF r, i0, m
<1>2. CASE ~(e.foreground /\ i0 # NoInjector)
  <2>1. r = s
    BY <1>2 DEF releaseDispatchEntryLocked
  <2>2. ~(e.foreground /\ \E i \in Injector : e.injector = i)
    BY <1>2, ChannelAssumption
  <2> QED BY <2>1, <2>2
<1> QED BY <1>1, <1>2

\* The entry is released.
LEMMA Releases ==
    ASSUME NEW s, NEW p, NEW cmd \in Command \cup {NoCommand}, NEW Q,
           Good(s, p, cmd, Q, {}), NEW w \in Window, IsHand(cmd), cmd.window = w,
           NEW n \in DOMAIN s.connection[w].waitQueue,
           s.connection[w].waitQueue[n].seq = cmd.entry.seq
    PROVE  Good(Release(s, w, n, cmd.entry), p, NoCommand, Q, {w})
<1> DEFINE c == s.connection[w]
           e == cmd.entry
           t == Release(s, w, n, e)
           wait == RemoveAt(c.waitQueue, n)
           d == [c EXCEPT !.waitQueue = wait]
           r == releaseDispatchEntryLocked(s, e)
<1>1. s \in WorldType /\ Counted(s) /\ HandOK(s, cmd) /\ WindowOK(s, p, cmd, Q, {}, w)
  BY DEF Good
<1>2. QueuesOK(c, s.seq)
  BY <1>1 DEF WindowOK
<1>3. /\ c \in Connection /\ c.waitQueue \in Seq(DispatchEntry)
      /\ c.outboundQueue \in Seq(DispatchEntry)
  BY <1>1, WorldFields, ConnectionFields
<1>4. /\ e.seq \notin Seqs(c.outboundQueue) /\ c.waitQueue[n] = e
      /\ e \in DispatchEntry
  BY <1>1, HandType DEF HandOK
<1>5. wait \in Seq(DispatchEntry) /\ ToSet(wait) = ToSet(c.waitQueue) \ {e}
  <2> DEFINE q == c.waitQueue
  <2>1. q \in Seq(DispatchEntry) /\ n \in DOMAIN q /\ Unique(q) /\ q[n] = e
    BY <1>2, <1>3, <1>4 DEF QueuesOK
  <2> HIDE DEF q
  <2>2. RemoveAt(q, n) \in Seq(DispatchEntry) /\ ToSet(RemoveAt(q, n)) = ToSet(q) \ {q[n]}
    BY <2>1, Removed, ToSetRemove
  <2> QED BY <2>1, <2>2 DEF q
<1>6. t = WithConnection(r, w, d)
  BY <1>3 DEF Release, Connection
<1>7. e \in Entries(c) /\ e \notin ToSet(c.outboundQueue)
  BY <1>4 DEF Entries, ToSet, Seqs
<1>8. ASSUME NEW i \in Injector, e.foreground /\ e.injector = i
      PROVE  /\ <<w, e.seq>> \in Dispatches(s, w, i)
             /\ s.injection[i].pending - 1 \in Nat
  <2>1. <<w, e.seq>> \in ForegroundOf(w, Entries(c), i)
    BY <1>7, <1>8 DEF ForegroundOf
  <2>2. Dispatches(s, w, i) = ForegroundOf(w, Entries(c), i)
    BY <1>3, DispatchesOf
  <2>3. <<w, e.seq>> \in Foreground(s, i)
    BY <2>1, <2>2 DEF Foreground
  <2> DEFINE F == Foreground(s, i)
  <2>4. IsFiniteSet(F) /\ s.injection[i].pending = Cardinality(F) /\ F # {}
    BY <1>1, <2>3 DEF Counted
  <2> HIDE DEF F
  <2>5. Cardinality(F) \in Nat /\ Cardinality(F) # 0
    BY <2>4, FS_CardinalityType, FS_EmptySet
  <2> QED BY <2>1, <2>2, <2>4, <2>5
<1>9. e.foreground /\ e.injector # NoInjector => s.injection[e.injector].pending - 1 \in Nat
  BY <1>4, <1>8, EntryFields
<1>10. /\ r \in WorldType /\ r.connection = s.connection /\ r.commands = s.commands
       /\ r.seq = s.seq /\ r.pipe = s.pipe
       /\ \A i \in Injector : r.injection[i].pending =
             IF e.foreground /\ e.injector = i THEN s.injection[i].pending - 1
             ELSE s.injection[i].pending
  BY <1>1, <1>4, <1>9, ReleaseDispatch
<1> SUFFICES Good(t, p, NoCommand, Q, {w})
  OBVIOUS
<1> HIDE DEF t, wait, r
<1>11. /\ d \in Connection /\ d.outboundQueue = c.outboundQueue /\ d.waitQueue = wait
       /\ d.status = c.status /\ d.blocked = c.blocked /\ d.mKeyMementos = c.mKeyMementos
  BY <1>3, <1>5 DEF Connection
<1> HIDE DEF d
<1>12. /\ t \in WorldType /\ t.seq = s.seq /\ t.commands = s.commands /\ t.pipe = s.pipe
       /\ t.injection = r.injection /\ t.connection = [s.connection EXCEPT ![w] = d]
  BY <1>6, <1>10, <1>11 DEF WithConnection, WorldType
<1>13. t.connection[w] = d /\ \A v \in Window \ {w} : t.connection[v] = s.connection[v]
  BY <1>1, <1>12, WorldFields
<1>14. Takes(s, t, cmd, w, n)
  BY <1>2, <1>11, <1>12, <1>13 DEF Takes, wait, QueuesOK
<1>15. Counted(t)
  <2> DEFINE E == Entries(c)
             F == Entries(d)
  <2>1. F = E \ {e} /\ e \in E
    BY <1>5, <1>7, <1>11 DEF Entries
  <2>2. ASSUME NEW z \in E, z.seq = e.seq PROVE z = e
    BY <1>2, <1>7, <2>2, EntriesUnique
  <2> HIDE DEF E, F
  <2>3. ASSUME NEW i \in Injector PROVE Recounts(s, t, w, i)
    <3>1. Dispatches(t, w, i) = ForegroundOf(w, F, i)
      BY <1>11, <1>13, DispatchesOf DEF F
    <3>2. Dispatches(s, w, i) = ForegroundOf(w, E, i)
      BY <1>3, DispatchesOf DEF E
    <3>3. CASE e.foreground /\ e.injector = i
      <4> DEFINE x == <<w, e.seq>>
      <4>1. ASSUME NEW z PROVE <<w, z.seq>> = x <=> z.seq = e.seq
        OBVIOUS
      <4>2. x \in Dispatches(s, w, i)
        BY <1>8, <3>3
      <4> HIDE DEF x
      <4>3. ForegroundOf(w, F, i) = ForegroundOf(w, E, i) \ {x}
        BY <2>1, <2>2, <4>1 DEF ForegroundOf
      <4>4. t.injection[i].pending = s.injection[i].pending - 1
        BY <1>10, <1>12, <3>3
      <4>5. Dispatches(t, w, i) = Dispatches(s, w, i) \ {x}
        BY <3>1, <3>2, <4>3
      <4> QED BY <4>2, <4>4, <4>5 DEF Recounts
    <3>4. CASE ~(e.foreground /\ e.injector = i)
      <4>1. ForegroundOf(w, F, i) = ForegroundOf(w, E, i)
        BY <2>1, <3>4 DEF ForegroundOf
      <4>2. t.injection[i].pending = s.injection[i].pending
        BY <1>10, <1>12, <3>4
      <4> QED BY <3>1, <3>2, <4>1, <4>2 DEF Recounts
    <3> QED BY <3>3, <3>4
  <2>4. ASSUME NEW i \in Injector, NEW v \in Window \ {w}
        PROVE  Dispatches(t, v, i) = Dispatches(s, v, i)
    BY <1>13, DispatchesSame
  <2> QED BY <1>1, <2>3, <2>4, Recounted
<1>16. KeysOK(s, p, w) => KeysOK(t, p, w)
  BY <1>11, <1>12, <1>13 DEF KeysOK
<1> QED BY <1>14, <1>15, <1>16, Taken

\* The end of doDispatchCycleFinished, with its entry in the hands of cmd.
LEMMA FinishEntry ==
    ASSUME NEW s, NEW p, NEW cmd \in Command \cup {NoCommand}, NEW Q,
           Good(s, p, cmd, Q, {}), p.open = open, NEW w \in Window, IsHand(cmd),
           cmd.window = w, NEW again \in DispatchEntry,
           \/ again = cmd.entry
           \/ /\ again.seq = cmd.entry.seq /\ again.fallback /\ again.key \notin Key
              /\ again.foreground = cmd.entry.foreground
              /\ again.injector = cmd.entry.injector
    PROVE  Good(finishEntry(s, w, cmd.entry, again), p, NoCommand, Q, {})
<1> DEFINE e == cmd.entry
           found == findWaitQueueEntry(s, w, e.seq)
           n == CHOOSE m \in found : TRUE
           u == IF found = {} THEN s
                ELSE IF again.fallback # e.fallback /\ s.connection[w].status = "NORMAL"
                     THEN SendAgain(s, w, n, again) ELSE Release(s, w, n, e)
           U == {w}
<1>1. finishEntry(s, w, e, again) = startDispatchCycleLocked(u, w)
  BY DEF finishEntry
<1>2. U \ {w} = {} /\ {} \subseteq U
  OBVIOUS
<1>3. Good(u, p, NoCommand, Q, U)
  <2>1. CASE found = {}
    <3>1. u = s
      BY <2>1
    <3>2. s \in WorldType /\ Counted(s) /\ WindowOK(s, p, cmd, Q, {}, w)
      BY DEF Good
    <3>3. InHand(cmd, w) = {e.seq}
      BY DEF InHand
    <3>4. e.seq \notin Seqs(s.connection[w].waitQueue)
      BY <2>1 DEF findWaitQueueEntry, Seqs
    <3>5. ~IsLive(s, p, w)
      BY <3>2, <3>3, <3>4 DEF WindowOK, LiveOK, PlacesOK, Parts
    <3>6. WindowOK(s, p, NoCommand, Q, {}, w)
      BY <3>2, <3>5 DEF WindowOK, LiveOK
    <3>7. \A v \in Window \ {w} : Same(s, s, v) /\ InHand(NoCommand, v) = InHand(cmd, v)
      BY <3>2, NoHand, WorldFields DEF Same, InHand
    <3>8. Good(s, p, NoCommand, Q, {})
      BY <3>2, <3>6, <3>7, NoHand, Frame
    <3> HIDE DEF u, U
    <3> QED BY <1>2, <3>1, <3>8, GoodMore
  <2>2. CASE found # {}
    <3>1. n \in DOMAIN s.connection[w].waitQueue /\ s.connection[w].waitQueue[n].seq = e.seq
      <4>1. n \in found
        BY <2>2
      <4> HIDE DEF n
      <4> QED BY <4>1 DEF findWaitQueueEntry
    <3>2. CASE again.fallback # e.fallback /\ s.connection[w].status = "NORMAL"
      <4>1. u = SendAgain(s, w, n, again)
        BY <2>2, <3>2
      <4>2. /\ again.seq = e.seq /\ again.fallback /\ again.key \notin Key
            /\ again.foreground = e.foreground /\ again.injector = e.injector
        BY <3>2
      <4> HIDE DEF u, n
      <4>3. Good(SendAgain(s, w, n, again), p, NoCommand, Q, {w})
        BY <3>1, <4>2, SendsAgain
      <4> QED BY <4>1, <4>3
    <3>3. CASE ~(again.fallback # e.fallback /\ s.connection[w].status = "NORMAL")
      <4>1. u = Release(s, w, n, e)
        BY <2>2, <3>3
      <4> HIDE DEF u, n
      <4>2. Good(Release(s, w, n, cmd.entry), p, NoCommand, Q, {w})
        BY <3>1, Releases
      <4> QED BY <4>1, <4>2
    <3> QED BY <3>2, <3>3
  <2> QED BY <2>1, <2>2
<1> HIDE DEF u, U
<1>4. Good(startDispatchCycleLocked(u, w), p, NoCommand, Q, U \ {w})
  BY <1>3, NoHand, Start
<1> QED BY <1>1, <1>2, <1>4
-----------------------------------------------------------------------------
(* Taking a command from the queue.                                         *)

Popped(s) == [s EXCEPT !.commands = Tail(@)]

LEMMA PoppedFields ==
    ASSUME NEW s \in WorldType, s.commands # <<>>, Counted(s)
    PROVE  /\ Popped(s) \in WorldType /\ Popped(s).connection = s.connection
           /\ Popped(s).commands = Tail(s.commands) /\ Popped(s).seq = s.seq
           /\ Popped(s).pipe = s.pipe /\ Popped(s).injection = s.injection
           /\ Counted(Popped(s)) /\ Head(s.commands) \in Command
<1> DEFINE t == Popped(s)
           q == Tail(s.commands)
<1>1. q \in Seq(Command) /\ Head(s.commands) \in Command
  BY WorldFields
<1> HIDE DEF q
<1>2. /\ t \in WorldType /\ t.connection = s.connection /\ t.commands = q
      /\ t.seq = s.seq /\ t.pipe = s.pipe /\ t.injection = s.injection
  BY <1>1 DEF WorldType, Popped, q
<1> HIDE DEF t
<1>3. Counted(t)
  BY <1>2, CountedSame
<1> QED BY <1>1, <1>2, <1>3 DEF t, q

\* A command that finishes nothing.
LEMMA PopOther ==
    ASSUME NEW s, NEW p, NEW Q, Good(s, p, NoCommand, Q, {}), s.commands # <<>>,
           Head(s.commands).type # "finished", NEW dmd, ~IsHand(dmd)
    PROVE  Good(Popped(s), p, dmd, Q, {})
<1> DEFINE t == Popped(s)
<1>1. s \in WorldType /\ Counted(s)
  BY DEF Good
<1>2. /\ t \in WorldType /\ t.connection = s.connection /\ t.commands = Tail(s.commands)
      /\ t.seq = s.seq /\ t.pipe = s.pipe /\ Counted(t)
  BY <1>1, PoppedFields
<1> SUFFICES Good(t, p, dmd, Q, {})
  OBVIOUS
<1> HIDE DEF t
<1>3. s.commands \in Seq(Command)
  BY <1>1, WorldFields
<1>4. \A v \in Window : Same(s, t, v)
  BY <1>1, <1>2, <1>3, FinishTail, WorldFields DEF Same
<1>5. HandOK(t, dmd) /\ \A v \in Window : InHand(dmd, v) = InHand(NoCommand, v)
  BY NoHand DEF HandOK, InHand
<1> QED BY <1>2, <1>4, <1>5, FrameAll

\* A command that finishes an entry, which passes into the hands of dmd, or is
\* gone.
LEMMA PopFinished ==
    ASSUME NEW s, NEW p, NEW Q, Good(s, p, NoCommand, Q, {}), s.commands # <<>>,
           Head(s.commands).type = "finished", NEW w \in Window,
           Head(s.commands).window = w, NEW dmd,
           LET found == findWaitQueueEntry(s, w, Head(s.commands).seq)
           IN  IF found = {} THEN ~IsHand(dmd)
               ELSE /\ IsHand(dmd) /\ dmd.window = w
                    /\ \E n \in found : dmd.entry = s.connection[w].waitQueue[n]
    PROVE  Good(Popped(s), p, dmd, Q, {})
<1> DEFINE t == Popped(s)
           c == s.connection[w]
           x == Head(s.commands).seq
           found == findWaitQueueEntry(s, w, x)
<1>1. s \in WorldType /\ Counted(s) /\ WindowOK(s, p, NoCommand, Q, {}, w)
  BY DEF Good
<1>2. /\ t \in WorldType /\ t.connection = s.connection /\ t.commands = Tail(s.commands)
      /\ t.seq = s.seq /\ t.pipe = s.pipe /\ Counted(t)
  BY <1>1, PoppedFields
<1> SUFFICES Good(t, p, dmd, Q, {})
  OBVIOUS
<1> HIDE DEF t
<1>3. s.commands \in Seq(Command) /\ c \in Connection
  BY <1>1, WorldFields
<1>4. /\ x \in FinishSeqs(s.commands, w)
      /\ FinishOnce(s.commands, w) =>
            /\ FinishOnce(t.commands, w)
            /\ FinishSeqs(t.commands, w) = FinishSeqs(s.commands, w) \ {x}
  <2> DEFINE q == s.commands
  <2>1. /\ q \in Seq(Command) /\ q # <<>> /\ t.commands = Tail(q) /\ x = Head(q).seq
        /\ Head(q).type = "finished" /\ Head(q).window = w
    BY <1>2, <1>3
  <2> HIDE DEF q, x
  <2>2. /\ Head(q).seq \in FinishSeqs(q, w)
        /\ FinishOnce(q, w) => FinishOnce(Tail(q), w)
        /\ FinishOnce(q, w) => FinishSeqs(Tail(q), w) = FinishSeqs(q, w) \ {Head(q).seq}
    BY <2>1, FinishTail
  <2> QED BY <2>1, <2>2 DEF q
<1>5. \A v \in Window \ {w} : Same(s, t, v)
  BY <1>1, <1>2, <1>3, FinishTail, WorldFields DEF Same
<1>6. c.status # "NONE"
  BY <1>1, <1>4 DEF WindowOK, UnusedOK
<1>7. /\ QueuesOK(c, s.seq) /\ LiveOK(s, p, NoCommand, {}, w)
      /\ UnusedOK(t, p, w)
  BY <1>1, <1>2, <1>6 DEF WindowOK, UnusedOK
<1>8. CASE found = {}
  <2>1. ~IsHand(dmd)
    BY <1>8
  <2>2. x \notin Seqs(c.waitQueue)
    BY <1>8 DEF findWaitQueueEntry, Seqs
  <2>3. ~IsLive(s, p, w)
    BY <1>4, <1>7, <2>2 DEF LiveOK, PlacesOK, Parts
  <2>4. ~IsLive(t, p, w)
    BY <1>2, <2>3 DEF IsLive
  <2>5. WindowOK(t, p, dmd, Q, {}, w)
    BY <1>1, <1>2, <1>7, <2>4 DEF WindowOK, LiveOK
  <2>6. HandOK(t, dmd) /\ \A v \in Window : InHand(dmd, v) = InHand(NoCommand, v)
    BY <2>1, NoHand DEF HandOK, InHand
  <2> QED BY <1>2, <1>5, <2>5, <2>6, Frame
<1>9. CASE found # {}
  <2>1. /\ IsHand(dmd) /\ dmd.window = w
        /\ \E n \in found : dmd.entry = c.waitQueue[n]
    BY <1>9
  <2>2. PICK n \in DOMAIN c.waitQueue : dmd.entry = c.waitQueue[n] /\ c.waitQueue[n].seq = x
    BY <2>1 DEF findWaitQueueEntry
  <2>3. x \in Seqs(c.waitQueue) /\ x \notin Seqs(c.outboundQueue) /\ x < s.seq
    <3>1. x \in Seqs(c.waitQueue)
      BY <2>2 DEF Seqs
    <3> QED BY <1>7, <3>1 DEF QueuesOK
  <2>4. \A m \in DOMAIN c.waitQueue : c.waitQueue[m].seq = x => c.waitQueue[m] = dmd.entry
    BY <1>7, <2>2 DEF QueuesOK, Unique
  <2>5. HandOK(t, dmd)
    BY <1>2, <1>6, <2>1, <2>2, <2>3, <2>4 DEF HandOK
  <2>6. InHand(dmd, w) = {x} /\ InHand(NoCommand, w) = {}
    BY <2>1, <2>2, NoHand DEF InHand
  <2>7. \A v \in Window \ {w} : InHand(dmd, v) = InHand(NoCommand, v)
    BY <2>1, NoHand DEF InHand
  <2>8. LiveOK(t, p, dmd, {}, w)
    <3> SUFFICES ASSUME IsLive(t, p, w)
                 PROVE  /\ PlacesOK(t, p, dmd, w) /\ BlockedOK(t, p, w)
                        /\ StartedOK(t.connection[w], w \in {}) /\ KeysOK(t, p, w)
      BY DEF LiveOK
    <3>1. /\ PlacesOK(s, p, NoCommand, w) /\ BlockedOK(s, p, w)
          /\ StartedOK(s.connection[w], w \in {}) /\ KeysOK(s, p, w)
      BY <1>2, <1>7 DEF LiveOK, IsLive
    <3>2. /\ FinishOnce(t.commands, w)
          /\ FinishSeqs(t.commands, w) = FinishSeqs(s.commands, w) \ {x}
      BY <1>4, <3>1 DEF PlacesOK
    <3>3. Parts(Seqs(t.pipe[w]), Seqs(p.received[w]), Seqs(p.signals[w]),
                FinishSeqs(t.commands, w), InHand(dmd, w), Seqs(t.connection[w].waitQueue))
      BY <1>2, <1>4, <2>6, <3>1, <3>2 DEF PlacesOK, Parts
    <3>4. PlacesOK(t, p, dmd, w)
      BY <1>2, <3>1, <3>2, <3>3 DEF PlacesOK
    <3>5. BlockedOK(t, p, w) /\ StartedOK(t.connection[w], w \in {}) /\ KeysOK(t, p, w)
      BY <1>2, <3>1 DEF BlockedOK, KeysOK
    <3> QED BY <3>4, <3>5
  <2>9. WindowOK(t, p, dmd, Q, {}, w)
    BY <1>1, <1>2, <1>7, <2>8 DEF WindowOK
  <2> QED BY <1>2, <1>5, <2>5, <2>7, <2>9, Frame
<1> QED BY <1>8, <1>9
-----------------------------------------------------------------------------
(* The two ends of a channel.                                               *)

\* The finished signals g of window w have become commands behind q.
Finishes(q, z, g, w, v) ==
    /\ z \in Seq(Command)
    /\ v # w => /\ FinishSeqs(z, v) = FinishSeqs(q, v)
                /\ FinishOnce(q, v) => FinishOnce(z, v)
    /\ v = w => /\ FinishSeqs(z, v) = FinishSeqs(q, v) \cup Seqs(g)
                /\ FinishOnce(q, v) /\ Unique(g) /\ FinishSeqs(q, v) \cap Seqs(g) = {}
                   => FinishOnce(z, v)

\* The commands of the finished signals that handleReceiveCallback has read.
LEMMA FinishConcat ==
    ASSUME NEW q \in Seq(Command), NEW w \in Window, NEW g, NEW len \in Nat,
           NEW r, r = [n \in 1 .. len |-> [type |-> "finished", window |-> w,
                          seq |-> g[n].seq, handled |-> g[n].handled]],
           g \in Seq([seq : Nat \ {0}, handled : BOOLEAN]), len = Len(g), NEW v
    PROVE  Finishes(q, q \o r, g, w, v)
<1> DEFINE z == q \o r
<1>1. ASSUME NEW n \in 1 .. len
      PROVE  /\ r[n] \in Command /\ r[n].type = "finished" /\ r[n].window = w
             /\ r[n].seq = g[n].seq
  <2>1. g[n] \in [seq : Nat \ {0}, handled : BOOLEAN]
    <3> DEFINE S == [seq : Nat \ {0}, handled : BOOLEAN]
    <3>1. g \in Seq(S) /\ n \in 1 .. Len(g)
      OBVIOUS
    <3> HIDE DEF S
    <3>2. g[n] \in S
      BY <3>1
    <3> QED BY <3>2 DEF S
  <2>2. g[n].seq \in Nat /\ g[n].handled \in BOOLEAN
    BY <2>1
  <2>3. r[n] = [type |-> "finished", window |-> w, seq |-> g[n].seq, handled |-> g[n].handled]
    OBVIOUS
  <2> QED BY <2>2, <2>3 DEF Command
<1>2. r \in Seq(Command) /\ Len(r) = len /\ DOMAIN r = 1 .. len /\ DOMAIN g = 1 .. len
  BY <1>1
<1>3. z \in Seq(Command)
  BY <1>2
<1>4. /\ DOMAIN q \subseteq DOMAIN z /\ \A n \in DOMAIN q : z[n] = q[n]
      /\ \A n \in DOMAIN r : Len(q) + n \in DOMAIN z /\ z[Len(q) + n] = r[n]
  BY <1>2
<1>5. ASSUME NEW n \in DOMAIN z
      PROVE  \/ n \in DOMAIN q /\ z[n] = q[n]
             \/ n - Len(q) \in DOMAIN r /\ n > Len(q) /\ z[n] = r[n - Len(q)]
  BY <1>2, ConcatCases
<1> SUFFICES Finishes(q, z, g, w, v)
  OBVIOUS
<1> HIDE DEF z
<1>6. FinishSeqs(q, v) \subseteq FinishSeqs(z, v)
  BY <1>4 DEF FinishSeqs
<1>7. CASE v # w
  <2>1. \A n \in DOMAIN z : z[n].window = v => n \in DOMAIN q /\ z[n] = q[n]
    BY <1>1, <1>2, <1>5, <1>7
  <2>2. FinishSeqs(z, v) \subseteq FinishSeqs(q, v)
    BY <2>1 DEF FinishSeqs
  <2>3. FinishOnce(q, v) => FinishOnce(z, v)
    BY <2>1 DEF FinishOnce
  <2> QED BY <1>3, <1>6, <1>7, <2>2, <2>3 DEF Finishes
<1>8. CASE v = w
  <2>1. ASSUME NEW n \in DOMAIN g PROVE g[n].seq \in FinishSeqs(z, v)
    <3>1. /\ Len(q) + n \in DOMAIN z /\ z[Len(q) + n].seq = g[n].seq
          /\ z[Len(q) + n].type = "finished" /\ z[Len(q) + n].window = v
      BY <1>1, <1>2, <1>4, <1>8
    <3> QED BY <3>1 DEF FinishSeqs
  <2>2. ASSUME NEW n \in DOMAIN z, z[n].type = "finished", z[n].window = v
        PROVE  \/ n \in DOMAIN q /\ z[n] = q[n] /\ z[n].seq \in FinishSeqs(q, v)
               \/ /\ n - Len(q) \in DOMAIN g /\ n > Len(q)
                  /\ z[n].seq = g[n - Len(q)].seq /\ z[n].seq \in Seqs(g)
    <3>1. CASE n \in DOMAIN q /\ z[n] = q[n]
      BY <2>2, <3>1 DEF FinishSeqs
    <3>2. CASE n - Len(q) \in DOMAIN r /\ n > Len(q) /\ z[n] = r[n - Len(q)]
      <4>1. n - Len(q) \in DOMAIN g /\ z[n].seq = g[n - Len(q)].seq
        BY <1>1, <1>2, <3>2
      <4> QED BY <3>2, <4>1 DEF Seqs
    <3> QED BY <1>5, <3>1, <3>2
  <2>3. FinishSeqs(z, v) = FinishSeqs(q, v) \cup Seqs(g)
    <3>1. FinishSeqs(z, v) \subseteq FinishSeqs(q, v) \cup Seqs(g)
      BY <2>2 DEF FinishSeqs
    <3>2. Seqs(g) \subseteq FinishSeqs(z, v)
      BY <2>1 DEF Seqs
    <3> QED BY <1>6, <3>1, <3>2
  <2>4. ASSUME FinishOnce(q, v), Unique(g), FinishSeqs(q, v) \cap Seqs(g) = {}
        PROVE  FinishOnce(z, v)
    <3> SUFFICES ASSUME NEW m \in DOMAIN z, NEW n \in DOMAIN z,
                        z[m].type = "finished" /\ z[m].window = v,
                        z[n].type = "finished" /\ z[n].window = v,
                        z[m].seq = z[n].seq
                 PROVE  m = n
      BY DEF FinishOnce
    <3>1. CASE z[m].seq \in FinishSeqs(q, v)
      <4>1. z[m].seq \notin Seqs(g) /\ z[n].seq \notin Seqs(g)
        BY <2>4, <3>1
      <4>2. m \in DOMAIN q /\ z[m] = q[m] /\ n \in DOMAIN q /\ z[n] = q[n]
        BY <2>2, <4>1
      <4> QED BY <2>4, <4>2 DEF FinishOnce
    <3>2. CASE z[m].seq \notin FinishSeqs(q, v)
      <4>1. /\ m - Len(q) \in DOMAIN g /\ z[m].seq = g[m - Len(q)].seq
            /\ n - Len(q) \in DOMAIN g /\ z[n].seq = g[n - Len(q)].seq
        BY <2>2, <3>2
      <4>2. m - Len(q) = n - Len(q)
        BY <2>4, <4>1 DEF Unique
      <4>3. m \in Nat /\ n \in Nat /\ Len(q) \in Nat
        BY <1>3
      <4> QED BY <4>2, <4>3
    <3> QED BY <3>1, <3>2
  <2> QED BY <1>3, <1>8, <2>3, <2>4 DEF Finishes
<1> QED BY <1>7, <1>8

Signal == [seq : Nat \ {0}, handled : BOOLEAN]

IsWorld(t) == t = [connection |-> t.connection, commands |-> t.commands,
                   injection |-> t.injection, seq |-> t.seq, pipe |-> t.pipe]

LEMMA PeersFields ==
    ASSUME NEW p \in PeersType
    PROVE  /\ p.received \in [Window -> Seq(DispatchEntry)]
           /\ p.down \in [Window -> SUBSET KeyCode]
           /\ p.signals \in [Window -> Seq(Signal)] /\ p.open \subseteq Window
  BY DEF PeersType, Signal

\* The signals of a window are read.
Reads(s, t, p, r, w) ==
    /\ t.connection = [s.connection EXCEPT ![w].blocked = FALSE]
    /\ LET finished == [n \in DOMAIN p.signals[w] |->
               [type |-> "finished", window |-> w, seq |-> p.signals[w][n].seq,
                handled |-> p.signals[w][n].handled]]
       IN t.commands = s.commands \o
             (IF s.connection[w].status = "NORMAL" THEN finished ELSE <<>>)
    /\ t.injection = s.injection /\ t.seq = s.seq /\ t.pipe = s.pipe /\ IsWorld(t)
    /\ r.received = p.received /\ r.down = p.down /\ r.open = p.open
    /\ r.signals = [p.signals EXCEPT ![w] = <<>>]

LEMMA ReadsSignals ==
    ASSUME NEW s, NEW t, NEW p \in PeersType, NEW r, NEW Q, NEW w \in Window,
           NEW cmd \in Command \cup {NoCommand}, ~IsHand(cmd),
           Good(s, p, cmd, Q, {}), s.connection[w].status # "NONE", Reads(s, t, p, r, w)
    PROVE  Good(t, r, cmd, Q, {})
<1> DEFINE c == s.connection[w]
           d == [c EXCEPT !.blocked = FALSE]
           g == p.signals[w]
           q == s.commands
           F == [n \in DOMAIN g |-> [type |-> "finished", window |-> w,
                                     seq |-> g[n].seq, handled |-> g[n].handled]]
<1>1. s \in WorldType /\ Counted(s) /\ HandOK(s, cmd) /\ WindowOK(s, p, cmd, Q, {}, w)
  BY DEF Good
<1>2. c \in Connection /\ q \in Seq(Command) /\ g \in Seq(Signal)
  BY <1>1, WorldFields, PeersFields
<1>3. /\ d \in Connection /\ d.status = c.status /\ d.blocked = FALSE
      /\ d.outboundQueue = c.outboundQueue /\ d.waitQueue = c.waitQueue
      /\ d.mKeyMementos = c.mKeyMementos
  BY <1>2 DEF Connection
<1>4. t.connection = [s.connection EXCEPT ![w] = d]
  BY DEF Reads
<1> HIDE DEF d
<1>5. /\ t.connection \in [Window -> Connection] /\ t.connection[w] = d
      /\ \A v \in Window \ {w} : t.connection[v] = s.connection[v]
  BY <1>1, <1>3, <1>4, WorldFields
<1>6. r.signals[w] = <<>> /\ \A v \in Window \ {w} : r.signals[v] = p.signals[v]
  BY PeersFields DEF Reads
<1>7. ASSUME NEW v PROVE Finishes(q, q \o F, g, w, v)
  <2> DEFINE len == Len(g)
  <2>1. /\ len \in Nat /\ g \in Seq([seq : Nat \ {0}, handled : BOOLEAN]) /\ len = Len(g)
        /\ DOMAIN g = 1 .. len /\ q \in Seq(Command)
    BY <1>2 DEF Signal
  <2>2. F = [n \in 1 .. len |-> [type |-> "finished", window |-> w,
                                 seq |-> g[n].seq, handled |-> g[n].handled]]
    BY <2>1
  <2> HIDE DEF len, g, q, F
  <2> QED BY <2>1, <2>2, FinishConcat, Zenon
<1> DEFINE Commands ==
        /\ t.commands \in Seq(Command) /\ UnusedOK(t, r, w) /\ LiveOK(t, r, cmd, {}, w)
        /\ \A v \in Window \ {w} : /\ FinishSeqs(t.commands, v) = FinishSeqs(q, v)
                                   /\ FinishOnce(q, v) => FinishOnce(t.commands, v)
<1> HIDE DEF F
<1>8. ASSUME c.status = "NORMAL", t.commands = q \o F
      PROVE  Commands
  <2>1. t.commands \in Seq(Command)
    BY <1>7, <1>8 DEF Finishes
  <2>2. ASSUME NEW v \in Window \ {w}
        PROVE  /\ FinishSeqs(t.commands, v) = FinishSeqs(q, v)
               /\ FinishOnce(q, v) => FinishOnce(t.commands, v)
    BY <1>7, <1>8 DEF Finishes
  <2>3. UnusedOK(t, r, w)
    BY <1>3, <1>5, <1>8 DEF UnusedOK
  <2>4. LiveOK(t, r, cmd, {}, w)
    <3> SUFFICES ASSUME IsLive(t, r, w)
                 PROVE  /\ PlacesOK(t, r, cmd, w) /\ BlockedOK(t, r, w)
                        /\ StartedOK(d, w \in {}) /\ KeysOK(t, r, w)
      BY <1>5 DEF LiveOK
    <3>1. /\ PlacesOK(s, p, cmd, w) /\ KeysOK(s, p, w) /\ StartedOK(c, w \in {})
      BY <1>1, <1>3, <1>5 DEF WindowOK, LiveOK, IsLive, Reads
    <3>2. /\ FinishOnce(q, w) /\ Unique(g) /\ FinishSeqs(q, w) \cap Seqs(g) = {}
      BY <3>1 DEF PlacesOK, Parts
    <3>3. /\ FinishSeqs(t.commands, w) = FinishSeqs(q, w) \cup Seqs(g)
          /\ FinishOnce(t.commands, w)
      BY <1>7, <1>8, <3>2 DEF Finishes
    <3>4. Seqs(r.signals[w]) = {} /\ Unique(r.signals[w])
      BY <1>6, Empty
    <3>5. Parts(Seqs(t.pipe[w]), Seqs(r.received[w]), Seqs(r.signals[w]),
                FinishSeqs(t.commands, w), InHand(cmd, w), Seqs(d.waitQueue))
      BY <1>3, <3>1, <3>3, <3>4 DEF PlacesOK, Parts, Reads
    <3>6. PlacesOK(t, r, cmd, w)
      BY <1>5, <3>1, <3>3, <3>4, <3>5 DEF PlacesOK, Reads
    <3>7. BlockedOK(t, r, w) /\ StartedOK(d, w \in {})
      BY <1>3, <1>5, <3>1 DEF BlockedOK, StartedOK
    <3>8. KeysOK(t, r, w)
      BY <1>3, <1>5, <3>1 DEF KeysOK, Reads
    <3> QED BY <3>6, <3>7, <3>8
  <2> QED BY <2>1, <2>2, <2>3, <2>4
<1>9. ASSUME c.status # "NORMAL", t.commands = q
      PROVE  Commands
  <2>1. UnusedOK(t, r, w) /\ ~IsLive(t, r, w)
    BY <1>3, <1>5, <1>9 DEF UnusedOK, IsLive
  <2>2. LiveOK(t, r, cmd, {}, w)
    BY <2>1 DEF LiveOK
  <2> QED BY <1>2, <1>9, <2>1, <2>2
<1>10. Commands
  <2>1. CASE c.status = "NORMAL"
    <3>1. t.commands = q \o F
      BY <2>1 DEF Reads, F
    <3> HIDE DEF q, Commands
    <3> QED BY <1>8, <2>1, <3>1
  <2>2. CASE c.status # "NORMAL"
    <3>1. t.commands = q
      BY <1>2, <2>2 DEF Reads
    <3> HIDE DEF q, Commands
    <3> QED BY <1>9, <2>2, <3>1
  <2> QED BY <2>1, <2>2
<1>11. t \in WorldType
  BY <1>1, <1>5, <1>10, WorldFields DEF IsWorld, WorldType, Reads
<1>12. Counted(t)
  <2>1. ASSUME NEW i \in Injector PROVE Recounts(s, t, w, i)
    <3>1. Entries(d) = Entries(c)
      BY <1>3 DEF Entries
    <3>2. t.connection[w] \in Connection /\ s.connection[w] \in Connection
      BY <1>2, <1>3, <1>5
    <3>3. Dispatches(t, w, i) = ForegroundOf(w, Entries(t.connection[w]), i)
      BY <3>2, DispatchesOf
    <3>4. Dispatches(s, w, i) = ForegroundOf(w, Entries(s.connection[w]), i)
      BY <3>2, DispatchesOf
    <3>5. Dispatches(t, w, i) = Dispatches(s, w, i)
      BY <1>5, <3>1, <3>3, <3>4
    <3> QED BY <3>5 DEF Recounts, Reads
  <2>2. ASSUME NEW i \in Injector, NEW v \in Window \ {w}
        PROVE  Dispatches(t, v, i) = Dispatches(s, v, i)
    BY <1>5, DispatchesSame
  <2> QED BY <1>1, <2>1, <2>2, Recounted
<1>13. QueuesOK(d, t.seq) /\ MementosOK(d, w \in Q) /\ Len(t.pipe[w]) <= PipeSize
  BY <1>1, <1>3 DEF WindowOK, QueuesOK, MementosOK, Reads
<1>14. WindowOK(t, r, cmd, Q, {}, w)
  BY <1>5, <1>10, <1>13 DEF WindowOK
<1>15. ASSUME NEW v \in Window \ {w} PROVE Same(s, t, v) /\ SamePeers(p, r, v)
  <2>1. s.seq \in Nat
    BY <1>1, WorldFields
  <2>2. s.seq <= t.seq
    BY <2>1 DEF Reads
  <2> QED BY <1>5, <1>6, <1>10, <2>2 DEF Same, SamePeers, Reads
<1>16. HandOK(t, cmd)
  BY DEF HandOK
<1> QED BY <1>11, <1>12, <1>14, <1>15, <1>16, FramePeers

\* What an application does changes the socket of its window and nothing else of
\* the world.
PipeOnly(s, t, w, q) ==
    /\ IsWorld(t) /\ t.connection = s.connection /\ t.commands = s.commands
    /\ t.injection = s.injection /\ t.seq = s.seq /\ t.pipe = [s.pipe EXCEPT ![w] = q]

LEMMA AppActs ==
    ASSUME NEW s, NEW t, NEW p, NEW r, NEW cmd, NEW Q, NEW w \in Window,
           NEW q \in Seq(DispatchEntry), Good(s, p, cmd, Q, {}), PipeOnly(s, t, w, q),
           \A v \in Window \ {w} : SamePeers(p, r, v), s.connection[w].status # "NONE",
           Len(q) <= PipeSize,
           IsLive(s, r, w) => /\ PlacesOK(t, r, cmd, w) /\ BlockedOK(t, r, w)
                              /\ KeysOK(t, r, w) /\ IsLive(s, p, w)
    PROVE  Good(t, r, cmd, Q, {})
<1>1. s \in WorldType /\ Counted(s) /\ HandOK(s, cmd) /\ WindowOK(s, p, cmd, Q, {}, w)
  BY DEF Good
<1>2. /\ t.pipe \in [Window -> Seq(DispatchEntry)] /\ t.pipe[w] = q
      /\ \A v \in Window \ {w} : t.pipe[v] = s.pipe[v]
  BY <1>1, WorldFields DEF PipeOnly
<1>3. t \in WorldType
  BY <1>1, <1>2, WorldFields DEF PipeOnly, IsWorld, WorldType
<1>4. Counted(t)
  BY <1>1, CountedSame DEF PipeOnly
<1>5. HandOK(t, cmd)
  BY <1>1 DEF HandOK, PipeOnly
<1>6. \A v \in Window \ {w} : Same(s, t, v)
  BY <1>1, <1>2, WorldFields DEF Same, PipeOnly
<1>7. LiveOK(t, r, cmd, {}, w)
  <2> SUFFICES ASSUME IsLive(t, r, w)
               PROVE  /\ PlacesOK(t, r, cmd, w) /\ BlockedOK(t, r, w)
                      /\ StartedOK(t.connection[w], w \in {}) /\ KeysOK(t, r, w)
    BY DEF LiveOK
  <2>1. IsLive(s, r, w)
    BY DEF IsLive, PipeOnly
  <2>2. StartedOK(t.connection[w], w \in {})
    BY <1>1, <2>1 DEF WindowOK, LiveOK, PipeOnly
  <2> QED BY <2>1, <2>2
<1>8. WindowOK(t, r, cmd, Q, {}, w)
  <2>1. UnusedOK(t, r, w)
    BY DEF UnusedOK, PipeOnly
  <2> QED BY <1>1, <1>2, <1>7, <2>1 DEF WindowOK, PipeOnly
<1> QED BY <1>3, <1>4, <1>5, <1>6, <1>8, FramePeers

\* An event is read.
Consumes(s, t, p, r, w) ==
    LET h == Head(s.pipe[w])
    IN /\ s.pipe[w] # <<>> /\ PipeOnly(s, t, w, Tail(s.pipe[w]))
       /\ r.received = [p.received EXCEPT ![w] = Append(@, h)]
       /\ r.down = [p.down EXCEPT ![w] = KeyState(@, h)]
       /\ r.signals = p.signals /\ r.open = p.open

LEMMA ConsumeActs ==
    ASSUME NEW s, NEW t, NEW p \in PeersType, NEW r, NEW cmd, NEW Q, NEW w \in Window,
           Good(s, p, cmd, Q, {}), s.connection[w].status # "NONE", Consumes(s, t, p, r, w)
    PROVE  Good(t, r, cmd, Q, {})
<1> DEFINE q == s.pipe[w]
           h == Head(q)
           z == Tail(q)
           o == s.connection[w].outboundQueue
           a == p.received[w]
           b == Append(a, h)
           d == p.down[w]
<1>1. s \in WorldType /\ WindowOK(s, p, cmd, Q, {}, w)
  BY DEF Good
<1>2. /\ q \in Seq(DispatchEntry) /\ o \in Seq(DispatchEntry)
      /\ a \in Seq(DispatchEntry) /\ d \in SUBSET KeyCode
  BY <1>1, WorldFields, ConnectionFields, PeersFields
<1>3. /\ PipeOnly(s, t, w, z) /\ q # <<>>
      /\ r.received[w] = b /\ r.down[w] = KeyState(d, h) /\ r.signals = p.signals
      /\ r.open = p.open
  BY PeersFields DEF Consumes
<1>4. \A v \in Window \ {w} : SamePeers(p, r, v)
  BY PeersFields DEF Consumes, SamePeers
<1>5. /\ h \in DispatchEntry /\ z \in Seq(DispatchEntry) /\ <<h>> \in Seq(DispatchEntry)
      /\ q = <<h>> \o z /\ Len(z) = Len(q) - 1
  BY <1>2, <1>3, HeadTail
<1>6. Len(z) <= PipeSize
  <2>1. Len(q) <= PipeSize /\ Len(q) \in Nat /\ PipeSize \in Nat
    BY <1>1, <1>2, ChannelAssumption DEF WindowOK
  <2> QED BY <1>5, <2>1
<1>7. /\ t.pipe[w] = z /\ t.connection = s.connection /\ t.commands = s.commands
  BY <1>1, WorldFields DEF PipeOnly, Consumes
<1>8. ASSUME IsLive(s, r, w)
      PROVE  PlacesOK(t, r, cmd, w) /\ BlockedOK(t, r, w) /\ KeysOK(t, r, w) /\ IsLive(s, p, w)
  <2>1. IsLive(s, p, w)
    BY <1>3, <1>8 DEF IsLive
  <2>2. PlacesOK(s, p, cmd, w) /\ KeysOK(s, p, w)
    BY <1>1, <2>1 DEF WindowOK, LiveOK
  <2> HIDE DEF q, h, z, o, a, b, d
  <2>3. /\ Unique(q) /\ Unique(a) /\ Seqs(q) \cap Seqs(a) = {}
    BY <2>2 DEF PlacesOK, Parts, q, a
  <2>4. /\ Unique(z) /\ Seqs(z) = Seqs(q) \ {h.seq} /\ h.seq \in Seqs(q)
    BY <1>2, <1>3, <2>3, Headed DEF z, h
  <2>5. /\ Seqs(b) = Seqs(a) \cup {h.seq} /\ Unique(b)
    <3>1. h.seq \notin Seqs(a)
      BY <2>3, <2>4
    <3> QED BY <1>2, <1>5, <2>3, <3>1, Appended DEF b
  <2>6. Parts(Seqs(z), Seqs(b), Seqs(p.signals[w]), FinishSeqs(s.commands, w),
              InHand(cmd, w), Seqs(s.connection[w].waitQueue))
    BY <2>2, <2>4, <2>5 DEF PlacesOK, Parts, q, a
  <2>7. PlacesOK(t, r, cmd, w)
    BY <1>3, <1>7, <2>2, <2>4, <2>5, <2>6 DEF PlacesOK
  <2>8. b # <<>>
    BY <2>5, Empty
  <2>9. BlockedOK(t, r, w)
    BY <1>3, <2>8 DEF BlockedOK
  <2>10. KeysAfter(d, q \o o) = KeysAfter(KeyState(d, h), z \o o)
    <3> DEFINE one == <<h>>
               rest == z \o o
    <3>1. rest \in Seq(DispatchEntry) /\ one \in Seq(DispatchEntry)
      BY <1>2, <1>5
    <3>2. q \o o = one \o rest
      BY <1>2, <1>5
    <3>3. KeysAfter(d, one) = KeyState(d, h)
      BY <1>2, <1>5, KeysOne
    <3> HIDE DEF one, rest
    <3>4. KeysAfter(d, one \o rest) = KeysAfter(KeysAfter(d, one), rest)
      BY <3>1, KeysConcat, Zenon
    <3> QED BY <3>2, <3>3, <3>4 DEF rest
  <2>11. KeysOK(t, r, w)
    BY <1>3, <1>7, <2>2, <2>10 DEF KeysOK, q, o, d
  <2> QED BY <2>1, <2>7, <2>9, <2>11
<1> HIDE DEF z
<1> QED BY <1>3, <1>4, <1>5, <1>6, <1>8, AppActs

\* An event is finished.
SendsSignal(s, t, p, r, w, i, handled) ==
    /\ PipeOnly(s, t, w, s.pipe[w])
    /\ r.received = [p.received EXCEPT ![w] = RemoveAt(@, i)]
    /\ r.signals = [p.signals EXCEPT ![w] =
            Append(@, [seq |-> p.received[w][i].seq, handled |-> handled])]
    /\ r.down = p.down /\ r.open = p.open

LEMMA SignalActs ==
    ASSUME NEW s, NEW t, NEW p \in PeersType, NEW r, NEW cmd, NEW Q, NEW w \in Window,
           Good(s, p, cmd, Q, {}), s.connection[w].status # "NONE",
           NEW i \in DOMAIN p.received[w], NEW handled \in BOOLEAN,
           SendsSignal(s, t, p, r, w, i, handled)
    PROVE  Good(t, r, cmd, Q, {})
<1> DEFINE q == s.pipe[w]
           a == p.received[w]
           b == RemoveAt(a, i)
           g == p.signals[w]
           e == [seq |-> a[i].seq, handled |-> handled]
           h == Append(g, e)
<1>1. s \in WorldType /\ WindowOK(s, p, cmd, Q, {}, w)
  BY DEF Good
<1>2. q \in Seq(DispatchEntry) /\ a \in Seq(DispatchEntry) /\ g \in Seq(Signal)
  BY <1>1, WorldFields, PeersFields
<1>3. /\ PipeOnly(s, t, w, q) /\ r.received[w] = b /\ r.down = p.down
      /\ r.signals[w] = h /\ r.open = p.open
  BY PeersFields DEF SendsSignal
<1>4. \A v \in Window \ {w} : SamePeers(p, r, v)
  BY PeersFields DEF SendsSignal, SamePeers
<1>5. e \in Signal /\ e.seq = a[i].seq
  <2>1. a[i] \in DispatchEntry
    BY <1>2
  <2>2. a[i].seq \in Nat \ {0}
    BY <2>1, EntryFields
  <2> QED BY <2>2 DEF Signal
<1>6. Len(q) <= PipeSize
  BY <1>1 DEF WindowOK
<1>7. /\ t.pipe[w] = q /\ t.connection = s.connection /\ t.commands = s.commands
  BY <1>1, WorldFields DEF PipeOnly, SendsSignal
<1>8. ASSUME IsLive(s, r, w)
      PROVE  PlacesOK(t, r, cmd, w) /\ BlockedOK(t, r, w) /\ KeysOK(t, r, w) /\ IsLive(s, p, w)
  <2>1. IsLive(s, p, w)
    BY <1>3, <1>8 DEF IsLive
  <2>2. PlacesOK(s, p, cmd, w) /\ KeysOK(s, p, w)
    BY <1>1, <2>1 DEF WindowOK, LiveOK
  <2> HIDE DEF q, a, b, g, e, h
  <2>3. Unique(a) /\ Unique(g) /\ Seqs(g) \cap Seqs(a) = {}
    BY <2>2 DEF PlacesOK, Parts, g, a
  <2>4. Unique(b) /\ Seqs(b) = Seqs(a) \ {e.seq}
    BY <1>2, <1>5, <2>3, Removed DEF b, a
  <2>5. e.seq \in Seqs(a)
    BY <1>5 DEF Seqs, a
  <2>6. Seqs(h) = Seqs(g) \cup {e.seq} /\ Unique(h)
    <3>1. e.seq \notin Seqs(g)
      BY <2>3, <2>5
    <3> QED BY <1>2, <1>5, <2>3, <3>1, Appended DEF h
  <2>7. Parts(Seqs(q), Seqs(b), Seqs(h), FinishSeqs(s.commands, w), InHand(cmd, w),
              Seqs(s.connection[w].waitQueue))
    BY <2>2, <2>4, <2>5, <2>6 DEF PlacesOK, Parts, q, a, g
  <2>8. PlacesOK(t, r, cmd, w)
    BY <1>3, <1>7, <2>2, <2>4, <2>6, <2>7 DEF PlacesOK, q
  <2>9. h # <<>>
    BY <1>2, <1>5 DEF h
  <2>10. BlockedOK(t, r, w)
    BY <1>3, <2>9 DEF BlockedOK
  <2>11. KeysOK(t, r, w)
    BY <1>3, <1>7, <2>2 DEF KeysOK, q
  <2> QED BY <2>1, <2>8, <2>10, <2>11
<1> HIDE DEF q
<1> QED BY <1>2, <1>3, <1>4, <1>6, <1>8, AppActs

\* The other end of a channel is closed.
Closes(s, t, p, r, w) ==
    /\ PipeOnly(s, t, w, <<>>) /\ r.open = p.open \ {w} /\ r.signals = p.signals
    /\ r.received = [p.received EXCEPT ![w] = <<>>] /\ r.down = [p.down EXCEPT ![w] = {}]

LEMMA CloseActs ==
    ASSUME NEW s, NEW t, NEW p \in PeersType, NEW r, NEW cmd, NEW Q, NEW w \in Window,
           Good(s, p, cmd, Q, {}), s.connection[w].status # "NONE", Closes(s, t, p, r, w)
    PROVE  Good(t, r, cmd, Q, {})
<1> DEFINE z == <<>>
<1>1. z \in Seq(DispatchEntry) /\ Len(z) <= PipeSize
  BY ChannelAssumption
<1>2. PipeOnly(s, t, w, z)
  BY DEF Closes
<1>3. \A v \in Window \ {w} : SamePeers(p, r, v)
  BY PeersFields DEF Closes, SamePeers
<1>4. ~IsLive(s, r, w)
  BY DEF IsLive, Closes
<1> HIDE DEF z
<1> QED BY <1>1, <1>2, <1>3, <1>4, AppActs

\* A window is registered.
Registers(s, t, w) ==
    /\ IsWorld(t) /\ t.connection = [s.connection EXCEPT ![w].status = "NORMAL"]
    /\ t.commands = s.commands /\ t.injection = s.injection /\ t.seq = s.seq
    /\ t.pipe = s.pipe

LEMMA RegisterActs ==
    ASSUME NEW s, NEW t, NEW p, NEW Q, NEW w \in Window,
           NEW cmd \in Command \cup {NoCommand}, Good(s, p, cmd, Q, {}),
           s.connection[w].status = "NONE", Registers(s, t, w)
    PROVE  Good(t, p, cmd, Q, {})
<1> DEFINE c == s.connection[w]
           d == [c EXCEPT !.status = "NORMAL"]
<1>1. s \in WorldType /\ Counted(s) /\ HandOK(s, cmd) /\ WindowOK(s, p, cmd, Q, {}, w)
  BY DEF Good
<1>2. c \in Connection
  BY <1>1, WorldFields
<1>3. /\ d \in Connection /\ d.status = "NORMAL" /\ d.blocked = c.blocked
      /\ d.outboundQueue = c.outboundQueue /\ d.waitQueue = c.waitQueue
      /\ d.mKeyMementos = c.mKeyMementos
  BY <1>2 DEF Connection
<1>4. t.connection = [s.connection EXCEPT ![w] = d]
  BY DEF Registers
<1> HIDE DEF d
<1>5. /\ t.connection \in [Window -> Connection] /\ t.connection[w] = d
      /\ \A v \in Window \ {w} : t.connection[v] = s.connection[v]
  BY <1>1, <1>3, <1>4, WorldFields
<1>6. t \in WorldType
  BY <1>1, <1>5, WorldFields DEF IsWorld, WorldType, Registers
<1>7. Counted(t)
  <2>1. ASSUME NEW i \in Injector PROVE Recounts(s, t, w, i)
    <3>1. Entries(d) = Entries(c)
      BY <1>3 DEF Entries
    <3>2. t.connection[w] \in Connection /\ s.connection[w] \in Connection
      BY <1>2, <1>3, <1>5
    <3>3. Dispatches(t, w, i) = ForegroundOf(w, Entries(t.connection[w]), i)
      BY <3>2, DispatchesOf
    <3>4. Dispatches(s, w, i) = ForegroundOf(w, Entries(s.connection[w]), i)
      BY <3>2, DispatchesOf
    <3>5. Dispatches(t, w, i) = Dispatches(s, w, i)
      BY <1>5, <3>1, <3>3, <3>4
    <3> QED BY <3>5 DEF Recounts, Registers
  <2>2. ASSUME NEW i \in Injector, NEW v \in Window \ {w}
        PROVE  Dispatches(t, v, i) = Dispatches(s, v, i)
    BY <1>5, DispatchesSame
  <2> QED BY <1>1, <2>1, <2>2, Recounted
<1>8. /\ c.outboundQueue = <<>> /\ c.waitQueue = <<>> /\ c.mKeyMementos = <<>>
      /\ c.blocked = FALSE /\ s.pipe[w] = <<>> /\ p.received[w] = <<>>
      /\ p.signals[w] = <<>> /\ p.down[w] = {} /\ FinishSeqs(s.commands, w) = {}
  BY <1>1 DEF WindowOK, UnusedOK
<1>9. IsHand(cmd) => cmd.window # w
  BY <1>1 DEF HandOK
<1>10. HandOK(t, cmd)
  <2> SUFFICES ASSUME IsHand(cmd) PROVE HandOK(t, cmd)
    BY DEF HandOK
  <2>1. cmd.window \in Window \ {w}
    BY <1>9, HandType
  <2> QED BY <1>1, <1>5, <2>1 DEF HandOK, Registers
<1>11. /\ QueuesOK(d, t.seq) /\ MementosOK(d, w \in Q) /\ Len(t.pipe[w]) <= PipeSize
  BY <1>1, <1>3, <1>8 DEF WindowOK, QueuesOK, MementosOK, Registers
<1>12. PlacesOK(t, p, cmd, w)
  <2>1. Seqs(<<>>) = {} /\ Unique(<<>>)
    BY Empty
  <2>2. InHand(cmd, w) = {}
    BY <1>9 DEF InHand
  <2>3. FinishOnce(s.commands, w)
    BY <1>8 DEF FinishSeqs, FinishOnce
  <2>4. Parts({}, {}, {}, {}, {}, {})
    BY DEF Parts
  <2>5. /\ Unique(t.pipe[w]) /\ Unique(p.received[w]) /\ Unique(p.signals[w])
        /\ Seqs(t.pipe[w]) = {} /\ Seqs(p.received[w]) = {} /\ Seqs(p.signals[w]) = {}
        /\ Seqs(t.connection[w].waitQueue) = {}
    BY <1>3, <1>5, <1>8, <2>1 DEF Registers
  <2>6. FinishOnce(t.commands, w) /\ FinishSeqs(t.commands, w) = {}
    BY <1>8, <2>3 DEF Registers
  <2> QED BY <2>2, <2>4, <2>5, <2>6 DEF PlacesOK
<1>13. BlockedOK(t, p, w) /\ StartedOK(d, w \in {})
  BY <1>3, <1>5, <1>8 DEF BlockedOK, StartedOK
<1>14. KeysOK(t, p, w)
  <2> DEFINE z == <<>>
  <2>1. z \o z = z /\ t.pipe[w] = z /\ d.outboundQueue = z
    BY <1>3, <1>8 DEF Registers
  <2>2. KeysAfter({}, z) = {}
    BY DEF KeysAfter
  <2> HIDE DEF z
  <2> QED BY <1>5, <1>8, <2>1, <2>2 DEF KeysOK
<1>15. WindowOK(t, p, cmd, Q, {}, w)
  <2>1. UnusedOK(t, p, w)
    BY <1>3, <1>5 DEF UnusedOK
  <2>2. LiveOK(t, p, cmd, {}, w)
    BY <1>5, <1>12, <1>13, <1>14 DEF LiveOK
  <2> QED BY <1>5, <1>11, <2>1, <2>2 DEF WindowOK
<1>16. ASSUME NEW v \in Window \ {w} PROVE Same(s, t, v)
  <2>1. s.seq \in Nat
    BY <1>1, WorldFields
  <2>2. s.seq <= t.seq
    BY <2>1 DEF Registers
  <2> QED BY <1>5, <2>2 DEF Same, Registers
<1> QED BY <1>6, <1>7, <1>10, <1>15, <1>16, Frame

\* The focus moves away from windows without keys.
LEMMA Refocus ==
    ASSUME NEW s, NEW p, NEW cmd, NEW Q, NEW R, NEW U, Good(s, p, cmd, Q, U),
           \A w \in Window : w \in Q /\ w \notin R /\ s.connection[w].status = "NORMAL"
                                => s.connection[w].mKeyMementos = <<>>
    PROVE  Good(s, p, cmd, R, U)
<1>1. ASSUME NEW w \in Window PROVE WindowOK(s, p, cmd, R, U, w)
  <2>1. WindowOK(s, p, cmd, Q, U, w)
    BY DEF Good
  <2>2. MementosOK(s.connection[w], w \in R)
    BY <2>1 DEF WindowOK, MementosOK
  <2> QED BY <2>1, <2>2 DEF WindowOK
<1> QED BY <1>1 DEF Good
-----------------------------------------------------------------------------
(* The invariant in parts, and the ends that steps have in common.          *)

DispatcherType == [pc : {"poll", "commands", "policy"}, timeout : {"now", "timer", "never"},
                   command : Command \cup {NoCommand}, hangup : Window \cup {NoWindow}]

\* What the steps of the thread and of the channels change.
Core ==
    /\ Good(World, Peers, dispatcher.command, {mFocusedWindowHandle}, {})
    /\ Peers \in PeersType /\ dispatcher \in DispatcherType /\ ThreadOK

EventsOK == mInboundQueue \in Seq(KeyEntry) /\ mPendingEvent \in KeyEntry \cup {NoEvent}
FocusOK ==
    /\ mFocusedWindowHandle \in Window \cup {NoWindow}
    /\ mFocusedApplicationHandle \in App \cup {NoApp}
    /\ paused \in BOOLEAN /\ mDispatchEnabled \in BOOLEAN /\ mDispatchFrozen \in BOOLEAN
WaitOK ==
    /\ mInputTargetWaitCause \in {"NONE", "APPLICATION_NOT_READY"}
    /\ mInputTargetWaitTimeoutExpired \in BOOLEAN
BoundsOK ==
    /\ keys \in 0 .. MaxKeys /\ held \subseteq Key
    /\ calls \in 0 .. MaxCalls /\ delays \in 0 .. MaxDelays
Rest == EventsOK /\ FocusOK /\ WaitOK /\ BoundsOK /\ woken \in BOOLEAN

LEMMA PartsOfType ==
    ASSUME Core, Rest
    PROVE  TypeOK
<1>1. World \in WorldType /\ \A w \in Window : Len(pipe[w]) <= PipeSize
  BY DEF Core, Good, WindowOK, World
<1>2. /\ connection \in [Window -> Connection] /\ mCommandQueue \in Seq(Command)
      /\ injection \in [Injector -> InjectionState] /\ sNextSeq \in Nat \ {0}
      /\ pipe \in [Window -> Seq(DispatchEntry)]
  <2> DEFINE s == World
  <2>1. /\ s.connection = connection /\ s.commands = mCommandQueue
        /\ s.injection = injection /\ s.seq = sNextSeq /\ s.pipe = pipe
    BY DEF World
  <2> HIDE DEF s
  <2>2. s \in WorldType
    BY <1>1 DEF s
  <2> QED BY <2>1, <2>2, WorldFields
<1>3. /\ received \in [Window -> Seq(DispatchEntry)] /\ down \in [Window -> SUBSET KeyCode]
      /\ signals \in [Window -> Seq([seq : Nat \ {0}, handled : BOOLEAN])]
      /\ open \subseteq Window
  <2>1. Peers \in PeersType
    BY DEF Core
  <2> QED BY <2>1 DEF Peers, PeersType
<1>4. ChannelTypeOK
  BY <1>1, <1>2, <1>3 DEF ChannelTypeOK
<1> QED BY <1>2, <1>4 DEF Core, Rest, TypeOK, EventsOK, FocusOK, WaitOK, BoundsOK,
                         DispatcherType

LEMMA TypeInParts ==
    ASSUME TypeOK
    PROVE  Rest /\ Peers \in PeersType /\ dispatcher \in DispatcherType
<1>1. Rest
  BY DEF TypeOK, Rest, EventsOK, FocusOK, WaitOK, BoundsOK
<1>2. Peers \in PeersType
  BY DEF TypeOK, ChannelTypeOK, Peers, PeersType
<1>3. dispatcher \in DispatcherType
  BY DEF TypeOK, DispatcherType
<1> QED BY <1>1, <1>2, <1>3

LEMMA IInvParts ==
    IInv <=> Core /\ Rest /\ IdleHasNoWork
<1>1. ASSUME IInv PROVE Core /\ Rest /\ IdleHasNoWork
  BY <1>1, TypeInParts DEF IInv, Core
<1>2. ASSUME Core, Rest, IdleHasNoWork PROVE IInv
  BY <1>2, PartsOfType DEF IInv, Core
<1> QED BY <1>1, <1>2

LEMMA IInvNext ==
    ASSUME Core', Rest', IdleHasNoWork'
    PROVE  IInv'
<1>1. (Core /\ Rest /\ IdleHasNoWork => IInv)'
  BY IInvParts, PTL
<1> QED BY <1>1

LEMMA BecomesWorld ==
    ASSUME NEW n \in WorldType, Becomes(n)
    PROVE  World' = n
<1>1. /\ connection' = n.connection /\ mCommandQueue' = n.commands
      /\ injection' = n.injection /\ sNextSeq' = n.seq /\ pipe' = n.pipe
  BY DEF Becomes
<1>2. n = [connection |-> n.connection, commands |-> n.commands,
           injection |-> n.injection, seq |-> n.seq, pipe |-> n.pipe]
  BY DEF WorldType
<1> QED BY <1>1, <1>2 DEF World

LEMMA PeersSame ==
    ASSUME UNCHANGED peerVars
    PROVE  Peers' = Peers
  BY DEF peerVars, Peers

\* The fields of the thread's record after an update of it.
LEMMA DispatcherFields ==
    ASSUME NEW d \in DispatcherType
    PROVE  /\ d.pc \in {"poll", "commands", "policy"} /\ d.timeout \in {"now", "timer", "never"}
           /\ d.command \in Command \cup {NoCommand} /\ d.hangup \in Window \cup {NoWindow}
  BY DEF DispatcherType

LEMMA NoCommandOK ==
    /\ CommandOK(NoCommand) /\ NoCommand \notin Command
    /\ \A c \in Command : c.type # "none"
  BY DEF CommandOK, NoCommand, IsHand, Command

\* The end of a step of dispatchOnce.
LEMMA Polling ==
    ASSUME Core, dispatcher.pc = "poll", NEW n, NEW timeout \in {"now", "timer", "never"},
           Good(n, Peers, NoCommand, {mFocusedWindowHandle}, {}), PollsNext(n, timeout),
           UNCHANGED <<peerVars, mFocusedWindowHandle>>
    PROVE  Core' /\ (timeout # "never" => IdleHasNoWork')
<1> DEFINE runs == [dispatcher EXCEPT !.pc = "commands", !.timeout = "now"]
           polls == [dispatcher EXCEPT !.pc = "poll", !.timeout = timeout]
<1>1. Becomes(n) /\ dispatcher' = IF n.commands # <<>> THEN runs ELSE polls
  BY DEF PollsNext
<1>2. n \in WorldType
  BY DEF Good
<1>3. World' = n /\ mCommandQueue' = n.commands
  BY <1>1, <1>2, BecomesWorld DEF Becomes
<1>4. Peers' = Peers /\ Peers \in PeersType /\ dispatcher \in DispatcherType
  BY PeersSame DEF Core
<1>5. dispatcher.command = NoCommand
  BY DEF Core, ThreadOK
<1>6. /\ runs \in DispatcherType /\ runs.pc = "commands" /\ runs.timeout = "now"
      /\ runs.command = NoCommand
      /\ polls \in DispatcherType /\ polls.pc = "poll" /\ polls.timeout = timeout
      /\ polls.command = NoCommand
  BY <1>4, <1>5 DEF DispatcherType
<1> HIDE DEF runs, polls
<1>7. dispatcher' \in DispatcherType /\ dispatcher'.command = NoCommand
  BY <1>1, <1>6
<1>8. ThreadOK'
  BY <1>1, <1>3, <1>6, NoCommandOK DEF ThreadOK
<1>9. Good(World, Peers, dispatcher.command, {mFocusedWindowHandle}, {})'
  BY <1>3, <1>4, <1>7
<1>10. timeout # "never" => IdleHasNoWork'
  BY <1>1, <1>6 DEF IdleHasNoWork
<1> QED BY <1>4, <1>7, <1>8, <1>9, <1>10 DEF Core

\* The channel of window w is forgotten.
LEMMA Forgetting ==
    ASSUME NEW w \in Window, Peers \in PeersType, ForgetsChannel(w)
    PROVE  Forgets(Peers, Peers', w) /\ Peers' \in PeersType
<1> DEFINE z == <<>>
<1>1. /\ received \in [Window -> Seq(DispatchEntry)] /\ down \in [Window -> SUBSET KeyCode]
      /\ signals \in [Window -> Seq(Signal)] /\ open \in SUBSET Window
  BY DEF Peers, PeersType, Signal
<1>2. /\ open' = open \ {w} /\ received' = [received EXCEPT ![w] = z]
      /\ down' = [down EXCEPT ![w] = {}] /\ signals' = [signals EXCEPT ![w] = z]
  BY DEF ForgetsChannel
<1>3. z \in Seq(DispatchEntry) /\ z \in Seq(Signal) /\ z = <<>>
  OBVIOUS
<1> HIDE DEF z
<1>4. /\ received' \in [Window -> Seq(DispatchEntry)] /\ down' \in [Window -> SUBSET KeyCode]
      /\ signals' \in [Window -> Seq(Signal)] /\ open' \in SUBSET Window
  BY <1>1, <1>2, <1>3
<1>5. Peers' \in PeersType
  BY <1>4 DEF Peers, PeersType, Signal
<1>6. /\ received'[w] = z /\ down'[w] = {} /\ signals'[w] = z /\ w \notin open'
      /\ \A v \in Window \ {w} : /\ received'[v] = received[v] /\ down'[v] = down[v]
                                 /\ signals'[v] = signals[v] /\ (v \in open' <=> v \in open)
  BY <1>1, <1>2
<1>7. Forgets(Peers, Peers', w)
  BY <1>3, <1>6 DEF Forgets, SamePeers, Peers
<1> QED BY <1>5, <1>7

\* The end of a command.
LEMMA CommandEnding ==
    ASSUME Core, dispatcher.pc # "poll", NEW n,
           Good(n, Peers, NoCommand, {mFocusedWindowHandle}, {}), CommandEnds(n),
           mFocusedWindowHandle' = mFocusedWindowHandle
    PROVE  Core' /\ IdleHasNoWork'
<1> DEFINE w == dispatcher.hangup
           polls == [dispatcher EXCEPT !.pc = "poll", !.command = NoCommand,
                                       !.hangup = NoWindow]
           runs == [dispatcher EXCEPT !.pc = "commands", !.command = NoCommand]
           Q == {mFocusedWindowHandle}
<1>1. n \in WorldType /\ Peers \in PeersType /\ dispatcher \in DispatcherType
  BY DEF Good, Core
<1>2. dispatcher.timeout = "now"
  BY DEF Core, ThreadOK
<1>3. /\ runs \in DispatcherType /\ runs.pc = "commands" /\ runs.timeout = "now"
      /\ runs.command = NoCommand
      /\ polls \in DispatcherType /\ polls.pc = "poll" /\ polls.timeout = "now"
      /\ polls.command = NoCommand
  BY <1>1, <1>2 DEF DispatcherType
<1>4. \/ /\ n.commands # <<>> /\ Becomes(n) /\ dispatcher' = runs /\ UNCHANGED peerVars
      \/ /\ Becomes(n) /\ dispatcher' = polls /\ UNCHANGED peerVars
      \/ /\ w # NoWindow /\ Becomes(Unregistered(n, w, TRUE)) /\ ForgetsChannel(w)
         /\ dispatcher' = polls
  BY DEF CommandEnds
<1>5. w \in Window \cup {NoWindow}
  BY <1>1, DispatcherFields
<1> HIDE DEF runs, polls, w
<1>6. ASSUME Becomes(n), UNCHANGED peerVars
      PROVE  /\ Good(World', Peers', NoCommand, Q, {}) /\ Peers' \in PeersType
             /\ mCommandQueue' = n.commands
  <2>1. World' = n /\ mCommandQueue' = n.commands
    BY <1>1, <1>6, BecomesWorld DEF Becomes
  <2>2. Peers' = Peers
    BY <1>6, PeersSame
  <2> QED BY <1>1, <2>1, <2>2
<1>7. ASSUME w # NoWindow, Becomes(Unregistered(n, w, TRUE)), ForgetsChannel(w)
      PROVE  Good(World', Peers', NoCommand, Q, {}) /\ Peers' \in PeersType
  <2> DEFINE u == Unregistered(n, w, TRUE)
             r == Peers'
             p == Peers
  <2>1. Forgets(p, r, w) /\ r \in PeersType /\ w \in Window
    BY <1>1, <1>5, <1>7, Forgetting
  <2>2. TRUE \in BOOLEAN /\ NoCommand \in Command \cup {NoCommand}
    OBVIOUS
  <2>3. Good(n, p, NoCommand, Q, {})
    OBVIOUS
  <2> HIDE DEF r, Q, p
  <2>4. Good(u, r, NoCommand, Q, {})
    BY <2>1, <2>2, <2>3, Unregister, Zenon
  <2>5. u \in WorldType /\ Becomes(u)
    BY <1>7, <2>4 DEF Good
  <2> HIDE DEF u
  <2>6. World' = u
    BY <2>5, BecomesWorld
  <2> QED BY <2>1, <2>4, <2>6 DEF r
<1>8. Good(World', Peers', NoCommand, Q, {}) /\ Peers' \in PeersType
  BY <1>4, <1>6, <1>7
<1>9. dispatcher' \in DispatcherType /\ dispatcher'.command = NoCommand
  BY <1>3, <1>4
<1>10. ThreadOK'
  <2>1. dispatcher'.pc = "commands" => mCommandQueue' # <<>>
    BY <1>3, <1>4, <1>6
  <2>2. dispatcher'.pc # "policy" /\ dispatcher'.timeout = "now"
    BY <1>3, <1>4
  <2> QED BY <1>9, <2>1, <2>2, NoCommandOK DEF ThreadOK
<1>11. Good(World, Peers, dispatcher.command, {mFocusedWindowHandle}, {})'
  BY <1>8, <1>9
<1>12. IdleHasNoWork'
  BY <1>3, <1>4 DEF IdleHasNoWork
<1> QED BY <1>8, <1>9, <1>10, <1>11, <1>12 DEF Core

\* The call of a command to the policy.
LEMMA PolicyAsking ==
    ASSUME Core, dispatcher.pc = "commands", NEW n, NEW c \in Command, CommandOK(c),
           Good(n, Peers, c, {mFocusedWindowHandle}, {}), AsksPolicy(n, c),
           mFocusedWindowHandle' = mFocusedWindowHandle
    PROVE  Core' /\ IdleHasNoWork'
<1> DEFINE asks == [dispatcher EXCEPT !.pc = "policy", !.command = c]
<1>1. Becomes(n) /\ dispatcher' = asks /\ UNCHANGED peerVars
  BY DEF AsksPolicy
<1>2. n \in WorldType /\ Peers \in PeersType /\ dispatcher \in DispatcherType
  BY DEF Good, Core
<1>3. dispatcher.timeout = "now"
  BY DEF Core, ThreadOK
<1>4. /\ asks \in DispatcherType /\ asks.pc = "policy" /\ asks.timeout = "now"
      /\ asks.command = c
  BY <1>2, <1>3 DEF DispatcherType
<1> HIDE DEF asks
<1>5. World' = n /\ Peers' = Peers
  BY <1>1, <1>2, BecomesWorld, PeersSame
<1>6. c # NoCommand
  BY NoCommandOK
<1>7. ThreadOK'
  BY <1>1, <1>4, <1>6 DEF ThreadOK
<1>8. Good(World, Peers, dispatcher.command, {mFocusedWindowHandle}, {})'
  BY <1>1, <1>4, <1>5
<1>9. IdleHasNoWork'
  BY <1>1, <1>4 DEF IdleHasNoWork
<1> QED BY <1>1, <1>2, <1>4, <1>5, <1>7, <1>8, <1>9 DEF Core
-----------------------------------------------------------------------------
(* dispatchOnce.                                                            *)

LEMMA EventFacts ==
    ASSUME Rest, HasEvent
    PROVE  /\ NextEvent \in KeyEntry /\ QueuedBehind \in Seq(KeyEntry)
           /\ NextEvent.injector \in Injector \cup {NoInjector}
           /\ WaitCause \in {"NONE", "APPLICATION_NOT_READY"}
<1>1. EventsOK /\ WaitOK /\ (mPendingEvent # NoEvent \/ mInboundQueue # <<>>)
  BY DEF Rest, HasEvent
<1>2. WaitCause \in {"NONE", "APPLICATION_NOT_READY"}
  BY <1>1 DEF WaitOK, WaitCause
<1>3. CASE mPendingEvent # NoEvent
  <2>1. NextEvent = mPendingEvent /\ QueuedBehind = mInboundQueue
    BY <1>3 DEF NextEvent, QueuedBehind
  <2>2. mPendingEvent \in KeyEntry
    BY <1>1, <1>3 DEF EventsOK
  <2>3. mPendingEvent.injector \in Injector \cup {NoInjector}
    BY <2>2 DEF KeyEntry
  <2> QED BY <1>1, <1>2, <2>1, <2>2, <2>3 DEF EventsOK
<1>4. CASE mPendingEvent = NoEvent
  <2>1. NextEvent = Head(mInboundQueue) /\ QueuedBehind = Tail(mInboundQueue)
    BY <1>4 DEF NextEvent, QueuedBehind
  <2>2. Head(mInboundQueue) \in KeyEntry /\ Tail(mInboundQueue) \in Seq(KeyEntry)
    BY <1>1, <1>4, HeadTail DEF EventsOK
  <2>3. Head(mInboundQueue).injector \in Injector \cup {NoInjector}
    BY <2>2 DEF KeyEntry
  <2> QED BY <1>2, <2>1, <2>2, <2>3
<1> QED BY <1>3, <1>4

\* Between two of its steps the thread works on no command.
LEMMA Between ==
    ASSUME Core, dispatcher.pc # "policy"
    PROVE  /\ Good(World, Peers, NoCommand, {mFocusedWindowHandle}, {})
           /\ dispatcher.command = NoCommand /\ Peers.open = open
  BY DEF Core, ThreadOK, Peers

\* releasePendingEventLocked and the end of dispatchOnceInnerLocked.
LEMMA DoneKeeps ==
    ASSUME Core, Rest, dispatcher.pc = "poll", HasEvent, NEW s,
           Good(s, Peers, NoCommand, {mFocusedWindowHandle}, {}), Done(s), woken' = FALSE
    PROVE  IInv'
<1> DEFINE n == releaseInboundEventLocked(s, {NextEvent})
           Q == {mFocusedWindowHandle}
           p == Peers
<1>1. Good(n, Peers, NoCommand, {mFocusedWindowHandle}, {})
  <2>1. Good(s, p, NoCommand, Q, {})
    OBVIOUS
  <2> HIDE DEF Q, p
  <2>2. Good(n, p, NoCommand, Q, {})
    BY <2>1, ReleaseInboundEvent
  <2> QED BY <2>2 DEF Q, p
<1>2. PollsNext(n, "now") /\ UNCHANGED <<peerVars, mFocusedWindowHandle>>
  BY DEF Done, focusVars
<1> HIDE DEF n
<1>3. Core' /\ IdleHasNoWork'
  <2>1. "now" \in {"now", "timer", "never"} /\ "now" # "never"
    OBVIOUS
  <2> QED BY <1>1, <1>2, <2>1, Polling
<1>4. Rest'
  <2>1. EventsOK'
    BY EventFacts DEF Done, EventsOK
  <2>2. FocusOK' /\ WaitOK' /\ BoundsOK'
    BY DEF Done, focusVars, boundVars, Rest, FocusOK, WaitOK, BoundsOK
  <2> QED BY <2>1, <2>2 DEF Rest
<1> QED BY <1>3, <1>4, IInvNext

LEMMA PendsKeeps ==
    ASSUME Core, Rest, dispatcher.pc = "poll", HasEvent, NEW s, NEW ev \in KeyEntry,
           Good(s, Peers, NoCommand, {mFocusedWindowHandle}, {}),
           NEW timeout \in {"now", "timer"}, Pends(ev, s, timeout), woken' = FALSE, WaitOK'
    PROVE  IInv'
<1>1. PollsNext(s, timeout) /\ UNCHANGED <<peerVars, mFocusedWindowHandle>>
  BY DEF Pends, focusVars
<1>2. Core' /\ IdleHasNoWork'
  <2>1. timeout \in {"now", "timer", "never"} /\ timeout # "never"
    OBVIOUS
  <2> QED BY <1>1, <2>1, Polling
<1>3. Rest'
  <2>1. EventsOK'
    BY EventFacts DEF Pends, EventsOK
  <2>2. FocusOK' /\ BoundsOK'
    BY DEF Pends, focusVars, boundVars, Rest, FocusOK, BoundsOK
  <2> QED BY <2>1, <2>2 DEF Rest
<1> QED BY <1>2, <1>3, IInvNext

LEMMA ResultKeeps ==
    ASSUME NEW s \in WorldType, NEW i, NEW r
    PROVE  setInjectionResultLocked(s, i, r).connection = s.connection
  BY DEF setInjectionResultLocked, WorldType

\* Steps of dispatchOnce that dispatch no event.
LEMMA IdleSteps ==
    ASSUME IInv, dispatchOnceRunsCommands \/ dispatchIdles
    PROVE  IInv'
<1> DEFINE n == World
<1>1. Core /\ Rest
  BY IInvParts
<1>2. PICK timeout \in {"now", "timer", "never"} :
         /\ PollsNext(n, timeout)
         /\ timeout = "never" => /\ mCommandQueue = <<>>
                                 /\ \/ mDispatchFrozen
                                    \/ mPendingEvent = NoEvent /\ mInboundQueue = <<>>
  <2>1. CASE dispatchOnceRunsCommands
    <3>1. PollsNext(n, "now")
      BY <2>1 DEF dispatchOnceRunsCommands
    <3> QED BY <3>1
  <2>2. CASE dispatchIdles
    <3>1. /\ PollsNext(n, "never") /\ mCommandQueue = <<>>
          /\ mDispatchFrozen \/ (mPendingEvent = NoEvent /\ mInboundQueue = <<>>)
      BY <2>2 DEF dispatchIdles, Inner
    <3> QED BY <3>1
  <2> QED BY <2>1, <2>2
<1>3. /\ dispatcher.pc = "poll" /\ woken' = FALSE
      /\ UNCHANGED <<focusVars, waitVars, queueVars, boundVars, peerVars>>
  BY DEF dispatchOnceRunsCommands, dispatchIdles, Inner, Polled
<1>4. Good(n, Peers, NoCommand, {mFocusedWindowHandle}, {})
  BY <1>1, <1>3, Between
<1>5. UNCHANGED <<peerVars, mFocusedWindowHandle>>
  BY <1>3 DEF focusVars
<1>6. n.commands = mCommandQueue
  BY DEF World
<1> HIDE DEF n
<1>7. Core' /\ (timeout # "never" => IdleHasNoWork')
  BY <1>1, <1>2, <1>3, <1>4, <1>5, Polling
<1>8. mCommandQueue' = mCommandQueue
  BY <1>2, <1>6 DEF PollsNext, Becomes
<1>9. timeout = "never" => IdleHasNoWork'
  BY <1>2, <1>3, <1>8 DEF IdleHasNoWork, focusVars, queueVars
<1>10. Rest'
  BY <1>1, <1>3 DEF Rest, EventsOK, FocusOK, WaitOK, BoundsOK, focusVars, waitVars, queueVars,
                    boundVars
<1> QED BY <1>7, <1>9, <1>10, IInvNext

LEMMA PendingSteps ==
    ASSUME IInv, \/ dispatchKeyTriesLater \/ dispatchKeyAsksPolicy
                 \/ handleTargetsNotReady \/ onANRLocked
    PROVE  IInv'
<1> DEFINE Q == {mFocusedWindowHandle}
           p == Peers
           n == World
<1>1. Core /\ Rest
  BY IInvParts
<1>2. dispatcher.pc = "poll" /\ woken' = FALSE /\ HasEvent
  BY DEF dispatchKeyTriesLater, dispatchKeyAsksPolicy, handleTargetsNotReady, onANRLocked,
         FindsTarget, Inner, Polled
<1>3. Good(n, p, NoCommand, Q, {})
  BY <1>1, <1>2, Between
<1>4. NextEvent \in KeyEntry /\ WaitCause \in {"NONE", "APPLICATION_NOT_READY"}
  BY <1>1, <1>2, EventFacts
<1>5. WaitOK
  BY <1>1 DEF Rest
<1>6. ASSUME NEW x \in Command, x.type # "finished"
      PROVE  Good(postCommandLocked(n, x), p, NoCommand, Q, {})
  <2> HIDE DEF Q, p, n
  <2> QED BY <1>3, <1>6, PostCommand
<1>7. CASE dispatchKeyTriesLater
  <2>1. Pends(NextEvent, n, "timer") /\ WaitOK'
    BY <1>5, <1>7 DEF dispatchKeyTriesLater, waitVars, WaitOK
  <2>2. "timer" \in {"now", "timer"}
    OBVIOUS
  <2> QED BY <1>1, <1>2, <1>3, <1>4, <2>1, <2>2, PendsKeeps
<1>8. CASE dispatchKeyAsksPolicy
  <2> DEFINE x == [type |-> "intercept"]
             s == postCommandLocked(n, x)
             ev == [NextEvent EXCEPT !.intercept = "UNKNOWN"]
  <2>1. Pends(ev, s, "now") /\ WaitOK'
    BY <1>4, <1>5, <1>8 DEF dispatchKeyAsksPolicy, WaitOK
  <2>2. x \in Command /\ x.type # "finished"
    BY DEF Command
  <2>3. ev \in KeyEntry
    BY <1>4 DEF KeyEntry
  <2>4. "now" \in {"now", "timer"}
    OBVIOUS
  <2>5. Good(s, p, NoCommand, Q, {})
    BY <1>6, <2>2
  <2> HIDE DEF s, ev
  <2> QED BY <1>1, <1>2, <2>1, <2>3, <2>4, <2>5, PendsKeeps
<1>9. CASE handleTargetsNotReady
  <2>1. Pends(NextEvent, n, "timer") /\ WaitOK'
    BY <1>5, <1>9 DEF handleTargetsNotReady, WaitOK
  <2>2. "timer" \in {"now", "timer"}
    OBVIOUS
  <2> QED BY <1>1, <1>2, <1>3, <1>4, <2>1, <2>2, PendsKeeps
<1>10. CASE onANRLocked
  <2> DEFINE x == [type |-> "anr", window |-> mFocusedWindowHandle]
             s == postCommandLocked(n, x)
  <2>1. Pends(NextEvent, s, "now") /\ WaitOK'
    BY <1>5, <1>10 DEF onANRLocked, waitVars, WaitOK
  <2>2. x \in Command /\ x.type # "finished"
    BY <1>1 DEF Command, Rest, FocusOK
  <2>3. "now" \in {"now", "timer"}
    OBVIOUS
  <2>4. Good(s, p, NoCommand, Q, {})
    BY <1>6, <2>2
  <2> HIDE DEF s
  <2> QED BY <1>1, <1>2, <1>4, <2>1, <2>3, <2>4, PendsKeeps
<1> QED BY <1>7, <1>8, <1>9, <1>10

LEMMA DoneSteps ==
    ASSUME IInv, \/ \E late \in BOOLEAN : dispatchKeyDrops(late)
                 \/ dispatchKeyFails \/ targetTimesOut \/ dispatchKey
    PROVE  IInv'
<1> DEFINE Q == {mFocusedWindowHandle}
           p == Peers
           n == World
           i == NextEvent.injector
<1>1. Core /\ Rest
  BY IInvParts
<1>2. dispatcher.pc = "poll" /\ woken' = FALSE /\ HasEvent
  BY DEF dispatchKeyDrops, dispatchKeyFails, targetTimesOut, dispatchKey,
         FindsTarget, Inner, Polled
<1>3. /\ Good(n, p, NoCommand, Q, {}) /\ p.open = open
      /\ NoCommand \in Command \cup {NoCommand}
  BY <1>1, <1>2, Between
<1>4. NextEvent \in KeyEntry /\ i \in Injector \cup {NoInjector}
  BY <1>1, <1>2, EventFacts
<1>5. ASSUME NEW r \in {"SUCCEEDED", "FAILED", "PERMISSION_DENIED", "TIMED_OUT"}
      PROVE  Good(setInjectionResultLocked(n, i, r), p, NoCommand, Q, {})
  <2> HIDE DEF Q, p, n, i
  <2> QED BY <1>3, <1>4, SetInjectionResult
<1>6. ASSUME NEW s, Good(s, p, NoCommand, Q, {}), Done(s)
      PROVE  IInv'
  BY <1>1, <1>2, <1>6, DoneKeeps
<1>7. ASSUME NEW late \in BOOLEAN, dispatchKeyDrops(late)
      PROVE  IInv'
  <2> DEFINE x == IF DropReason(late) = "POLICY" THEN "SUCCEEDED" ELSE "FAILED"
             t == setInjectionResultLocked(n, i, x)
             after(order) == synthesizeCancelationEventsForAllConnectionsLocked(t, order)
  <2>1. PICK order \in SetToSeqs(Registered(n)) : Done(after(order))
    BY <1>7 DEF dispatchKeyDrops
  <2>2. x \in {"SUCCEEDED", "FAILED", "PERMISSION_DENIED", "TIMED_OUT"}
    OBVIOUS
  <2> HIDE DEF x
  <2>3. Good(t, p, NoCommand, Q, {})
    BY <1>5, <2>2
  <2> HIDE DEF t, Q, p, n
  <2>4. Good(after(order), p, NoCommand, Q, {})
    BY <1>3, <2>3, SynthesizeAll
  <2> QED BY <1>6, <2>1, <2>4
<1>8. ASSUME NEW r \in {"SUCCEEDED", "FAILED", "PERMISSION_DENIED", "TIMED_OUT"},
             Done(setInjectionResultLocked(n, i, r))
      PROVE  IInv'
  <2> DEFINE t == setInjectionResultLocked(n, i, r)
  <2>1. Good(t, p, NoCommand, Q, {}) /\ Done(t)
    BY <1>5, <1>8
  <2> HIDE DEF t, Q, p
  <2> QED BY <1>6, <2>1
<1>9. CASE dispatchKeyFails
  <2>1. \/ Done(setInjectionResultLocked(n, i, "FAILED"))
        \/ Done(setInjectionResultLocked(n, i, "PERMISSION_DENIED"))
    BY <1>9 DEF dispatchKeyFails
  <2> HIDE DEF n, i
  <2> QED BY <1>8, <2>1
<1>10. CASE targetTimesOut
  <2>1. Done(setInjectionResultLocked(n, i, "TIMED_OUT"))
    BY <1>10 DEF targetTimesOut
  <2> HIDE DEF n, i
  <2> QED BY <1>8, <2>1
<1>11. CASE dispatchKey
  <2> DEFINE w == mFocusedWindowHandle
             t == setInjectionResultLocked(n, i, "SUCCEEDED")
             s == prepareDispatchCycleLocked(t, w, NextEvent)
  <2>1. /\ Done(s) /\ w # NoWindow /\ checkWindowReadyForMoreInputLocked
    BY <1>11 DEF dispatchKey
  <2>2. w \in Window /\ w \in Q
    BY <1>1, <2>1 DEF Rest, FocusOK
  <2>3. Good(t, p, NoCommand, Q, {})
    BY <1>5
  <2>4. t.connection[w].outboundQueue = <<>>
    <3>1. n \in WorldType
      BY <1>3 DEF Good
    <3>2. t.connection = n.connection
      BY <3>1, ResultKeeps
    <3>3. n.connection[w].outboundQueue = <<>>
      BY <2>1 DEF checkWindowReadyForMoreInputLocked, World
    <3> HIDE DEF t, n
    <3> QED BY <3>2, <3>3
  <2> HIDE DEF t, p, Q, w
  <2>5. Good(s, p, NoCommand, Q, {})
    BY <1>3, <1>4, <2>2, <2>3, <2>4, Prepare
  <2> HIDE DEF s
  <2> QED BY <1>6, <2>1, <2>5
<1> QED BY <1>7, <1>9, <1>10, <1>11
-----------------------------------------------------------------------------
(* The commands.                                                            *)

LEMMA CommandRest ==
    ASSUME Rest, unchangedByCommand, WaitOK', delays' \in 0 .. MaxDelays
    PROVE  Rest' /\ mFocusedWindowHandle' = mFocusedWindowHandle
  BY DEF Rest, unchangedByCommand, focusVars, queueVars, EventsOK, FocusOK, BoundsOK

LEMMA StillRest ==
    ASSUME Rest, unchangedByCommand, UNCHANGED <<waitVars, delays>>
    PROVE  Rest' /\ mFocusedWindowHandle' = mFocusedWindowHandle
<1>1. WaitOK' /\ delays' \in 0 .. MaxDelays
  BY DEF Rest, WaitOK, BoundsOK, waitVars
<1> QED BY <1>1, CommandRest

\* The first command, when commands run.
LEMMA FirstFacts ==
    ASSUME Core, dispatcher.pc = "commands"
    PROVE  /\ World.commands # <<>> /\ FirstCommand = Head(World.commands)
           /\ FirstCommand \in Command /\ Dequeued = Popped(World)
           /\ Good(World, Peers, NoCommand, {mFocusedWindowHandle}, {})
<1>1. mCommandQueue # <<>> /\ World.commands = mCommandQueue
  BY DEF Core, ThreadOK, World
<1>2. Good(World, Peers, NoCommand, {mFocusedWindowHandle}, {})
  BY Between
<1>3. mCommandQueue \in Seq(Command)
  <2> DEFINE s == World
  <2>1. s \in WorldType /\ s.commands = mCommandQueue
    BY <1>1, <1>2 DEF Good
  <2> HIDE DEF s
  <2> QED BY <2>1, WorldFields
<1>4. Head(mCommandQueue) \in Command
  BY <1>1, <1>3, HeadTail
<1> QED BY <1>1, <1>2, <1>4 DEF FirstCommand, Dequeued, Popped

\* A command that has not finished an entry leaves the queue.
LEMMA DequeuedOther ==
    ASSUME Core, dispatcher.pc = "commands", FirstCommand.type # "finished",
           NEW dmd, ~IsHand(dmd)
    PROVE  Good(Dequeued, Peers, dmd, {mFocusedWindowHandle}, {})
<1> DEFINE s == World
           p == Peers
           Q == {mFocusedWindowHandle}
<1>1. /\ s.commands # <<>> /\ Head(s.commands).type # "finished"
      /\ Dequeued = Popped(s) /\ Good(s, p, NoCommand, Q, {})
  BY FirstFacts
<1> HIDE DEF s, p, Q
<1>2. Good(Popped(s), p, dmd, Q, {})
  BY <1>1, PopOther
<1> QED BY <1>1, <1>2 DEF p, Q

LEMMA SimpleCommands ==
    ASSUME IInv, commandCallsPolicy \/ doNotifyInputChannelBroken,
           dispatcher.pc = "commands"
    PROVE  IInv'
<1>1. Core /\ Rest
  BY IInvParts
<1>2. unchangedByCommand /\ UNCHANGED <<waitVars, delays>>
  BY DEF commandCallsPolicy, doNotifyInputChannelBroken
<1>3. Rest' /\ mFocusedWindowHandle' = mFocusedWindowHandle
  BY <1>1, <1>2, StillRest
<1>4. /\ AsksPolicy(Dequeued, FirstCommand) \/ CommandEnds(Dequeued)
      /\ FirstCommand.type \in {"intercept", "anr", "broken"}
  BY DEF commandCallsPolicy, doNotifyInputChannelBroken
<1> DEFINE c == FirstCommand
           n == Dequeued
<1>5. c \in Command /\ ~IsHand(c) /\ c.type # "finished" /\ CommandOK(c)
  BY <1>1, <1>4, FirstFacts DEF IsHand, CommandOK
<1>6. /\ Good(n, Peers, c, {mFocusedWindowHandle}, {})
      /\ Good(n, Peers, NoCommand, {mFocusedWindowHandle}, {})
  BY <1>1, <1>5, NoHand, DequeuedOther
<1> HIDE DEF c, n
<1>7. ASSUME AsksPolicy(n, c) PROVE Core' /\ IdleHasNoWork'
  BY <1>1, <1>3, <1>5, <1>6, <1>7, PolicyAsking
<1>8. ASSUME CommandEnds(n) PROVE Core' /\ IdleHasNoWork'
  <2>1. dispatcher.pc # "poll"
    OBVIOUS
  <2> QED BY <1>1, <1>3, <1>6, <1>8, <2>1, CommandEnding
<1>9. Core' /\ IdleHasNoWork'
  BY <1>4, <1>7, <1>8 DEF c, n
<1> QED BY <1>3, <1>9, IInvNext

\* An entry that was finished: the world with it in the thread's hand.
LEMMA DequeuedFinished ==
    ASSUME Core, dispatcher.pc = "commands", FirstCommand.type = "finished"
    PROVE  LET w == FirstCommand.window
               found == findWaitQueueEntry(World, w, FirstCommand.seq)
               entry == connection[w].waitQueue[CHOOSE n \in found : TRUE]
           IN  /\ w \in Window
               /\ found = {} => Good(Dequeued, Peers, NoCommand, {mFocusedWindowHandle}, {})
               /\ found # {} =>
                    /\ entry \in DispatchEntry /\ (~entry.fallback => entry.key \in Key)
                    /\ \A type \in {"askFallback", "cancelFallback"}, code \in FallbackCode :
                         Good(Dequeued, Peers,
                              [type |-> type, window |-> w, entry |-> entry, fallback |-> code],
                              {mFocusedWindowHandle}, {})
<1> DEFINE w == FirstCommand.window
           found == findWaitQueueEntry(World, w, FirstCommand.seq)
           m == CHOOSE n \in found : TRUE
           entry == connection[w].waitQueue[m]
           s == World
           p == Peers
           Q == {mFocusedWindowHandle}
<1>1. /\ s.commands # <<>> /\ Head(s.commands).type = "finished" /\ Head(s.commands).window = w
      /\ Dequeued = Popped(s) /\ Good(s, p, NoCommand, Q, {})
      /\ found = findWaitQueueEntry(s, w, Head(s.commands).seq)
  BY FirstFacts
<1>2. w \in Window
  BY FirstFacts DEF Command
<1>3. s.connection = connection
  BY DEF World
<1>4. /\ s \in WorldType /\ WindowOK(s, p, NoCommand, Q, {}, w)
  BY <1>1, <1>2 DEF Good
<1> HIDE DEF s, p, Q, w, found, m, entry
<1>5. s.connection[w].waitQueue \in Seq(DispatchEntry)
  BY <1>2, <1>4, WorldFields, ConnectionFields
<1>6. found = {} => Good(Popped(s), p, NoCommand, Q, {})
  BY <1>1, <1>2, NoHand, PopFinished
<1>7. ASSUME found # {}
      PROVE  /\ entry \in DispatchEntry /\ (~entry.fallback => entry.key \in Key)
             /\ \A type \in {"askFallback", "cancelFallback"}, code \in FallbackCode :
                  Good(Popped(s), p,
                       [type |-> type, window |-> w, entry |-> entry, fallback |-> code], Q, {})
  <2>1. m \in found
    BY <1>7 DEF m
  <2>2. m \in DOMAIN s.connection[w].waitQueue
    BY <2>1 DEF found, findWaitQueueEntry, s
  <2>3. entry = s.connection[w].waitQueue[m]
    BY <1>3 DEF entry
  <2>4. entry \in DispatchEntry
    BY <1>5, <2>2, <2>3
  <2>5. ~entry.fallback => entry.key \in Key
    BY <1>4, <2>2, <2>3 DEF WindowOK, QueuesOK, Plain
  <2>6. ASSUME NEW type \in {"askFallback", "cancelFallback"}, NEW code \in FallbackCode
        PROVE  Good(Popped(s), p,
                    [type |-> type, window |-> w, entry |-> entry, fallback |-> code], Q, {})
    <3> DEFINE dmd == [type |-> type, window |-> w, entry |-> entry, fallback |-> code]
    <3>1. IsHand(dmd) /\ dmd.window = w /\ dmd.entry = entry
      BY DEF IsHand
    <3> HIDE DEF dmd
    <3>2. \E n \in found : dmd.entry = s.connection[w].waitQueue[n]
      BY <2>1, <2>3, <3>1
    <3>3. Good(Popped(s), p, dmd, Q, {})
      BY <1>1, <1>2, <1>7, <3>1, <3>2, PopFinished
    <3> QED BY <3>3 DEF dmd
  <2> QED BY <2>4, <2>5, <2>6
<1> QED BY <1>1, <1>2, <1>6, <1>7 DEF s, p, Q, w, found, m, entry

\* A hand command that an entry makes.
Hand(type, w, entry, code) ==
    [type |-> type, window |-> w, entry |-> entry, fallback |-> code]

LEMMA HandFields ==
    ASSUME NEW type \in {"askFallback", "cancelFallback"}, NEW w \in Window,
           NEW entry \in DispatchEntry, NEW code \in FallbackCode
    PROVE  LET c == Hand(type, w, entry, code)
           IN  /\ c \in Command /\ IsHand(c) /\ c.type = type /\ c.window = w
               /\ c.entry = entry /\ c.fallback = code
  BY DEF Hand, Command, IsHand

\* doDispatchCycleFinished of an entry, without a call to the policy.
LEMMA Finishing ==
    ASSUME NEW s, NEW p, NEW Q, NEW c \in Command, IsHand(c), Good(s, p, c, Q, {}),
           p.open = open
    PROVE  Good(finishEntry(s, c.window, c.entry, c.entry), p, NoCommand, Q, {})
<1> DEFINE w == c.window
           e == c.entry
<1>1. w \in Window /\ e \in DispatchEntry /\ c \in Command \cup {NoCommand}
  BY HandType
<1>2. c.window = w /\ e = c.entry
  OBVIOUS
<1> HIDE DEF w, e
<1>3. Good(finishEntry(s, w, c.entry, e), p, NoCommand, Q, {})
  BY <1>1, <1>2, FinishEntry
<1> QED BY <1>2, <1>3

LEMMA AfterKeyEventKeeps ==
    ASSUME Core, dispatcher.pc = "commands", NEW w \in Window, NEW entry \in DispatchEntry,
           NEW s, NEW handled, entry.key \in Key, ~entry.fallback,
           \A type \in {"askFallback", "cancelFallback"}, code \in FallbackCode :
              Good(s, Peers, Hand(type, w, entry, code), {mFocusedWindowHandle}, {}),
           AfterKeyEvent(s, w, entry, handled),
           mFocusedWindowHandle' = mFocusedWindowHandle
    PROVE  Core' /\ IdleHasNoWork'
<1> DEFINE fallback == s.connection[w].mFallbackKeys[entry.key]
           s1 == IF entry.action = "UP" THEN setFallbackKey(s, w, entry.key, "none") ELSE s
           known == handled \/ ~entry.foreground
           ends == fallback = "none" /\ (known \/ entry.action = "UP")
           type == IF known THEN "cancelFallback" ELSE "askFallback"
           c == Hand(type, w, entry, fallback)
           n == finishEntry(s1, w, entry, entry)
           p == Peers
           Q == {mFocusedWindowHandle}
<1>1. IF ends THEN CommandEnds(n) ELSE AsksPolicy(s1, c)
  BY DEF AfterKeyEvent, Hand
<1>2. type \in {"askFallback", "cancelFallback"} /\ "none" \in FallbackCode
  BY DEF FallbackCode
<1>3. fallback \in FallbackCode
  <2>1. Good(s, Peers, Hand(type, w, entry, "none"), {mFocusedWindowHandle}, {})
    BY <1>2
  <2>2. s \in WorldType
    BY <2>1 DEF Good
  <2>3. s.connection[w].mFallbackKeys \in [Key -> FallbackCode]
    BY <2>2, WorldFields, ConnectionFields
  <2> QED BY <2>3
<1>4. /\ c \in Command /\ IsHand(c) /\ c.type = type /\ c.window = w
      /\ c.entry = entry /\ c.fallback = fallback
  <2> HIDE DEF type, fallback
  <2> QED BY <1>2, <1>3, HandFields
<1>5. Good(s, p, c, Q, {}) /\ p.open = open
  BY <1>2, <1>3 DEF Peers
<1>6. ~ends => CommandOK(c)
  <2>1. type = "cancelFallback" => known
    OBVIOUS
  <2> HIDE DEF type, known, fallback, c
  <2> QED BY <1>4, <2>1 DEF CommandOK
<1> HIDE DEF c, p, Q, type, fallback, known
<1>7. Good(s1, p, c, Q, {})
  <2>1. CASE entry.action = "UP"
    <3>1. c \in Command \cup {NoCommand}
      BY <1>4
    <3>2. Good(setFallbackKey(s, w, entry.key, "none"), p, c, Q, {})
      BY <1>2, <1>5, <3>1, SetFallbackKey
    <3> QED BY <2>1, <3>2
  <2>2. CASE entry.action # "UP"
    BY <1>5, <2>2
  <2> QED BY <2>1, <2>2
<1> HIDE DEF s1
<1>8. ASSUME ends PROVE Core' /\ IdleHasNoWork'
  <2>1. Good(n, p, NoCommand, Q, {})
    BY <1>4, <1>5, <1>7, Finishing
  <2>2. CommandEnds(n) /\ dispatcher.pc # "poll"
    BY <1>1, <1>8
  <2> HIDE DEF n
  <2> QED BY <2>1, <2>2, CommandEnding DEF p, Q
<1>9. ASSUME ~ends PROVE Core' /\ IdleHasNoWork'
  <2>1. AsksPolicy(s1, c) /\ CommandOK(c)
    BY <1>1, <1>6, <1>9
  <2> QED BY <1>4, <1>7, <2>1, PolicyAsking DEF p, Q
<1> QED BY <1>8, <1>9

LEMMA FinishedStep ==
    ASSUME IInv, doDispatchCycleFinished
    PROVE  IInv'
<1> DEFINE w == FirstCommand.window
           found == findWaitQueueEntry(World, w, FirstCommand.seq)
           entry == connection[w].waitQueue[CHOOSE n \in found : TRUE]
           s == Dequeued
           p == Peers
           Q == {mFocusedWindowHandle}
<1>1. Core /\ Rest
  BY IInvParts
<1>2. /\ dispatcher.pc = "commands" /\ FirstCommand.type = "finished"
      /\ unchangedByCommand /\ UNCHANGED <<waitVars, delays>>
      /\ IF found = {} THEN CommandEnds(s)
         ELSE IF entry.fallback THEN CommandEnds(finishEntry(s, w, entry, entry))
         ELSE AfterKeyEvent(s, w, entry, FirstCommand.handled)
  BY DEF doDispatchCycleFinished
<1>3. Rest' /\ mFocusedWindowHandle' = mFocusedWindowHandle
  BY <1>1, <1>2, StillRest
<1>4. /\ w \in Window
      /\ found = {} => Good(s, p, NoCommand, Q, {})
      /\ found # {} =>
           /\ entry \in DispatchEntry /\ (~entry.fallback => entry.key \in Key)
           /\ \A type \in {"askFallback", "cancelFallback"}, code \in FallbackCode :
                Good(s, p, Hand(type, w, entry, code), Q, {})
  BY <1>1, <1>2, DequeuedFinished DEF Hand
<1>5. dispatcher.pc # "poll" /\ p.open = open
  BY <1>2 DEF Peers
<1> HIDE DEF w, found, entry, s, p, Q
<1>6. CASE found = {}
  BY <1>1, <1>2, <1>3, <1>4, <1>5, <1>6, CommandEnding, IInvNext DEF p, Q
<1>7. CASE found # {} /\ entry.fallback
  <2> DEFINE c == Hand("askFallback", w, entry, "none")
             n == finishEntry(s, w, entry, entry)
  <2>1. "none" \in FallbackCode /\ "askFallback" \in {"askFallback", "cancelFallback"}
    BY DEF FallbackCode
  <2>2. /\ c \in Command /\ IsHand(c) /\ c.window = w /\ c.entry = entry
        /\ Good(s, p, c, Q, {})
    BY <1>4, <1>7, <2>1, HandFields
  <2> HIDE DEF c
  <2>3. Good(n, p, NoCommand, Q, {})
    BY <1>5, <2>2, Finishing
  <2>4. CommandEnds(n)
    BY <1>2, <1>7
  <2> HIDE DEF n
  <2>5. Core' /\ IdleHasNoWork'
    BY <1>1, <1>3, <1>5, <2>3, <2>4, CommandEnding DEF p, Q
  <2> QED BY <1>3, <2>5, IInvNext
<1>8. CASE found # {} /\ ~entry.fallback
  <2>1. AfterKeyEvent(s, w, entry, FirstCommand.handled)
    BY <1>2, <1>8
  <2>2. \A type \in {"askFallback", "cancelFallback"}, code \in FallbackCode :
           Good(s, Peers, Hand(type, w, entry, code), {mFocusedWindowHandle}, {})
    BY <1>4, <1>8 DEF p, Q
  <2>3. Core' /\ IdleHasNoWork'
    BY <1>1, <1>2, <1>3, <1>4, <1>8, <2>1, <2>2, AfterKeyEventKeeps
  <2> QED BY <1>3, <2>3, IInvNext
<1> QED BY <1>6, <1>7, <1>8
-----------------------------------------------------------------------------
(* The answers of the policy.                                               *)

LEMMA InterceptStep ==
    ASSUME IInv, NEW result \in {"CONTINUE", "SKIP", "LATER"},
           doInterceptKeyBeforeDispatching(result)
    PROVE  IInv'
<1> DEFINE n == World
<1>1. Core /\ Rest
  BY IInvParts
<1>2. dispatcher.pc # "poll" /\ dispatcher.command.type = "intercept" /\ CommandEnds(n)
  BY DEF doInterceptKeyBeforeDispatching
<1>3. Good(n, Peers, NoCommand, {mFocusedWindowHandle}, {})
  <2> DEFINE cmd == dispatcher.command
             p == Peers
             Q == {mFocusedWindowHandle}
  <2>1. Good(n, p, cmd, Q, {}) /\ ~IsHand(cmd)
    BY <1>1, <1>2 DEF Core, IsHand
  <2> HIDE DEF n, cmd, p, Q
  <2>2. Good(n, p, NoCommand, Q, {})
    BY <2>1, NoHand, CommandSwap
  <2> QED BY <2>2 DEF p, Q
<1>4. mFocusedWindowHandle' = mFocusedWindowHandle
  BY DEF doInterceptKeyBeforeDispatching, focusVars
<1> HIDE DEF n
<1>5. Core' /\ IdleHasNoWork'
  BY <1>1, <1>2, <1>3, <1>4, CommandEnding
<1>6. EventsOK'
  <2>1. /\ mInboundQueue' = mInboundQueue
        /\ mPendingEvent' = IF mPendingEvent = NoEvent THEN NoEvent
                            ELSE [mPendingEvent EXCEPT !.intercept = result]
    BY DEF doInterceptKeyBeforeDispatching
  <2>2. mPendingEvent' \in KeyEntry \cup {NoEvent}
    BY <1>1, <2>1 DEF Rest, EventsOK, KeyEntry
  <2> QED BY <1>1, <2>1, <2>2 DEF Rest, EventsOK
<1>7. BoundsOK'
  <2>1. /\ UNCHANGED <<keys, held, calls>> /\ (result = "LATER" => delays < MaxDelays)
        /\ delays' = IF result = "LATER" THEN delays + 1 ELSE delays
    BY DEF doInterceptKeyBeforeDispatching
  <2> QED BY <1>1, <2>1, DispatcherAssumption DEF Rest, BoundsOK
<1>8. FocusOK' /\ WaitOK' /\ woken' \in BOOLEAN
  BY <1>1 DEF doInterceptKeyBeforeDispatching, focusVars, waitVars, Rest, FocusOK, WaitOK
<1> QED BY <1>5, <1>6, <1>7, <1>8, IInvNext DEF Rest

LEMMA AnrStep ==
    ASSUME IInv, NEW newTimeout \in BOOLEAN, doNotifyANR(newTimeout)
    PROVE  IInv'
<1> DEFINE w == dispatcher.command.window
           s == World
           canceled == synthesizeCancelationEventsForConnectionLocked(s, w, "none")
           n == IF w # NoWindow /\ connection[w].status = "NORMAL" THEN canceled ELSE s
           p == Peers
           Q == {mFocusedWindowHandle}
<1>1. Core /\ Rest
  BY IInvParts
<1>2. /\ dispatcher.pc # "poll" /\ dispatcher.command.type = "anr" /\ unchangedByCommand
      /\ \/ delays < MaxDelays /\ delays' = delays + 1 /\ CommandEnds(s) /\ UNCHANGED waitVars
         \/ /\ mInputTargetWaitTimeoutExpired' = TRUE /\ CommandEnds(n)
            /\ UNCHANGED <<mInputTargetWaitCause, delays>>
  BY DEF doNotifyANR
<1>3. WaitOK' /\ delays' \in 0 .. MaxDelays
  <2>1. WaitOK /\ delays \in 0 .. MaxDelays /\ MaxDelays \in Nat
    BY <1>1, DispatcherAssumption DEF Rest, BoundsOK
  <2> HIDE DEF n, s
  <2>2. WaitOK'
    BY <1>2, <2>1 DEF WaitOK, waitVars
  <2>3. delays' = delays \/ (delays < MaxDelays /\ delays' = delays + 1)
    BY <1>2
  <2> QED BY <2>1, <2>2, <2>3
<1>4. Rest' /\ mFocusedWindowHandle' = mFocusedWindowHandle
  BY <1>1, <1>2, <1>3, CommandRest
<1>5. Good(s, p, NoCommand, Q, {}) /\ p.open = open
  <2> DEFINE cmd == dispatcher.command
  <2>1. Good(s, p, cmd, Q, {}) /\ ~IsHand(cmd) /\ p.open = open
    BY <1>1, <1>2 DEF Core, IsHand, Peers
  <2> HIDE DEF s, cmd, p, Q
  <2> QED BY <2>1, NoHand, CommandSwap
<1>6. w \in Window \cup {NoWindow}
  <2>1. dispatcher.command \in Command \cup {NoCommand}
    BY <1>1, DispatcherFields DEF Core
  <2> QED BY <1>2, <2>1 DEF Command, NoCommand
<1>7. Good(n, p, NoCommand, Q, {})
  <2>1. ASSUME w # NoWindow PROVE Good(canceled, p, NoCommand, Q, {})
    <3>1. w \in Window /\ NoCommand \in Command \cup {NoCommand}
      BY <1>6, <2>1
    <3> HIDE DEF w, s, p, Q
    <3>2. CancelsKeys(canceled, p, NoCommand, Q, w, "none")
      BY <1>5, <3>1, Synthesize
    <3> QED BY <3>2 DEF CancelsKeys
  <2> HIDE DEF canceled, s, p, Q
  <2> QED BY <1>5, <2>1
<1> HIDE DEF n, s
<1>8. Core' /\ IdleHasNoWork'
  <2>1. ASSUME NEW x, Good(x, p, NoCommand, Q, {}), CommandEnds(x)
        PROVE  Core' /\ IdleHasNoWork'
    BY <1>1, <1>2, <1>4, <2>1, CommandEnding
  <2> HIDE DEF p, Q
  <2> QED BY <1>2, <1>5, <1>7, <2>1
<1> QED BY <1>4, <1>8, IInvNext

LEMMA BrokenStep ==
    ASSUME IInv, doNotifyInputChannelBroken, dispatcher.pc = "policy"
    PROVE  IInv'
<1> DEFINE n == World
           cmd == dispatcher.command
           p == Peers
           Q == {mFocusedWindowHandle}
<1>1. Core /\ Rest
  BY IInvParts
<1>2. /\ dispatcher.pc # "poll" /\ cmd.type = "broken" /\ CommandEnds(n)
      /\ unchangedByCommand /\ UNCHANGED <<waitVars, delays>>
  BY DEF doNotifyInputChannelBroken
<1>3. Rest' /\ mFocusedWindowHandle' = mFocusedWindowHandle
  BY <1>1, <1>2, StillRest
<1>4. Good(n, p, NoCommand, Q, {})
  <2>1. Good(n, p, cmd, Q, {}) /\ ~IsHand(cmd)
    BY <1>1, <1>2 DEF Core, IsHand
  <2> HIDE DEF n, cmd, p, Q
  <2> QED BY <2>1, NoHand, CommandSwap
<1> HIDE DEF n
<1>5. Core' /\ IdleHasNoWork'
  BY <1>1, <1>2, <1>3, <1>4, CommandEnding
<1> QED BY <1>3, <1>5, IInvNext

\* The command of a key in its call to the policy.
LEMMA HandFacts ==
    ASSUME Core, IsHand(dispatcher.command)
    PROVE  LET c == dispatcher.command
           IN  /\ c \in Command /\ c.window \in Window /\ c.entry \in DispatchEntry
               /\ c.fallback \in FallbackCode /\ c.entry.key \in Key /\ ~c.entry.fallback
               /\ CommandOK(c) /\ Good(World, Peers, c, {mFocusedWindowHandle}, {})
               /\ Peers.open = open
<1> DEFINE c == dispatcher.command
<1>1. /\ c \in Command \cup {NoCommand} /\ CommandOK(c)
      /\ Good(World, Peers, c, {mFocusedWindowHandle}, {}) /\ Peers.open = open
  BY DispatcherFields DEF Core, ThreadOK, Peers
<1>2. c \in Command
  BY <1>1 DEF IsHand, NoCommand
<1>3. c.window \in Window /\ c.entry \in DispatchEntry /\ c.fallback \in FallbackCode
  BY <1>1, HandType
<1>4. c.entry.key \in Key /\ ~c.entry.fallback
  BY <1>1 DEF CommandOK
<1> QED BY <1>1, <1>2, <1>3, <1>4

LEMMA CancelFallbackStep ==
    ASSUME IInv, cancelsFallback
    PROVE  IInv'
<1> DEFINE c == dispatcher.command
           w == c.window
           entry == c.entry
           s == World
           canceled == IF c.fallback = AKEYCODE_UNKNOWN THEN s
                       ELSE synthesizeCancelationEventsForConnectionLocked(s, w, c.fallback)
           kept == setFallbackKey(canceled, w, entry.key, "none")
           n == finishEntry(kept, w, entry, entry)
           p == Peers
           Q == {mFocusedWindowHandle}
<1>1. Core /\ Rest
  BY IInvParts
<1>2. /\ dispatcher.pc # "poll" /\ IsHand(c) /\ CommandEnds(n)
      /\ unchangedByCommand /\ UNCHANGED <<waitVars, delays>>
  BY DEF cancelsFallback, IsHand
<1>3. Rest' /\ mFocusedWindowHandle' = mFocusedWindowHandle
  BY <1>1, <1>2, StillRest
<1>4. /\ c \in Command /\ c \in Command \cup {NoCommand} /\ w \in Window
      /\ entry.key \in Key /\ Good(s, p, c, Q, {}) /\ p.open = open
      /\ "none" \in FallbackCode
  BY <1>1, <1>2, HandFacts DEF FallbackCode
<1> HIDE DEF c, s, p, Q
<1>5. Good(canceled, p, c, Q, {})
  <2>1. CancelsKeys(synthesizeCancelationEventsForConnectionLocked(s, w, c.fallback),
                    p, c, Q, w, c.fallback)
    BY <1>4, Synthesize
  <2> QED BY <1>4, <2>1 DEF CancelsKeys
<1> HIDE DEF canceled
<1>6. Good(kept, p, c, Q, {})
  BY <1>4, <1>5, SetFallbackKey
<1> HIDE DEF kept
<1>7. Good(n, p, NoCommand, Q, {})
  BY <1>2, <1>4, <1>6, Finishing
<1> HIDE DEF n
<1>8. Core' /\ IdleHasNoWork'
  BY <1>1, <1>2, <1>3, <1>7, CommandEnding DEF p, Q
<1> QED BY <1>3, <1>8, IInvNext

LEMMA AskFallbackStep ==
    ASSUME IInv, NEW answer \in Fallbacks \cup {AKEYCODE_UNKNOWN}, asksFallback(answer)
    PROVE  IInv'
<1> DEFINE c == dispatcher.command
           w == c.window
           entry == c.entry
           s == World
           initialDown == entry.action = "DOWN"
           latched == IF initialDown THEN answer ELSE c.fallback
           changed == latched # AKEYCODE_UNKNOWN /\ answer # latched
           normal == connection[w].status = "NORMAL"
           none == setFallbackKey(s, w, entry.key, "none")
           kept == IF initialDown THEN setFallbackKey(s, w, entry.key, latched) ELSE s
           canceled == synthesizeCancelationEventsForConnectionLocked(s, w, latched)
           again == [entry EXCEPT !.key = latched, !.fallback = TRUE]
           sent == IF answer # AKEYCODE_UNKNOWN THEN again ELSE entry
           a == finishEntry(none, w, entry, entry)
           b == finishEntry(canceled, w, entry, entry)
           d == finishEntry(kept, w, entry, sent)
           p == Peers
           Q == {mFocusedWindowHandle}
<1>1. Core /\ Rest
  BY IInvParts
<1>2. /\ dispatcher.pc # "poll" /\ c.type = "askFallback" /\ IsHand(c)
      /\ unchangedByCommand /\ UNCHANGED <<waitVars, delays>>
  BY DEF asksFallback, IsHand
<1>3. Rest' /\ mFocusedWindowHandle' = mFocusedWindowHandle
  BY <1>1, <1>2, StillRest
<1>4. /\ c \in Command /\ c \in Command \cup {NoCommand} /\ w \in Window
      /\ entry \in DispatchEntry /\ c.fallback \in FallbackCode
      /\ entry.key \in Key /\ Good(s, p, c, Q, {}) /\ p.open = open
      /\ CommandOK(c) /\ "none" \in FallbackCode
  BY <1>1, <1>2, HandFacts DEF FallbackCode
<1>5. CommandEnds(a) \/ CommandEnds(b) \/ CommandEnds(d)
  <2>1. CommandEnds(CASE ~normal -> a [] normal /\ changed -> b [] OTHER -> d)
    BY DEF asksFallback
  <2> HIDE DEF a, b, d, normal, changed
  <2>2. \/ (CASE ~normal -> a [] normal /\ changed -> b [] OTHER -> d) = a
        \/ (CASE ~normal -> a [] normal /\ changed -> b [] OTHER -> d) = b
        \/ (CASE ~normal -> a [] normal /\ changed -> b [] OTHER -> d) = d
    OBVIOUS
  <2> QED BY <2>1, <2>2
<1>6. latched \in Fallbacks \cup {AKEYCODE_UNKNOWN}
  <2>1. ~initialDown => c.fallback # "none"
    BY <1>2, <1>4, EntryFields DEF CommandOK
  <2> QED BY <1>4, <2>1 DEF FallbackCode
<1>7. /\ latched \in FallbackCode /\ latched \in KeyCode /\ latched \notin Key
  BY <1>6, ChannelAssumption DEF FallbackCode, KeyCode
<1> HIDE DEF c, s, p, Q, latched, initialDown
<1>8. /\ again \in DispatchEntry /\ again.seq = entry.seq /\ again.fallback
      /\ again.key \notin Key /\ again.foreground = entry.foreground
      /\ again.injector = entry.injector
  BY <1>4, <1>7 DEF DispatchEntry
<1>9. Good(a, p, NoCommand, Q, {})
  <2>1. Good(none, p, c, Q, {})
    BY <1>4, SetFallbackKey
  <2> HIDE DEF none
  <2> QED BY <1>2, <1>4, <2>1, Finishing
<1>10. Good(b, p, NoCommand, Q, {})
  <2>1. CancelsKeys(canceled, p, c, Q, w, latched)
    BY <1>4, Synthesize
  <2>2. Good(canceled, p, c, Q, {})
    BY <2>1 DEF CancelsKeys
  <2> HIDE DEF canceled
  <2> QED BY <1>2, <1>4, <2>2, Finishing
<1>11. Good(d, p, NoCommand, Q, {})
  <2>1. Good(setFallbackKey(s, w, entry.key, latched), p, c, Q, {})
    BY <1>4, <1>7, SetFallbackKey
  <2>2. Good(kept, p, c, Q, {})
    BY <1>4, <2>1
  <2> HIDE DEF kept, again
  <2>3. sent = again \/ sent = entry
    OBVIOUS
  <2> HIDE DEF sent
  <2>4. sent \in DispatchEntry
    BY <1>4, <1>8, <2>3
  <2>5. \/ sent = c.entry
        \/ /\ sent.seq = c.entry.seq /\ sent.fallback /\ sent.key \notin Key
           /\ sent.foreground = c.entry.foreground /\ sent.injector = c.entry.injector
    BY <1>8, <2>3
  <2>6. c.window = w
    OBVIOUS
  <2> HIDE DEF w
  <2>7. Good(finishEntry(kept, w, c.entry, sent), p, NoCommand, Q, {})
    BY <1>2, <1>4, <2>2, <2>4, <2>5, <2>6, FinishEntry
  <2> QED BY <2>7
<1> HIDE DEF a, b, d
<1>12. Core' /\ IdleHasNoWork'
  <2>1. ASSUME NEW x, Good(x, p, NoCommand, Q, {}), CommandEnds(x)
        PROVE  Core' /\ IdleHasNoWork'
    BY <1>1, <1>2, <1>3, <2>1, CommandEnding DEF p, Q
  <2> QED BY <1>5, <1>9, <1>10, <1>11, <2>1
<1> QED BY <1>3, <1>12, IInvNext
-----------------------------------------------------------------------------
(* The callbacks of pollOnce.                                               *)

LEMMA ReceiveStep ==
    ASSUME IInv, NEW w \in Window, handleReceiveCallback(w)
    PROVE  IInv'
<1> DEFINE d == [dispatcher EXCEPT
              !.pc = IF mCommandQueue' # <<>> THEN "commands" ELSE "poll",
              !.timeout = "now",
              !.hangup = IF w \in open \/ mCommandQueue' = <<>> THEN NoWindow ELSE w]
           s == World
           t == World'
           p == Peers
           r == Peers'
           Q == {mFocusedWindowHandle}
<1>1. Core /\ Rest
  BY IInvParts
<1>2. dispatcher.pc = "poll" /\ dispatcher' = d /\ connection[w].status # "NONE"
  BY DEF handleReceiveCallback, Registered, World
<1>3. /\ Good(s, p, NoCommand, Q, {}) /\ NoCommand \in Command \cup {NoCommand}
      /\ dispatcher.command = NoCommand /\ ~IsHand(NoCommand) /\ p \in PeersType
  BY <1>1, <1>2, Between, NoHand DEF Core
<1>4. s.connection[w].status # "NONE" /\ Reads(s, t, p, r, w)
  BY <1>2 DEF handleReceiveCallback, Reads, World, Peers, FinishedCommands, IsWorld
<1>5. /\ d \in DispatcherType /\ d.timeout = "now" /\ d.command = NoCommand
      /\ d.pc \in {"poll", "commands"} /\ (d.pc = "commands" => mCommandQueue' # <<>>)
  BY <1>1, <1>3 DEF Core, DispatcherType
<1>6. r \in PeersType
  <2> DEFINE z == <<>>
  <2>1. /\ received' = received /\ down' = down /\ open' = open
        /\ signals' = [signals EXCEPT ![w] = z] /\ z \in Seq(Signal)
    BY DEF handleReceiveCallback
  <2> HIDE DEF z
  <2>2. signals \in [Window -> Seq(Signal)]
    BY <1>3 DEF Peers, PeersType, Signal
  <2>3. signals' \in [Window -> Seq(Signal)]
    BY <2>1, <2>2
  <2> QED BY <1>3, <2>1, <2>3 DEF Peers, PeersType, Signal
<1> HIDE DEF d
<1>7. Good(t, r, NoCommand, Q, {})
  <2> HIDE DEF s, t, p, r, Q
  <2> QED BY <1>3, <1>4, ReadsSignals
<1>8. ThreadOK' /\ IdleHasNoWork'
  BY <1>2, <1>5, NoCommandOK DEF ThreadOK, IdleHasNoWork
<1>9. Rest' /\ mFocusedWindowHandle' = mFocusedWindowHandle
  BY <1>1 DEF handleReceiveCallback, Rest, EventsOK, FocusOK, WaitOK, BoundsOK, focusVars,
              waitVars, queueVars, boundVars
<1>10. Good(World, Peers, dispatcher.command, {mFocusedWindowHandle}, {})'
  BY <1>2, <1>5, <1>7, <1>9
<1>11. Core'
  BY <1>2, <1>5, <1>6, <1>8, <1>10 DEF Core
<1> QED BY <1>8, <1>9, <1>11, IInvNext

\* A channel is unregistered, by a hangup or by a call.
LEMMA Unregistering ==
    ASSUME Core, NEW w \in Window, NEW notify \in BOOLEAN,
           Becomes(Unregistered(World, w, notify)), ForgetsChannel(w),
           mFocusedWindowHandle' = mFocusedWindowHandle
    PROVE  /\ Good(World', Peers', dispatcher.command, {mFocusedWindowHandle'}, {})
           /\ Peers' \in PeersType
<1> DEFINE s == World
           u == Unregistered(s, w, notify)
           p == Peers
           r == Peers'
           Q == {mFocusedWindowHandle}
           cmd == dispatcher.command
<1>1. /\ Good(s, p, cmd, Q, {}) /\ p \in PeersType /\ cmd \in Command \cup {NoCommand}
  BY DispatcherFields DEF Core
<1>2. Forgets(p, r, w) /\ r \in PeersType
  BY <1>1, Forgetting
<1>3. Good(u, r, cmd, Q, {})
  <2> HIDE DEF s, p, r, Q, cmd
  <2> QED BY <1>1, <1>2, Unregister
<1>4. u \in WorldType /\ Becomes(u)
  BY <1>3 DEF Good
<1> HIDE DEF u
<1>5. World' = u
  BY <1>4, BecomesWorld
<1> QED BY <1>2, <1>3, <1>5

LEMMA HangupStep ==
    ASSUME IInv, NEW w \in Window, handleHangup(w)
    PROVE  IInv'
<1>1. Core /\ Rest
  BY IInvParts
<1>2. /\ Becomes(Unregistered(World, w, TRUE)) /\ ForgetsChannel(w) /\ dispatcher.pc = "poll"
      /\ dispatcher' = [dispatcher EXCEPT !.timeout = "now"]
      /\ UNCHANGED <<focusVars, waitVars, queueVars, boundVars, woken>>
  BY DEF handleHangup
<1>3. /\ dispatcher' \in DispatcherType /\ dispatcher'.timeout = "now"
      /\ dispatcher'.command = dispatcher.command /\ dispatcher'.pc = "poll"
  BY <1>1, <1>2 DEF Core, DispatcherType
<1>4. Rest' /\ mFocusedWindowHandle' = mFocusedWindowHandle
  BY <1>1, <1>2 DEF Rest, EventsOK, FocusOK, WaitOK, BoundsOK, focusVars,
                    waitVars, queueVars, boundVars
<1>5. TRUE \in BOOLEAN
  OBVIOUS
<1>6. /\ Good(World', Peers', dispatcher.command, {mFocusedWindowHandle'}, {})
      /\ Peers' \in PeersType
  BY <1>1, <1>2, <1>4, <1>5, Unregistering
<1>7. dispatcher.command = NoCommand
  BY <1>1, <1>2, Between
<1>8. ThreadOK' /\ IdleHasNoWork'
  BY <1>3, <1>7, NoCommandOK DEF ThreadOK, IdleHasNoWork
<1>9. Core'
  BY <1>3, <1>6, <1>8 DEF Core
<1> QED BY <1>4, <1>8, <1>9, IInvNext
-----------------------------------------------------------------------------
(* The calls of other threads.                                              *)

\* A step that leaves the thread where it is.
LEMMA ThreadStays ==
    ASSUME Core, dispatcher' = dispatcher, Unlocked \/ mCommandQueue' = mCommandQueue,
           Good(World', Peers', dispatcher.command, {mFocusedWindowHandle'}, {}),
           Peers' \in PeersType
    PROVE  Core'
<1>1. ThreadOK'
  BY DEF Core, ThreadOK, Unlocked
<1> QED BY <1>1 DEF Core

\* A call that changes neither the world nor the channels.
LEMMA WorldStays ==
    ASSUME Core, UNCHANGED <<worldVars, peerVars, mFocusedWindowHandle, dispatcher>>
    PROVE  Core'
<1>1. World' = World /\ Peers' = Peers /\ mCommandQueue' = mCommandQueue
  BY PeersSame DEF worldVars, World
<1> QED BY <1>1, ThreadStays DEF Core

\* A call of the window manager, which wakes the thread.
LEMMA CallEnding ==
    ASSUME Rest, Calls, EventsOK', FocusOK', WaitOK', woken' = TRUE,
           UNCHANGED <<keys, held, delays>>
    PROVE  Rest' /\ IdleHasNoWork' /\ Unlocked
<1>1. BoundsOK'
  <2>1. calls \in 0 .. MaxCalls /\ calls < MaxCalls /\ calls' = calls + 1 /\ MaxCalls \in Nat
    BY DispatcherAssumption DEF Rest, BoundsOK, Calls
  <2>2. calls' \in 0 .. MaxCalls
    BY <2>1
  <2> QED BY <2>2 DEF Rest, BoundsOK
<1>2. IdleHasNoWork'
  BY DEF IdleHasNoWork
<1> QED BY <1>1, <1>2 DEF Rest, Calls

\* enqueueInboundEventLocked.
LEMMA Enqueueing ==
    ASSUME EventsOK, IdleHasNoWork, woken \in BOOLEAN, NEW ev \in KeyEntry,
           enqueueInboundEventLocked(ev),
           UNCHANGED <<mPendingEvent, mCommandQueue, mDispatchFrozen, dispatcher>>
    PROVE  EventsOK' /\ IdleHasNoWork' /\ woken' \in BOOLEAN
<1>1. /\ mInboundQueue' = Append(mInboundQueue, ev)
      /\ woken' = (woken \/ mInboundQueue = <<>>)
  BY DEF enqueueInboundEventLocked
<1>2. EventsOK'
  BY <1>1 DEF EventsOK
<1>3. woken' \in BOOLEAN
  BY <1>1
<1>4. IdleHasNoWork'
  <2> SUFFICES ASSUME dispatcher'.pc = "poll", dispatcher'.timeout = "never", ~woken'
               PROVE  mCommandQueue' = <<>> /\ mDispatchFrozen'
    BY DEF IdleHasNoWork
  <2>1. ~woken /\ mInboundQueue # <<>>
    BY <1>1
  <2> QED BY <2>1 DEF IdleHasNoWork
<1> QED BY <1>2, <1>3, <1>4

LEMMA KeyEventType ==
    ASSUME NEW k \in Key, NEW action \in {"DOWN", "UP"}, NEW pass \in BOOLEAN,
           NEW i \in Injector \cup {NoInjector}
    PROVE  KeyEvent(k, action, pass, i) \in KeyEntry
  BY DEF KeyEvent, KeyEntry

LEMMA NotifyStep ==
    ASSUME IInv, NEW k \in Key, NEW passToUser \in BOOLEAN, notifyKey(k, passToUser)
    PROVE  IInv'
<1> DEFINE action == IF k \in held THEN "UP" ELSE "DOWN"
           ev == KeyEvent(k, action, passToUser, NoInjector)
<1>1. Core /\ Rest /\ IdleHasNoWork
  BY IInvParts
<1>2. /\ enqueueInboundEventLocked(ev) /\ keys < MaxKeys /\ keys' = keys + 1
      /\ held' = IF k \in held THEN held \ {k} ELSE held \cup {k}
      /\ UNCHANGED <<mPendingEvent, worldVars, focusVars, waitVars, peerVars, calls,
                     delays, dispatcher>>
  BY DEF notifyKey
<1>3. ev \in KeyEntry
  <2>1. action \in {"DOWN", "UP"} /\ NoInjector \in Injector \cup {NoInjector}
    OBVIOUS
  <2> HIDE DEF action
  <2> QED BY <2>1, KeyEventType
<1> HIDE DEF ev
<1>4. UNCHANGED <<mPendingEvent, mCommandQueue, mDispatchFrozen, dispatcher>>
  BY <1>2 DEF worldVars, focusVars
<1>5. EventsOK' /\ IdleHasNoWork' /\ woken' \in BOOLEAN
  BY <1>1, <1>2, <1>3, <1>4, Enqueueing DEF Rest
<1>6. UNCHANGED <<worldVars, peerVars, mFocusedWindowHandle, dispatcher>>
  BY <1>2 DEF focusVars
<1>7. Core'
  BY <1>1, <1>6, WorldStays
<1>8. BoundsOK'
  <2>1. keys \in 0 .. MaxKeys /\ MaxKeys \in Nat /\ held \subseteq Key
    BY <1>1, DispatcherAssumption DEF Rest, BoundsOK
  <2>2. keys' \in 0 .. MaxKeys
    BY <1>2, <2>1
  <2>3. held' \subseteq Key
    BY <1>2, <2>1
  <2> QED BY <1>1, <1>2, <2>2, <2>3 DEF Rest, BoundsOK
<1>9. FocusOK' /\ WaitOK'
  BY <1>1, <1>2 DEF Rest, FocusOK, WaitOK, focusVars, waitVars
<1> QED BY <1>5, <1>7, <1>8, <1>9, IInvNext DEF Rest

\* The state of an injection changes, but for its count.
LEMMA Injecting ==
    ASSUME Core, injection' \in [Injector -> InjectionState],
           \A i \in Injector : injection'[i].pending = injection[i].pending,
           UNCHANGED <<connection, mCommandQueue, sNextSeq, pipe, peerVars,
                       mFocusedWindowHandle, dispatcher>>
    PROVE  Core'
<1> DEFINE s == World
           p == Peers
           Q == {mFocusedWindowHandle}
           cmd == dispatcher.command
           j == injection'
<1>1. Good(s, p, cmd, Q, {}) /\ s.injection = injection
  BY DEF Core, World
<1>2. World' = [s EXCEPT !.injection = j]
  BY DEF World
<1>3. Peers' = Peers /\ Peers \in PeersType
  BY PeersSame DEF Core
<1>4. Good([s EXCEPT !.injection = j], p, cmd, Q, {})
  <2>1. \A i \in Injector : j[i].pending = s.injection[i].pending
    BY <1>1
  <2> HIDE DEF s, p, Q, cmd, j
  <2> QED BY <1>1, <2>1, InjectionOnly DEF j
<1> QED BY <1>2, <1>3, <1>4, ThreadStays

LEMMA InjectStep ==
    ASSUME IInv, NEW i \in Injector, NEW k \in Key, NEW action \in {"DOWN", "UP"},
           NEW passToUser \in BOOLEAN,
           NEW mode \in {"NONE", "WAIT_FOR_RESULT", "WAIT_FOR_FINISHED"},
           injectInputEvent(i, k, action, passToUser, mode)
    PROVE  IInv'
<1> DEFINE ev == KeyEvent(k, action, passToUser, i)
<1>1. Core /\ Rest /\ IdleHasNoWork
  BY IInvParts
<1>2. /\ enqueueInboundEventLocked(ev)
      /\ injection' = [injection EXCEPT ![i].mode = mode,
            ![i].pc = IF mode = "NONE" THEN "returned" ELSE "checkResult"]
      /\ UNCHANGED <<mPendingEvent, connection, mCommandQueue, sNextSeq, pipe,
                     focusVars, waitVars, peerVars, boundVars, dispatcher>>
  BY DEF injectInputEvent
<1>3. ev \in KeyEntry
  BY KeyEventType
<1> HIDE DEF ev
<1>4. UNCHANGED <<mPendingEvent, mCommandQueue, mDispatchFrozen, dispatcher>>
  BY <1>2 DEF focusVars
<1>5. EventsOK' /\ IdleHasNoWork' /\ woken' \in BOOLEAN
  BY <1>1, <1>2, <1>3, <1>4, Enqueueing DEF Rest
<1>6. injection \in [Injector -> InjectionState]
  BY DEF IInv, TypeOK
<1>7. /\ injection' \in [Injector -> InjectionState]
      /\ \A n \in Injector : injection'[n].pending = injection[n].pending
  BY <1>2, <1>6 DEF InjectionState
<1>8. Core'
  <2>1. UNCHANGED <<connection, mCommandQueue, sNextSeq, pipe, peerVars,
                    mFocusedWindowHandle, dispatcher>>
    BY <1>2 DEF focusVars
  <2> QED BY <1>1, <1>7, <2>1, Injecting
<1>9. FocusOK' /\ WaitOK' /\ BoundsOK'
  BY <1>1, <1>2 DEF Rest, FocusOK, WaitOK, BoundsOK, focusVars, waitVars, boundVars
<1> QED BY <1>5, <1>8, <1>9, IInvNext DEF Rest

LEMMA InjectorSteps ==
    ASSUME IInv, NEW i \in Injector, injectionChecks(i) \/ injectionTimesOut(i)
    PROVE  IInv'
<1>1. Core /\ Rest /\ IdleHasNoWork
  BY IInvParts
<1>2. injection \in [Injector -> InjectionState]
  BY DEF IInv, TypeOK
<1>3. PICK pc \in {"awaitResult", "awaitFinished", "returned"} :
         injection' = [injection EXCEPT ![i].pc = pc]
  BY DEF injectionChecks, injectionTimesOut
<1>4. UNCHANGED <<connection, mCommandQueue, sNextSeq, pipe, queueVars, focusVars,
                  waitVars, peerVars, boundVars, dispatcher, woken>>
  BY DEF injectionChecks, injectionTimesOut, unchangedByInjector
<1>5. /\ injection' \in [Injector -> InjectionState]
      /\ \A n \in Injector : injection'[n].pending = injection[n].pending
  BY <1>2, <1>3 DEF InjectionState
<1>6. Core'
  <2>1. UNCHANGED <<connection, mCommandQueue, sNextSeq, pipe, peerVars,
                    mFocusedWindowHandle, dispatcher>>
    BY <1>4 DEF focusVars
  <2> QED BY <1>1, <1>5, <2>1, Injecting
<1>7. Rest' /\ IdleHasNoWork'
  BY <1>1, <1>4 DEF Rest, EventsOK, FocusOK, WaitOK, BoundsOK, IdleHasNoWork,
                    queueVars, focusVars, waitVars, boundVars
<1> QED BY <1>6, <1>7, IInvNext

LEMMA WindowsStep ==
    ASSUME IInv, NEW focus \in Window \cup {NoWindow}, NEW pause \in BOOLEAN,
           setInputWindows(focus, pause)
    PROVE  IInv'
<1> DEFINE s == World
           old == mFocusedWindowHandle
           canceled == synthesizeCancelationEventsForConnectionLocked(s, old, "none")
           cancels == old # focus /\ old \in Registered(s)
           n == IF cancels THEN canceled ELSE s
           p == Peers
           Q == {old}
           R == {focus}
           cmd == dispatcher.command
<1>1. Core /\ Rest
  BY IInvParts
<1>2. /\ Calls /\ Becomes(n) /\ woken' = TRUE
      /\ mFocusedWindowHandle' = focus /\ paused' = (pause /\ focus # NoWindow)
      /\ UNCHANGED <<mFocusedApplicationHandle, mDispatchEnabled, mDispatchFrozen,
                     waitVars, queueVars, peerVars, keys, held, delays, dispatcher>>
  BY DEF setInputWindows
<1>3. /\ Good(s, p, cmd, Q, {}) /\ p.open = open /\ cmd \in Command \cup {NoCommand}
      /\ p \in PeersType
  BY <1>1, DispatcherFields DEF Core, Peers
<1>4. Good(n, p, cmd, R, {})
  <2>1. CASE cancels
    <3>1. old \in Window /\ n = canceled
      BY <2>1 DEF Registered
    <3> HIDE DEF s, p, Q, R, cmd, old, n, cancels
    <3>2. CancelsKeys(canceled, p, cmd, Q, old, "none")
      BY <1>3, <3>1, Synthesize
    <3> HIDE DEF canceled
    <3>3. /\ Good(canceled, p, cmd, Q, {})
          /\ canceled.connection[old].status = "NORMAL"
                => canceled.connection[old].mKeyMementos = <<>>
      BY <3>2 DEF CancelsKeys
    <3>4. \A w \in Window :
             w \in Q /\ w \notin R /\ canceled.connection[w].status = "NORMAL"
                => canceled.connection[w].mKeyMementos = <<>>
      BY <3>3 DEF Q
    <3> QED BY <3>1, <3>3, <3>4, Refocus
  <2>2. CASE ~cancels
    <3>1. n = s
      BY <2>2
    <3>2. old = focus \/ old \notin Registered(s)
      BY <2>2
    <3>3. \A w \in Window : w \in Q /\ w \notin R /\ s.connection[w].status = "NORMAL"
                               => s.connection[w].mKeyMementos = <<>>
      BY <3>2 DEF Registered
    <3> HIDE DEF s, p, Q, R, cmd, old, n, cancels
    <3> QED BY <1>3, <3>1, <3>3, Refocus
  <2> QED BY <2>1, <2>2
<1>5. n \in WorldType
  BY <1>4 DEF Good
<1> HIDE DEF n
<1>6. World' = n /\ Peers' = Peers
  BY <1>2, <1>5, BecomesWorld, PeersSame
<1>7. FocusOK' /\ EventsOK' /\ WaitOK'
  BY <1>1, <1>2 DEF Rest, FocusOK, EventsOK, WaitOK, queueVars, waitVars
<1>8. Rest' /\ IdleHasNoWork' /\ Unlocked
  BY <1>1, <1>2, <1>7, CallEnding
<1>9. Core'
  BY <1>1, <1>2, <1>3, <1>4, <1>6, <1>8, ThreadStays
<1> QED BY <1>8, <1>9, IInvNext

LEMMA ApplicationStep ==
    ASSUME IInv, NEW app \in App \cup {NoApp}, setFocusedApplication(app)
    PROVE  IInv'
<1>1. Core /\ Rest
  BY IInvParts
<1>2. /\ Calls /\ woken' = TRUE /\ UNCHANGED <<keys, held, delays>>
      /\ UNCHANGED <<worldVars, peerVars, mFocusedWindowHandle, dispatcher>>
      /\ EventsOK' /\ FocusOK' /\ WaitOK'
  BY <1>1 DEF setFocusedApplication, Rest, EventsOK, FocusOK, WaitOK, queueVars
<1>3. Rest' /\ IdleHasNoWork'
  BY <1>1, <1>2, CallEnding
<1>4. Core'
  BY <1>1, <1>2, WorldStays
<1> QED BY <1>3, <1>4, IInvNext

LEMMA Resetting ==
    ASSUME Core, resetAndDropEverythingLocked, UNCHANGED peerVars, Unlocked,
           mFocusedWindowHandle' = mFocusedWindowHandle, dispatcher' = dispatcher
    PROVE  Core' /\ EventsOK' /\ mInputTargetWaitCause' = "NONE"
<1> DEFINE s == World
           p == Peers
           Q == {mFocusedWindowHandle}
           cmd == dispatcher.command
           dropped == ({mPendingEvent} \ {NoEvent}) \cup ToSet(mInboundQueue)
           after(order) == synthesizeCancelationEventsForAllConnectionsLocked(s, order)
           next(order) == releaseInboundEventLocked(after(order), dropped)
<1>1. PICK order \in SetToSeqs(Registered(s)) : Becomes(next(order))
  BY DEF resetAndDropEverythingLocked
<1>2. /\ Good(s, p, cmd, Q, {}) /\ p.open = open /\ cmd \in Command \cup {NoCommand}
      /\ Peers \in PeersType
  BY DispatcherFields DEF Core, Peers
<1> DEFINE n == next(order)
<1>3. Good(n, p, cmd, Q, {})
  <2> HIDE DEF s, p, Q, cmd, dropped
  <2>1. Good(after(order), p, cmd, Q, {})
    BY <1>2, SynthesizeAll
  <2> HIDE DEF after
  <2> QED BY <2>1, ReleaseInboundEvent
<1>4. n \in WorldType /\ Becomes(n)
  BY <1>1, <1>3 DEF Good
<1> HIDE DEF n
<1>5. World' = n /\ Peers' = Peers
  BY <1>4, BecomesWorld, PeersSame
<1>6. Core'
  BY <1>2, <1>3, <1>5, ThreadStays
<1>7. EventsOK' /\ mInputTargetWaitCause' = "NONE"
  BY DEF resetAndDropEverythingLocked, EventsOK
<1> QED BY <1>6, <1>7

LEMMA ModeStep ==
    ASSUME IInv, NEW enabled \in BOOLEAN, NEW frozen \in BOOLEAN,
           setInputDispatchMode(enabled, frozen)
    PROVE  IInv'
<1>1. Core /\ Rest
  BY IInvParts
<1>2. /\ Calls /\ woken' = TRUE /\ UNCHANGED <<keys, held, delays>> /\ Unlocked
      /\ mFocusedWindowHandle' = mFocusedWindowHandle /\ dispatcher' = dispatcher
      /\ UNCHANGED peerVars /\ FocusOK'
      /\ mInputTargetWaitTimeoutExpired' = mInputTargetWaitTimeoutExpired
  BY <1>1 DEF setInputDispatchMode, Rest, FocusOK, Calls
<1>3. Core' /\ EventsOK' /\ WaitOK'
  <2>1. CASE resetAndDropEverythingLocked
    BY <1>1, <1>2, <2>1, Resetting DEF Rest, WaitOK
  <2>2. CASE /\ UNCHANGED <<worldVars, queueVars>>
             /\ mInputTargetWaitCause' = IF mDispatchFrozen /\ ~frozen THEN "NONE"
                                         ELSE mInputTargetWaitCause
    <3>1. Core'
      BY <1>1, <1>2, <2>2, WorldStays
    <3>2. EventsOK' /\ WaitOK'
      BY <1>1, <1>2, <2>2 DEF Rest, EventsOK, WaitOK, queueVars
    <3> QED BY <3>1, <3>2
  <2> QED BY <2>1, <2>2 DEF setInputDispatchMode
<1>4. Rest' /\ IdleHasNoWork'
  BY <1>1, <1>2, <1>3, CallEnding
<1> QED BY <1>3, <1>4, IInvNext

LEMMA FilterStep ==
    ASSUME IInv, setInputFilterEnabled
    PROVE  IInv'
<1>1. Core /\ Rest
  BY IInvParts
<1>2. /\ Calls /\ woken' = TRUE /\ UNCHANGED <<keys, held, delays>> /\ Unlocked
      /\ mFocusedWindowHandle' = mFocusedWindowHandle /\ dispatcher' = dispatcher
      /\ UNCHANGED peerVars /\ FocusOK' /\ resetAndDropEverythingLocked
      /\ mInputTargetWaitTimeoutExpired' = mInputTargetWaitTimeoutExpired
  BY <1>1 DEF setInputFilterEnabled, Rest, FocusOK, Calls, focusVars
<1>3. Core' /\ EventsOK' /\ WaitOK'
  BY <1>1, <1>2, Resetting DEF Rest, WaitOK
<1>4. Rest' /\ IdleHasNoWork'
  BY <1>1, <1>2, <1>3, CallEnding
<1> QED BY <1>3, <1>4, IInvNext

LEMMA RegisterStep ==
    ASSUME IInv, NEW w \in Window, registerInputChannel(w)
    PROVE  IInv'
<1> DEFINE s == World
           t == World'
           p == Peers
           Q == {mFocusedWindowHandle}
           cmd == dispatcher.command
<1>1. Core /\ Rest
  BY IInvParts
<1>2. /\ Calls /\ connection[w].status = "NONE" /\ woken' = TRUE
      /\ connection' = [connection EXCEPT ![w].status = "NORMAL"]
      /\ UNCHANGED <<mCommandQueue, injection, sNextSeq, pipe, focusVars, waitVars,
                     queueVars, peerVars, keys, held, delays, dispatcher>>
  BY DEF registerInputChannel
<1>3. /\ Good(s, p, cmd, Q, {}) /\ cmd \in Command \cup {NoCommand} /\ p \in PeersType
  BY <1>1, DispatcherFields DEF Core
<1>4. s.connection[w].status = "NONE" /\ Registers(s, t, w)
  BY <1>2 DEF World, Registers, IsWorld
<1>5. Good(t, p, cmd, Q, {})
  <2> HIDE DEF s, t, p, Q, cmd
  <2> QED BY <1>3, <1>4, RegisterActs
<1>6. EventsOK' /\ FocusOK' /\ WaitOK' /\ mFocusedWindowHandle' = mFocusedWindowHandle
  BY <1>1, <1>2 DEF Rest, EventsOK, FocusOK, WaitOK, queueVars, focusVars, waitVars
<1>7. Rest' /\ IdleHasNoWork' /\ Unlocked
  BY <1>1, <1>2, <1>6, CallEnding
<1>8. Core'
  <2>1. Peers' = Peers
    BY <1>2, PeersSame
  <2> QED BY <1>1, <1>2, <1>3, <1>5, <1>6, <1>7, <2>1, ThreadStays
<1> QED BY <1>7, <1>8, IInvNext

LEMMA UnregisterStep ==
    ASSUME IInv, NEW w \in Window, unregisterInputChannel(w)
    PROVE  IInv'
<1>1. Core /\ Rest
  BY IInvParts
<1>2. /\ Calls /\ Becomes(Unregistered(World, w, FALSE)) /\ ForgetsChannel(w)
      /\ woken' = TRUE
      /\ UNCHANGED <<focusVars, waitVars, queueVars, keys, held, delays, dispatcher>>
  BY DEF unregisterInputChannel
<1>3. EventsOK' /\ FocusOK' /\ WaitOK' /\ mFocusedWindowHandle' = mFocusedWindowHandle
  BY <1>1, <1>2 DEF Rest, EventsOK, FocusOK, WaitOK, queueVars, focusVars, waitVars
<1>4. FALSE \in BOOLEAN
  OBVIOUS
<1>5. /\ Good(World', Peers', dispatcher.command, {mFocusedWindowHandle'}, {})
      /\ Peers' \in PeersType
  BY <1>1, <1>2, <1>3, <1>4, Unregistering
<1>6. Rest' /\ IdleHasNoWork' /\ Unlocked
  BY <1>1, <1>2, <1>3, CallEnding
<1>7. Core'
  BY <1>1, <1>2, <1>5, <1>6, ThreadStays
<1> QED BY <1>6, <1>7, IInvNext
-----------------------------------------------------------------------------
(* The applications.                                                        *)

LEMMA ConsumeStep ==
    ASSUME Core, NEW w \in Window, connection[w].status # "NONE", consume(w),
           UNCHANGED <<connection, mCommandQueue, injection, sNextSeq>>,
           mFocusedWindowHandle' = mFocusedWindowHandle, dispatcher' = dispatcher
    PROVE  Core'
<1> DEFINE s == World
           t == World'
           p == Peers
           r == Peers'
           Q == {mFocusedWindowHandle}
           cmd == dispatcher.command
           h == Head(pipe[w])
<1>1. /\ pipe[w] # <<>> /\ pipe' = [pipe EXCEPT ![w] = Tail(@)]
      /\ received' = [received EXCEPT ![w] = Append(@, h)]
      /\ down' = [down EXCEPT ![w] = KeyState(@, h)] /\ UNCHANGED <<signals, open>>
  BY DEF consume
<1>2. Good(s, p, cmd, Q, {}) /\ p \in PeersType
  BY DEF Core
<1>3. s.connection[w].status # "NONE" /\ Consumes(s, t, p, r, w)
  BY <1>1 DEF World, Peers, Consumes, PipeOnly, IsWorld
<1>4. Good(t, r, cmd, Q, {})
  <2> HIDE DEF s, t, p, r, Q, cmd
  <2> QED BY <1>2, <1>3, ConsumeActs
<1>5. r \in PeersType
  <2>1. /\ received \in [Window -> Seq(DispatchEntry)] /\ down \in [Window -> SUBSET KeyCode]
    BY <1>2 DEF Peers, PeersType
  <2>2. h \in DispatchEntry
    <3>1. s \in WorldType /\ s.pipe = pipe
      BY <1>2 DEF Good, World
    <3> HIDE DEF s
    <3>2. pipe[w] \in Seq(DispatchEntry)
      BY <3>1, WorldFields
    <3> QED BY <1>1, <3>2, HeadTail
  <2> HIDE DEF h
  <2>3. received' \in [Window -> Seq(DispatchEntry)]
    BY <1>1, <2>1, <2>2
  <2>4. down' \in [Window -> SUBSET KeyCode]
    BY <1>1, <2>1, <2>2, EntryFields DEF KeyState
  <2> QED BY <1>1, <1>2, <2>3, <2>4 DEF Peers, PeersType
<1> QED BY <1>4, <1>5, ThreadStays

LEMMA SignalStep ==
    ASSUME Core, NEW w \in Window, connection[w].status # "NONE",
           NEW i \in DOMAIN received[w], NEW handled \in BOOLEAN,
           sendFinishedSignal(w, i, handled),
           UNCHANGED <<connection, mCommandQueue, injection, sNextSeq>>,
           mFocusedWindowHandle' = mFocusedWindowHandle, dispatcher' = dispatcher
    PROVE  Core'
<1> DEFINE s == World
           t == World'
           p == Peers
           r == Peers'
           Q == {mFocusedWindowHandle}
           cmd == dispatcher.command
           e == [seq |-> received[w][i].seq, handled |-> handled]
           a == RemoveAt(received[w], i)
<1>1. /\ received' = [received EXCEPT ![w] = a]
      /\ signals' = [signals EXCEPT ![w] = Append(@, e)] /\ UNCHANGED <<pipe, down, open>>
  BY DEF sendFinishedSignal
<1>2. Good(s, p, cmd, Q, {}) /\ p \in PeersType
  BY DEF Core
<1>3. s \in WorldType /\ s.pipe = pipe
  BY <1>2 DEF Good, World
<1>4. pipe \in [Window -> Seq(DispatchEntry)]
  <2> HIDE DEF s
  <2> QED BY <1>3, WorldFields
<1>5. pipe' = [pipe EXCEPT ![w] = pipe[w]]
  BY <1>1, <1>4
<1>6. /\ s.connection[w].status # "NONE" /\ i \in DOMAIN p.received[w]
      /\ SendsSignal(s, t, p, r, w, i, handled)
  BY <1>1, <1>5 DEF World, Peers, SendsSignal, PipeOnly, IsWorld
<1>7. Good(t, r, cmd, Q, {})
  <2> HIDE DEF s, t, p, r, Q, cmd
  <2> QED BY <1>2, <1>6, SignalActs
<1>8. r \in PeersType
  <2>1. /\ received \in [Window -> Seq(DispatchEntry)] /\ signals \in [Window -> Seq(Signal)]
    BY <1>2 DEF Peers, PeersType, Signal
  <2>2. e \in Signal
    <3>1. received[w][i] \in DispatchEntry
      BY <2>1
    <3>2. received[w][i].seq \in Nat \ {0}
      BY <3>1, EntryFields
    <3> QED BY <3>2 DEF Signal
  <2>3. a \in Seq(DispatchEntry)
    BY <2>1, RemoveAtIndex
  <2> HIDE DEF e, a
  <2>4. received' \in [Window -> Seq(DispatchEntry)]
    BY <1>1, <2>1, <2>3
  <2>5. signals' \in [Window -> Seq(Signal)]
    BY <1>1, <2>1, <2>2
  <2> QED BY <1>1, <1>2, <2>4, <2>5 DEF Peers, PeersType, Signal
<1> QED BY <1>7, <1>8, ThreadStays

LEMMA CloseStep ==
    ASSUME Core, NEW w \in Window, connection[w].status # "NONE", closeChannel(w),
           UNCHANGED <<connection, mCommandQueue, injection, sNextSeq>>,
           mFocusedWindowHandle' = mFocusedWindowHandle, dispatcher' = dispatcher
    PROVE  Core'
<1> DEFINE s == World
           t == World'
           p == Peers
           r == Peers'
           Q == {mFocusedWindowHandle}
           cmd == dispatcher.command
           z == <<>>
<1>1. /\ open' = open \ {w} /\ pipe' = [pipe EXCEPT ![w] = z]
      /\ received' = [received EXCEPT ![w] = z] /\ down' = [down EXCEPT ![w] = {}]
      /\ signals' = signals
  BY DEF closeChannel
<1>2. Good(s, p, cmd, Q, {}) /\ p \in PeersType
  BY DEF Core
<1>3. s.connection[w].status # "NONE" /\ Closes(s, t, p, r, w)
  BY <1>1 DEF World, Peers, Closes, PipeOnly, IsWorld
<1>4. Good(t, r, cmd, Q, {})
  <2> HIDE DEF s, t, p, r, Q, cmd
  <2> QED BY <1>2, <1>3, CloseActs
<1>5. r \in PeersType
  <2>1. /\ received \in [Window -> Seq(DispatchEntry)] /\ down \in [Window -> SUBSET KeyCode]
        /\ open \in SUBSET Window
    BY <1>2 DEF Peers, PeersType
  <2>2. z \in Seq(DispatchEntry)
    OBVIOUS
  <2> HIDE DEF z
  <2>3. /\ received' \in [Window -> Seq(DispatchEntry)] /\ down' \in [Window -> SUBSET KeyCode]
        /\ open' \in SUBSET Window
    BY <1>1, <2>1, <2>2
  <2> QED BY <1>1, <1>2, <2>3 DEF Peers, PeersType
<1> QED BY <1>4, <1>5, ThreadStays

LEMMA ApplicationSteps ==
    ASSUME IInv, NEW w \in Window, applicationActs(w) \/ applicationCloses(w)
    PROVE  IInv'
<1>1. Core /\ Rest /\ IdleHasNoWork
  BY IInvParts
<1>2. /\ connection[w].status # "NONE"
      /\ UNCHANGED <<connection, mCommandQueue, injection, sNextSeq>>
      /\ UNCHANGED <<queueVars, focusVars, waitVars, keys, held, delays, dispatcher, woken>>
  BY DEF applicationActs, applicationCloses, boundVars
<1>3. mFocusedWindowHandle' = mFocusedWindowHandle /\ dispatcher' = dispatcher
  BY <1>2 DEF focusVars
<1>4. Core'
  <2>1. CASE consume(w)
    BY <1>1, <1>2, <1>3, <2>1, ConsumeStep
  <2>2. ASSUME NEW i \in DOMAIN received[w], NEW handled \in BOOLEAN,
               sendFinishedSignal(w, i, handled)
        PROVE  Core'
    BY <1>1, <1>2, <1>3, <2>2, SignalStep
  <2>3. CASE closeChannel(w)
    BY <1>1, <1>2, <1>3, <2>3, CloseStep
  <2> QED BY <2>1, <2>2, <2>3 DEF applicationActs, applicationCloses
<1>5. calls' \in 0 .. MaxCalls
  <2>1. calls \in 0 .. MaxCalls /\ MaxCalls \in Nat
    BY <1>1, DispatcherAssumption DEF Rest, BoundsOK
  <2>2. calls' = calls \/ (calls < MaxCalls /\ calls' = calls + 1)
    BY DEF applicationActs, applicationCloses, boundVars
  <2> QED BY <2>1, <2>2
<1>6. Rest' /\ IdleHasNoWork'
  BY <1>1, <1>2, <1>5 DEF Rest, EventsOK, FocusOK, WaitOK, BoundsOK, IdleHasNoWork,
                          queueVars, focusVars, waitVars
<1> QED BY <1>4, <1>6, IInvNext
-----------------------------------------------------------------------------
(* The invariant.                                                           *)

LEMMA NextKeeps ==
    ASSUME IInv, Next
    PROVE  IInv'
<1>1. CASE dispatchOnce
  BY <1>1, IdleSteps, PendingSteps, DoneSteps DEF dispatchOnce
<1>2. CASE runCommand
  <2>1. CASE doDispatchCycleFinished
    BY <2>1, FinishedStep
  <2>2. CASE commandCallsPolicy
    BY <2>2, SimpleCommands DEF commandCallsPolicy
  <2>3. CASE doNotifyInputChannelBroken
    <3>1. dispatcher.pc = "commands" \/ dispatcher.pc = "policy"
      BY <2>3 DEF doNotifyInputChannelBroken
    <3> QED BY <2>3, <3>1, SimpleCommands, BrokenStep
  <2> QED BY <1>2, <2>1, <2>2, <2>3 DEF runCommand
<1>3. CASE policyAnswers
  BY <1>3, InterceptStep, AnrStep, CancelFallbackStep, AskFallbackStep DEF policyAnswers
<1>4. CASE pollCallback
  BY <1>4, ReceiveStep, HangupStep DEF pollCallback
<1>5. ASSUME NEW k \in Key, NEW passToUser \in BOOLEAN, notifyKey(k, passToUser)
      PROVE  IInv'
  BY <1>5, NotifyStep
<1>6. ASSUME NEW i \in Injector, NEW k \in Key, NEW action \in {"DOWN", "UP"},
             NEW passToUser \in BOOLEAN,
             NEW mode \in {"NONE", "WAIT_FOR_RESULT", "WAIT_FOR_FINISHED"},
             injectInputEvent(i, k, action, passToUser, mode)
      PROVE  IInv'
  BY <1>6, InjectStep
<1>7. ASSUME NEW i \in Injector, injectionChecks(i) \/ injectionTimesOut(i)
      PROVE  IInv'
  BY <1>7, InjectorSteps
<1>8. ASSUME NEW focus \in Window \cup {NoWindow}, NEW pause \in BOOLEAN,
             setInputWindows(focus, pause)
      PROVE  IInv'
  BY <1>8, WindowsStep
<1>9. ASSUME NEW app \in App \cup {NoApp}, setFocusedApplication(app)
      PROVE  IInv'
  BY <1>9, ApplicationStep
<1>10. ASSUME NEW enabled \in BOOLEAN, NEW frozen \in BOOLEAN,
              setInputDispatchMode(enabled, frozen)
       PROVE  IInv'
  BY <1>10, ModeStep
<1>11. CASE setInputFilterEnabled
  BY <1>11, FilterStep
<1>12. ASSUME NEW w \in Window, registerInputChannel(w) \/ unregisterInputChannel(w)
       PROVE  IInv'
  BY <1>12, RegisterStep, UnregisterStep
<1>13. ASSUME NEW w \in Window, applicationActs(w) \/ applicationCloses(w)
       PROVE  IInv'
  BY <1>13, ApplicationSteps
<1> QED BY <1>1, <1>2, <1>3, <1>4, <1>5, <1>6, <1>7, <1>8, <1>9, <1>10, <1>11, <1>12,
           <1>13 DEF Next

LEMMA StutterKeeps ==
    ASSUME IInv, UNCHANGED vars
    PROVE  IInv'
<1>1. Core /\ Rest /\ IdleHasNoWork
  BY IInvParts
<1>2. UNCHANGED <<focusVars, waitVars, queueVars, worldVars, boundVars, peerVars,
                  dispatcher, woken>>
  BY DEF vars
<1>3. mFocusedWindowHandle' = mFocusedWindowHandle /\ mCommandQueue' = mCommandQueue
  BY <1>2 DEF focusVars, worldVars
<1>4. Core'
  BY <1>1, <1>2, <1>3, WorldStays
<1>5. Rest' /\ IdleHasNoWork'
  BY <1>1, <1>2, <1>3 DEF Rest, EventsOK, FocusOK, WaitOK, BoundsOK, IdleHasNoWork,
                          queueVars, focusVars, waitVars, boundVars
<1> QED BY <1>4, <1>5, IInvNext

LEMMA InitGood ==
    ASSUME Init
    PROVE  Good(World, Peers, NoCommand, {mFocusedWindowHandle}, {})
<1> DEFINE s == World
           p == Peers
           Q == {mFocusedWindowHandle}
           z == <<>>
<1>1. PICK registered \in SUBSET Window : connection = [w \in Window |->
          [status |-> IF w \in registered THEN "NORMAL" ELSE "NONE",
           blocked |-> FALSE, outboundQueue |-> z, waitQueue |-> z,
           mKeyMementos |-> z, mFallbackKeys |-> [k \in Key |-> "none"]]]
  BY DEF Init
<1>2. /\ pipe = [w \in Window |-> z] /\ received = [w \in Window |-> z]
      /\ down = [w \in Window |-> {}] /\ signals = [w \in Window |-> z]
      /\ mCommandQueue = z /\ sNextSeq = 1
      /\ injection = [i \in Injector |->
            [pc |-> "idle", mode |-> "NONE", result |-> "PENDING", pending |-> 0]]
  BY DEF Init, ChannelInit
<1>3. /\ s.connection = connection /\ s.commands = mCommandQueue /\ s.injection = injection
      /\ s.seq = sNextSeq /\ s.pipe = pipe /\ p.received = received /\ p.down = down
      /\ p.signals = signals
      /\ s = [connection |-> connection, commands |-> mCommandQueue,
              injection |-> injection, seq |-> sNextSeq, pipe |-> pipe]
  BY DEF World, Peers
<1>4. /\ z \in Seq(DispatchEntry) /\ z \in Seq([key : KeyCode, fallback : BOOLEAN])
      /\ z \in Seq(Command) /\ z \in Seq(Memento) /\ DOMAIN z = {} /\ Len(z) = 0 /\ z \o z = z
      /\ Seqs(z) = {} /\ Unique(z) /\ Plain(z) /\ KeysOf(z) = {} /\ ToSet(z) = {}
  BY Empty DEF KeysOf, ToSet
<1> HIDE DEF s, p, Q, z
<1>5. ASSUME NEW w \in Window
      PROVE  /\ connection[w] \in Connection /\ connection[w].status \in {"NORMAL", "NONE"}
             /\ connection[w].blocked = FALSE /\ connection[w].outboundQueue = z
             /\ connection[w].waitQueue = z /\ connection[w].mKeyMementos = z
  <2> DEFINE f == [k \in Key |-> "none"]
  <2>1. f \in [Key -> FallbackCode]
    BY DEF FallbackCode
  <2>2. connection[w] = [status |-> IF w \in registered THEN "NORMAL" ELSE "NONE",
           blocked |-> FALSE, outboundQueue |-> z, waitQueue |-> z,
           mKeyMementos |-> z, mFallbackKeys |-> f]
    BY <1>1
  <2> HIDE DEF f
  <2> QED BY <1>4, <2>1, <2>2 DEF Connection
<1>6. connection \in [Window -> Connection]
  <2>1. DOMAIN connection = Window /\ connection = [w \in Window |-> connection[w]]
    BY <1>1
  <2> QED BY <1>5, <2>1
<1>7. injection \in [Injector -> InjectionState] /\ \A i \in Injector : injection[i].pending = 0
  BY <1>2 DEF InjectionState
<1>8. s \in WorldType
  <2>1. pipe \in [Window -> Seq(DispatchEntry)] /\ mCommandQueue \in Seq(Command)
        /\ sNextSeq \in Nat \ {0}
    BY <1>2, <1>4
  <2> QED BY <1>3, <1>6, <1>7, <2>1 DEF WorldType
<1>9. Counted(s)
  <2> SUFFICES ASSUME NEW i \in Injector
               PROVE  /\ IsFiniteSet(Foreground(s, i))
                      /\ s.injection[i].pending = Cardinality(Foreground(s, i))
    BY DEF Counted
  <2>1. ASSUME NEW w \in Window PROVE Dispatches(s, w, i) = {}
    <3>1. s.connection[w] \in Connection
      BY <1>3, <1>5
    <3>2. Dispatches(s, w, i) = ForegroundOf(w, Entries(s.connection[w]), i)
      BY <3>1, DispatchesOf
    <3>3. Entries(s.connection[w]) = {}
      BY <1>3, <1>4, <1>5 DEF Entries
    <3> QED BY <3>2, <3>3 DEF ForegroundOf
  <2>2. Foreground(s, i) = {}
    BY <2>1 DEF Foreground
  <2> QED BY <1>3, <1>7, <2>2, FS_EmptySet
<1>10. ASSUME NEW w \in Window PROVE WindowOK(s, p, NoCommand, Q, {}, w)
  <2> DEFINE c == s.connection[w]
  <2>1. /\ c.outboundQueue = z /\ c.waitQueue = z /\ c.mKeyMementos = z /\ c.blocked = FALSE
        /\ s.pipe[w] = z /\ p.received[w] = z /\ p.signals[w] = z /\ p.down[w] = {}
        /\ s.commands = z
    <3>1. s.connection[w] = connection[w] /\ s.commands = mCommandQueue /\ s.pipe[w] = pipe[w]
      BY <1>3
    <3>2. p.received[w] = received[w] /\ p.signals[w] = signals[w] /\ p.down[w] = down[w]
      BY <1>3
    <3>3. /\ pipe[w] = z /\ received[w] = z /\ signals[w] = z /\ down[w] = {}
          /\ mCommandQueue = z
      BY <1>2
    <3>4. /\ connection[w].blocked = FALSE /\ connection[w].outboundQueue = z
          /\ connection[w].waitQueue = z /\ connection[w].mKeyMementos = z
      BY <1>5
    <3> QED BY <3>1, <3>2, <3>3, <3>4, Zenon
  <2> HIDE DEF c
  <2>2. FinishSeqs(z, w) = {} /\ FinishOnce(z, w)
    BY <1>4 DEF FinishSeqs, FinishOnce
  <2>3. QueuesOK(c, s.seq)
    BY <1>4, <2>1 DEF QueuesOK
  <2>4. MementosOK(c, w \in Q)
    BY <1>4, <2>1 DEF MementosOK, Mementos, z
  <2>5. Len(s.pipe[w]) <= PipeSize
    BY <1>4, <2>1, ChannelAssumption
  <2>6. UnusedOK(s, p, w)
    BY <2>1, <2>2 DEF UnusedOK, z, c
  <2>7. PlacesOK(s, p, NoCommand, w)
    <3>1. InHand(NoCommand, w) = {}
      BY NoHand
    <3>2. Parts({}, {}, {}, {}, {}, {})
      BY DEF Parts
    <3> QED BY <1>4, <2>1, <2>2, <3>1, <3>2 DEF PlacesOK, c
  <2>8. BlockedOK(s, p, w) /\ StartedOK(c, w \in {})
    BY <2>1 DEF BlockedOK, StartedOK, c, z
  <2>9. KeysOK(s, p, w)
    <3>1. KeysAfter({}, z) = {}
      BY <1>4 DEF KeysAfter
    <3> QED BY <1>4, <2>1, <3>1 DEF KeysOK, c
  <2>10. LiveOK(s, p, NoCommand, {}, w)
    BY <2>7, <2>8, <2>9 DEF LiveOK, c
  <2> QED BY <2>3, <2>4, <2>5, <2>6, <2>10 DEF WindowOK, c
<1>11. Good(s, p, NoCommand, Q, {})
  BY <1>8, <1>9, <1>10, NoHand DEF Good
<1> QED BY <1>11 DEF s, p, Q

LEMMA InitIInv ==
    ASSUME Init
    PROVE  IInv
<1> DEFINE d == [pc |-> "poll", timeout |-> "now", command |-> NoCommand,
                 hangup |-> NoWindow]
<1>1. dispatcher = d
  BY DEF Init
<1>2. d \in DispatcherType /\ d.pc = "poll" /\ d.timeout = "now" /\ d.command = NoCommand
  BY DEF DispatcherType
<1> HIDE DEF d
<1>3. ThreadOK /\ IdleHasNoWork
  BY <1>1, <1>2, NoCommandOK DEF ThreadOK, IdleHasNoWork
<1>4. Peers \in PeersType
  <2> DEFINE z == <<>>
  <2>1. /\ received = [w \in Window |-> z] /\ down = [w \in Window |-> {}]
        /\ signals = [w \in Window |-> z] /\ open = Window
        /\ z \in Seq(DispatchEntry) /\ z \in Seq([seq : Nat \ {0}, handled : BOOLEAN])
    BY DEF Init, ChannelInit
  <2> HIDE DEF z
  <2> QED BY <2>1 DEF Peers, PeersType
<1>5. Core
  BY <1>1, <1>2, <1>3, <1>4, InitGood DEF Core
<1>6. Rest
  <2>1. EventsOK
    BY DEF Init, EventsOK
  <2>2. FocusOK
    BY Zenon DEF Init, FocusOK
  <2>3. WaitOK
    BY DEF Init, WaitOK
  <2>4. BoundsOK
    <3>1. keys = 0 /\ held = {} /\ calls = 0 /\ delays = 0
      BY DEF Init
    <3> QED BY <3>1, DispatcherAssumption DEF BoundsOK
  <2>5. woken \in BOOLEAN
    BY Zenon DEF Init
  <2> QED BY <2>1, <2>2, <2>3, <2>4, <2>5 DEF Rest
<1> QED BY <1>3, <1>5, <1>6, IInvParts

\* IInv is an invariant of the dispatcher and its channels: every step of the
\* thread, of another thread and of an application keeps it.
THEOREM InputInvariant == Spec => []IInv
<1>1. Init => IInv
  BY InitIInv
<1>2. IInv /\ [Next]_vars => IInv'
  BY NextKeeps, StutterKeeps
<1> QED BY <1>1, <1>2, PTL DEF Spec

\* The members keep their types, the socket of a channel never overflows and
\* pendingForegroundDispatches never falls below 0.
THEOREM InputTypeOK == Spec => []TypeOK
<1>1. IInv => TypeOK
  BY DEF IInv
<1> QED BY <1>1, InputInvariant, PTL

\* The thread does not sleep in pollOnce without a timer while a command or an
\* event waits: each caller that makes work also wakes it.
THEOREM IdleThread == Spec => []IdleHasNoWork
<1>1. IInv => IdleHasNoWork
  BY DEF IInv
<1> QED BY <1>1, InputInvariant, PTL

\* pendingForegroundDispatches is the number of the entries of the injected
\* event in the queues of all windows: what drainDispatchQueueLocked and
\* releaseDispatchEntryLocked take off is what enqueueDispatchEntryLocked put on.
THEOREM CountedDispatches == Spec => []DispatchesCounted
<1>1. IInv => DispatchesCounted
  BY DEF IInv, Good, Counted, World, DispatchesCounted
<1> QED BY <1>1, InputInvariant, PTL

\* What the invariant says of a live window.
LEMMA LiveFacts ==
    ASSUME IInv, NEW w \in Window, Live(w)
    PROVE  /\ PlacesOK(World, Peers, dispatcher.command, w) /\ BlockedOK(World, Peers, w)
           /\ StartedOK(connection[w], FALSE) /\ KeysOK(World, Peers, w)
           /\ MementosOK(connection[w], w = mFocusedWindowHandle)
<1>1. WindowOK(World, Peers, dispatcher.command, {mFocusedWindowHandle}, {}, w)
  BY DEF IInv, Good
<1>2. IsLive(World, Peers, w) /\ World.connection = connection
  BY DEF Live, IsLive, World, Peers
<1>3. /\ PlacesOK(World, Peers, dispatcher.command, w) /\ BlockedOK(World, Peers, w)
      /\ StartedOK(World.connection[w], w \in {}) /\ KeysOK(World, Peers, w)
      /\ MementosOK(World.connection[w], w \in {mFocusedWindowHandle})
  BY <1>1, <1>2 DEF WindowOK, LiveOK
<1>4. /\ StartedOK(connection[w], FALSE)
      /\ MementosOK(connection[w], w = mFocusedWindowHandle)
  BY <1>2, <1>3 DEF StartedOK, MementosOK
<1> QED BY <1>3, <1>4

\* When the focus has left a window, no key of a device or an injector is down
\* there once its application has read what setInputWindows and the other
\* callers of synthesizeCancelationEventsForConnectionLocked have sent.
THEOREM KeysReleased == Spec => []NoKeyLeftDown
<1>1. ASSUME IInv, NEW w \in Window, Live(w), w # mFocusedWindowHandle
      PROVE  AppView(w) \cap Key = {}
  <2>1. /\ KeysOK(World, Peers, w) /\ MementosOK(connection[w], w = mFocusedWindowHandle)
    BY <1>1, LiveFacts
  <2>2. connection[w].mKeyMementos = <<>>
    BY <1>1, <2>1 DEF MementosOK, Live
  <2>3. KeysOf(connection[w].mKeyMementos) = {}
    BY <2>2 DEF KeysOf
  <2>4. AppView(w) \cap Key \subseteq KeysOf(connection[w].mKeyMementos)
    BY <2>1 DEF KeysOK, World, Peers, AppView
  <2> QED BY <2>3, <2>4
<1>2. IInv => NoKeyLeftDown
  BY <1>1 DEF NoKeyLeftDown
<1> QED BY <1>2, InputInvariant, PTL

\* Each entry of a wait queue is in one place: the socket, the application, a
\* finished signal, a command or doDispatchCycleFinished's call to the policy.
THEOREM WaitQueueMatches == Spec => []WaitQueueMatchesApp
<1>1. ASSUME IInv, NEW w \in Window, Live(w)
      PROVE  LET parts == <<Seqs(pipe[w]), Seqs(received[w]), Seqs(signals[w]),
                            FinishSeqs(mCommandQueue, w), InPolicy(w)>>
             IN  /\ UNION ToSet(parts) = Seqs(connection[w].waitQueue)
                 /\ \A m, n \in DOMAIN parts : m # n => parts[m] \cap parts[n] = {}
  <2> DEFINE P == Seqs(pipe[w])
             R == Seqs(received[w])
             G == Seqs(signals[w])
             F == FinishSeqs(mCommandQueue, w)
             H == InPolicy(w)
             W == Seqs(connection[w].waitQueue)
             parts == <<P, R, G, F, H>>
  <2>1. PlacesOK(World, Peers, dispatcher.command, w)
    BY <1>1, LiveFacts
  <2>2. InHand(dispatcher.command, w) = InPolicy(w)
    BY DEF InHand, InPolicy, IsHand
  <2>3. Parts(P, R, G, F, H, W)
    BY <2>1, <2>2 DEF PlacesOK, World, Peers
  <2> HIDE DEF P, R, G, F, H, W
  <2>4. /\ DOMAIN parts = 1 .. 5 /\ parts[1] = P /\ parts[2] = R /\ parts[3] = G
        /\ parts[4] = F /\ parts[5] = H
    OBVIOUS
  <2> HIDE DEF parts
  <2>5. ToSet(parts) = {P, R, G, F, H}
    BY <2>4 DEF ToSet
  <2>6. UNION ToSet(parts) = W
    BY <2>3, <2>5 DEF Parts
  <2>7. ASSUME NEW m \in DOMAIN parts, NEW n \in DOMAIN parts, m # n
        PROVE  parts[m] \cap parts[n] = {}
    <3>1. m \in {1, 2, 3, 4, 5} /\ n \in {1, 2, 3, 4, 5}
      BY <2>4
    <3> QED BY <2>3, <2>4, <2>7, <3>1 DEF Parts
  <2> QED BY <2>6, <2>7 DEF parts, P, R, G, F, H, W
<1>2. IInv => WaitQueueMatchesApp
  BY <1>1 DEF WaitQueueMatchesApp
<1> QED BY <1>2, InputInvariant, PTL

\* A blocked publisher, or an outbound queue that is not empty, has an entry in
\* the wait queue whose finished signal starts the next dispatch cycle.
THEOREM BlockedReleased == Spec => []BlockedIsReleased
<1>1. ASSUME IInv, NEW w \in Window, Live(w),
             connection[w].blocked \/ connection[w].outboundQueue # <<>>
      PROVE  connection[w].waitQueue # <<>>
  <2>1. /\ PlacesOK(World, Peers, dispatcher.command, w) /\ BlockedOK(World, Peers, w)
        /\ StartedOK(connection[w], FALSE)
    BY <1>1, LiveFacts
  <2>2. CASE connection[w].outboundQueue # <<>>
    BY <2>1, <2>2 DEF StartedOK
  <2>3. CASE connection[w].blocked
    <3>1. pipe[w] # <<>> \/ received[w] # <<>> \/ signals[w] # <<>>
      BY <2>1, <2>3 DEF BlockedOK, World, Peers
    <3>2. /\ pipe[w] \in Seq(DispatchEntry) /\ received[w] \in Seq(DispatchEntry)
          /\ signals[w] \in Seq(Signal)
      BY <1>1 DEF IInv, TypeOK, ChannelTypeOK, Signal
    <3>3. ASSUME NEW S, NEW q \in Seq(S), q # <<>> PROVE Seqs(q) # {}
      <4>1. DOMAIN q # {}
        BY <3>3, NoDomain
      <4> QED BY <4>1 DEF Seqs
    <3>4. Seqs(pipe[w]) # {} \/ Seqs(received[w]) # {} \/ Seqs(signals[w]) # {}
      BY <3>1, <3>2, <3>3
    <3>5. Seqs(connection[w].waitQueue) # {}
      BY <2>1, <3>4 DEF PlacesOK, Parts, World, Peers
    <3> QED BY <3>5, Empty
  <2> QED BY <1>1, <2>2, <2>3
<1>2. IInv => BlockedIsReleased
  BY <1>1 DEF BlockedIsReleased
<1> QED BY <1>2, InputInvariant, PTL
=============================================================================
