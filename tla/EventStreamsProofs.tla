-------------------------- MODULE EventStreamsProofs --------------------------
(***************************************************************************)
(* Proofs about EventStreams, for any set of runs and resolvers, any       *)
(* number of events of a run, and consumers of every kind side by side:    *)
(* what a frontend sees of its run is in order and, if it subscribed       *)
(* first, complete; a stream that ends leaves nothing behind; and the      *)
(* WebSocket implements RunFeed.                                           *)
(*                                                                         *)
(* The events of a run are a line of numbers 1..Last with the None of      *)
(* end_run as Last + 1.  The inductive invariant says that each station    *)
(* of a stream - what was received, the consumer's queue, the run's queue  *)
(* - holds the next stretch of that line.                                  *)
(***************************************************************************)
EXTENDS EventStreams, SequenceTheorems, FiniteSetTheorems, TLAPS

\* The place of an item in the line of the run c; 0 if it has none.
No(c, x) ==
    IF x[1] # c \/ x[2] \notin 0..Last THEN 0
    ELSE IF x[2] = Sentinel THEN Last + 1 ELSE x[2]

\* The events of c in s are those after lo up to hi, in order and once.
Stretch(c, s, lo, hi) ==
    /\ lo <= hi
    /\ \A i \in 1..Len(s) : No(c, s[i]) # 0 => lo < No(c, s[i]) /\ No(c, s[i]) <= hi
    /\ \A i, j \in 1..Len(s) :
         i < j /\ No(c, s[i]) # 0 /\ No(c, s[j]) # 0 => No(c, s[i]) < No(c, s[j])
    /\ \A n \in (lo + 1)..hi : \E i \in 1..Len(s) : No(c, s[i]) = n

Tagged(c, s) == [i \in 1..Len(s) |-> <<c, s[i]>>]
OwnIn(c, s) == {i \in 1..Len(s) : No(c, s[i]) \in 1..Last}
Count(c, s) == Cardinality(OwnIn(c, s))

Calling(p) == pub[p].at = "calling"

\* How far the worker of c has put events into its queue, and how far a
\* listener c has been called.
QueuedUpTo(c) ==
    IF worker[c] = "ended" THEN Last + 1
    ELSE IF Calling(c) THEN published[c] - 1 ELSE published[c]
HeardUpTo(c) ==
    IF Calling(c) /\ c \in pub[c].calls THEN published[c] - 1 ELSE published[c]

\* Who publishes what, and to whom.
PubInv ==
    /\ \A r \in Runs :
         /\ pub[r] # DonePub
         /\ Calling(r) => /\ pub[r].run = r /\ pub[r].event = published[r]
                          /\ published[r] # 0 /\ worker[r] = "running"
         /\ worker[r] = "none" => published[r] = 0
         /\ worker[r] = "ended" => published[r] = Last
    /\ \A p \in Resolvers : Calling(p) => pub[p].event = Resolved
    /\ \A p \in Publishers : Calling(p) => \A c \in pub[p].calls :
         /\ style[c] # "ws" /\ con[c] \notin {"idle", "started"}
         /\ con[c] = "closed" \/ c \in listeners

\* Where a consumer is, and what it holds in the bus.
PlaceInv(c) ==
    /\ con[c] \in CASE style[c] = "ws" -> {"idle", "open", "closed"}
                    [] style[c] = "sse" -> {"idle", "subscribed", "open", "closing", "closed"}
                    [] style[c] = "inproc" -> {"idle", "started", "open", "closing", "closed"}
    /\ con[c] \in {"idle", "subscribed"} => worker[c] = "none"
    /\ con[c] \in {"started", "open", "closing"} => worker[c] # "none"
    /\ con[c] = "closed" /\ worker[c] = "none" => style[c] = "sse" /\ c \in left
    /\ ~hasQueue[c] => queue[c] = <<>>
    /\ con[c] = "closed" => ~hasQueue[c]
    /\ c \in listeners <=> /\ style[c] # "ws"
                           /\ con[c] \notin {"idle", "started"}
                           /\ con[c] = "closed" => worker[c] = "none"

WsInv(c) ==
    LET d == Count(c, out[c]) IN
    /\ d <= Last
    /\ Stretch(c, out[c], 0, d)
    /\ \A i \in 1..Len(inbox[c]) : inbox[c][i][1] = c
    /\ con[c] = "idle" => c \notin left /\ inbox[c] = <<>> /\ out[c] = <<>>
    /\ con[c] = "open" =>
         /\ hasQueue[c] /\ (Calling(c) => pub[c].queued)
         /\ c \notin left /\ d < Last
         /\ \E f \in Nat : /\ Stretch(c, inbox[c], d, f)
                           /\ Stretch(c, Tagged(c, queue[c]), f, QueuedUpTo(c))
    /\ con[c] = "closed" =>
         /\ c \in left \/ d = Last
         /\ \A i \in 1..Len(inbox[c]) : No(c, inbox[c][i]) \notin 1..Last

SseInv(c) ==
    LET d == Count(c, out[c]) IN
    /\ d <= Last
    /\ Stretch(c, out[c], 0, d)
    /\ con[c] = "idle" => out[c] = <<>>
    /\ c \in listeners => d = HeardUpTo(c)
    /\ c \notin left =>
         /\ con[c] \in {"closing", "closed"} => d = Last
         /\ con[c] = "open" => \A i \in 1..Len(queue[c]) :
              queue[c][i] \in {Sentinel, Last} => d = Last

InprocInv(c) ==
    LET d == Count(c, out[c]) IN
    /\ con[c] \in {"idle", "started"} => inbox[c] = <<>> /\ out[c] = <<>>
    /\ con[c] \notin {"idle", "started"} =>
         \E k \in Nat :
           /\ k + d <= Last
           /\ Stretch(c, out[c], k, k + d)
           /\ con[c] = "open" => Stretch(c, inbox[c], k + d, HeardUpTo(c))

StreamInv(c) ==
    /\ PlaceInv(c)
    /\ style[c] = "ws" => WsInv(c)
    /\ style[c] = "sse" => SseInv(c)
    /\ style[c] = "inproc" => InprocInv(c)

StreamsInv == TypeOK /\ PubInv /\ \A c \in Runs : StreamInv(c)

-----------------------------------------------------------------------------
(* Stretches of the line.                                                  *)

LEMMA NoIsNat ==
  ASSUME NEW c, NEW x
  PROVE  No(c, x) \in Nat
BY StreamsAssumption DEF No, Sentinel

\* An item beyond the line's end or beside the line changes no stretch.
LEMMA StretchBeside ==
  ASSUME NEW c, NEW S, NEW s \in Seq(S), NEW x \in S, NEW lo \in Nat, NEW hi \in Nat,
         Stretch(c, s, lo, hi), No(c, x) = 0
  PROVE  Stretch(c, Append(s, x), lo, hi)
<1>0. PICK t : t = Append(s, x)
  OBVIOUS
<1>1. /\ Len(t) = Len(s) + 1
      /\ \A i \in 1..Len(s) : t[i] = s[i]
      /\ t[Len(s) + 1] = x
      /\ Len(s) \in Nat
  BY <1>0, AppendProperties, LenProperties
<1>2. \A i \in 1..Len(t) : \/ i \in 1..Len(s) /\ t[i] = s[i]
                           \/ i = Len(s) + 1 /\ t[i] = x
  BY <1>1
<1>3. \A i \in 1..Len(s) : i \in 1..Len(t) /\ t[i] = s[i]
  BY <1>1
<1>4. Stretch(c, t, lo, hi)
  BY <1>2, <1>3 DEF Stretch
<1> QED
  BY <1>0, <1>4

LEMMA StretchNext ==
  ASSUME NEW c, NEW S, NEW s \in Seq(S), NEW x \in S, NEW lo \in Nat, NEW hi \in Nat,
         Stretch(c, s, lo, hi), No(c, x) = hi + 1
  PROVE  Stretch(c, Append(s, x), lo, hi + 1)
<1>0. PICK t : t = Append(s, x)
  OBVIOUS
<1>1. /\ Len(t) = Len(s) + 1
      /\ \A i \in 1..Len(s) : t[i] = s[i]
      /\ t[Len(s) + 1] = x
      /\ Len(s) \in Nat
  BY <1>0, AppendProperties, LenProperties
<1>2. \A i \in 1..Len(t) : \/ i \in 1..Len(s) /\ t[i] = s[i]
                           \/ i = Len(s) + 1 /\ t[i] = x
  BY <1>1
<1>3. \A i \in 1..Len(s) : i \in 1..Len(t) /\ t[i] = s[i]
  BY <1>1
<1>4. Len(s) + 1 \in 1..Len(t) /\ t[Len(s) + 1] = x
  BY <1>1
<1>5. \A i \in 1..Len(t) : No(c, t[i]) # 0 => lo < No(c, t[i]) /\ No(c, t[i]) <= hi + 1
  BY <1>2, NoIsNat DEF Stretch
<1>6. \A i, j \in 1..Len(t) :
        i < j /\ No(c, t[i]) # 0 /\ No(c, t[j]) # 0 => No(c, t[i]) < No(c, t[j])
  <2> SUFFICES ASSUME NEW i \in 1..Len(t), NEW j \in 1..Len(t), i < j,
                      No(c, t[i]) # 0, No(c, t[j]) # 0
               PROVE  No(c, t[i]) < No(c, t[j])
    OBVIOUS
  <2>1. i \in 1..Len(s) /\ t[i] = s[i]
    BY <1>1
  <2>2. CASE j \in 1..Len(s)
    BY <1>1, <2>1, <2>2 DEF Stretch
  <2>3. CASE j = Len(s) + 1
    <3>1. No(c, t[i]) <= hi
      BY <2>1 DEF Stretch
    <3> QED
      BY <1>0, <1>1, <2>3, <3>1, NoIsNat
  <2> QED
    BY <1>1, <2>2, <2>3
<1>7. \A n \in (lo + 1)..(hi + 1) : \E i \in 1..Len(t) : No(c, t[i]) = n
  <2> TAKE n \in (lo + 1)..(hi + 1)
  <2>1. CASE n = hi + 1
    BY <1>0, <1>4, <2>1
  <2>2. CASE n # hi + 1
    BY <1>3, <2>2 DEF Stretch
  <2> QED
    BY <2>1, <2>2
<1>8. Stretch(c, t, lo, hi + 1)
  BY <1>5, <1>6, <1>7 DEF Stretch
<1> QED
  BY <1>0, <1>8

LEMMA TailAt ==
  ASSUME NEW S, NEW s \in Seq(S), s # <<>>
  PROVE  /\ Tail(s) \in Seq(S) /\ Head(s) = s[1] /\ Head(s) \in S
         /\ Len(s) \in Nat \ {0} /\ Len(Tail(s)) = Len(s) - 1
         /\ \A i \in 1..Len(Tail(s)) : i + 1 \in 1..Len(s) /\ Tail(s)[i] = s[i + 1]
         /\ \A i \in 1..Len(s) : i # 1 => i - 1 \in 1..Len(Tail(s)) /\ Tail(s)[i - 1] = s[i]
BY HeadTailProperties, EmptySeq, LenProperties

LEMMA StretchRest ==
  ASSUME NEW c, NEW S, NEW s \in Seq(S), s # <<>>, NEW lo \in Nat, NEW hi \in Nat,
         Stretch(c, s, lo, hi)
  PROVE  /\ No(c, Head(s)) = 0 => Stretch(c, Tail(s), lo, hi)
         /\ No(c, Head(s)) # 0 => /\ No(c, Head(s)) = lo + 1 /\ lo < hi
                                  /\ Stretch(c, Tail(s), lo + 1, hi)
<1> DEFINE t == Tail(s)
<1>0. /\ Head(s) = s[1] /\ 1 \in 1..Len(s) /\ Len(s) \in Nat
      /\ \A i \in 1..Len(t) : i + 1 \in 1..Len(s) /\ t[i] = s[i + 1]
      /\ \A i \in 1..Len(s) : i # 1 => i - 1 \in 1..Len(t) /\ t[i - 1] = s[i]
      /\ Len(t) \in Nat
  BY TailAt
<1> HIDE DEF t
<1>1. CASE No(c, Head(s)) = 0
  <2>1. \A n \in (lo + 1)..hi : \E i \in 1..Len(t) : No(c, t[i]) = n
    <3> TAKE n \in (lo + 1)..hi
    <3>1. PICK i \in 1..Len(s) : No(c, s[i]) = n
      BY DEF Stretch
    <3> QED
      BY <1>0, <1>1, <3>1
  <2>2. \A i \in 1..Len(t) : No(c, t[i]) # 0 => lo < No(c, t[i]) /\ No(c, t[i]) <= hi
    BY <1>0 DEF Stretch
  <2>3. \A i, j \in 1..Len(t) :
          i < j /\ No(c, t[i]) # 0 /\ No(c, t[j]) # 0 => No(c, t[i]) < No(c, t[j])
    <3> SUFFICES ASSUME NEW i \in 1..Len(t), NEW j \in 1..Len(t), i < j,
                        No(c, t[i]) # 0, No(c, t[j]) # 0
                 PROVE  No(c, t[i]) < No(c, t[j])
      OBVIOUS
    <3> QED
      BY <1>0, i + 1 < j + 1 DEF Stretch
  <2>4. Stretch(c, t, lo, hi)
    BY <2>1, <2>2, <2>3 DEF Stretch
  <2> QED
    BY <1>1, <2>4 DEF t
<1>2. CASE No(c, Head(s)) # 0
  <2>1. lo < No(c, s[1]) /\ No(c, s[1]) <= hi /\ No(c, s[1]) \in Nat
    BY <1>0, <1>2, NoIsNat DEF Stretch
  <2>2. PICK i \in 1..Len(s) : No(c, s[i]) = lo + 1
    BY <2>1 DEF Stretch
  <2>3. No(c, s[1]) = lo + 1
    <3>1. CASE i = 1
      BY <2>2, <3>1
    <3>2. CASE i # 1
      <4>1. No(c, s[1]) < No(c, s[i])
        BY <1>0, <1>2, <2>2, <3>2 DEF Stretch
      <4> QED
        BY <4>1, <2>1, <2>2
    <3> QED
      BY <3>1, <3>2
  <2>4. \A m \in 1..Len(t) : No(c, t[m]) # 0 => lo + 1 < No(c, t[m]) /\ No(c, t[m]) <= hi
    <3> SUFFICES ASSUME NEW m \in 1..Len(t), No(c, t[m]) # 0
                 PROVE  lo + 1 < No(c, t[m]) /\ No(c, t[m]) <= hi
      OBVIOUS
    <3>1. No(c, s[1]) < No(c, s[m + 1]) /\ No(c, s[m + 1]) <= hi
      BY <1>0, <1>2 DEF Stretch
    <3> QED
      BY <1>0, <2>3, <3>1
  <2>5. \A m, n \in 1..Len(t) :
          m < n /\ No(c, t[m]) # 0 /\ No(c, t[n]) # 0 => No(c, t[m]) < No(c, t[n])
    <3> SUFFICES ASSUME NEW m \in 1..Len(t), NEW n \in 1..Len(t), m < n,
                        No(c, t[m]) # 0, No(c, t[n]) # 0
                 PROVE  No(c, t[m]) < No(c, t[n])
      OBVIOUS
    <3> QED
      BY <1>0, m + 1 < n + 1 DEF Stretch
  <2>6. \A n \in (lo + 2)..hi : \E m \in 1..Len(t) : No(c, t[m]) = n
    <3> TAKE n \in (lo + 2)..hi
    <3>1. PICK m \in 1..Len(s) : No(c, s[m]) = n
      BY DEF Stretch
    <3> QED
      BY <1>0, <2>3, <3>1
  <2>7. Stretch(c, t, lo + 1, hi)
    BY <2>1, <2>3, <2>4, <2>5, <2>6 DEF Stretch
  <2> QED
    BY <1>0, <1>2, <2>1, <2>3, <2>7 DEF t
<1> QED
  BY <1>1, <1>2

LEMMA StretchEmpty ==
  ASSUME NEW c, NEW k \in Nat
  PROVE  Stretch(c, <<>>, k, k)
BY EmptySeq DEF Stretch

\* Counting what was received.
LEMMA CountAppend ==
  ASSUME NEW c, NEW S, NEW s \in Seq(S), NEW x \in S
  PROVE  /\ Count(c, s) \in Nat
         /\ No(c, x) \notin 1..Last => Count(c, Append(s, x)) = Count(c, s)
         /\ No(c, x) \in 1..Last => Count(c, Append(s, x)) = Count(c, s) + 1
<1>0. PICK t : t = Append(s, x)
  OBVIOUS
<1>1. /\ Len(t) = Len(s) + 1
      /\ \A i \in 1..Len(s) : t[i] = s[i]
      /\ t[Len(s) + 1] = x
      /\ Len(s) \in Nat
  BY <1>0, AppendProperties, LenProperties
<1>2. \A i \in 1..Len(t) : \/ i \in 1..Len(s) /\ t[i] = s[i]
                           \/ i = Len(s) + 1 /\ t[i] = x
  BY <1>1
<1>3. \A i \in 1..Len(s) : i \in 1..Len(t) /\ t[i] = s[i]
  BY <1>1
<1>4. Len(s) + 1 \in 1..Len(t) /\ t[Len(s) + 1] = x
  BY <1>1
<1>5. IsFiniteSet(OwnIn(c, s))
  <2>1. IsFiniteSet(1..Len(s))
    BY <1>1, FS_Interval
  <2> QED
    BY <2>1, FS_Subset DEF OwnIn
<1>6. Count(c, s) \in Nat
  BY <1>5, FS_CardinalityType DEF Count
<1>7. ASSUME No(c, x) \notin 1..Last PROVE OwnIn(c, t) = OwnIn(c, s)
  BY <1>2, <1>3, <1>7 DEF OwnIn
<1>8. ASSUME No(c, x) \in 1..Last
      PROVE  OwnIn(c, t) = OwnIn(c, s) \cup {Len(s) + 1} /\ Len(s) + 1 \notin OwnIn(c, s)
  BY <1>1, <1>2, <1>3, <1>4, <1>8 DEF OwnIn
<1>9. ASSUME No(c, x) \in 1..Last PROVE Count(c, t) = Count(c, s) + 1
  BY <1>5, <1>8, <1>9, FS_AddElement DEF Count
<1> QED
  BY <1>0, <1>6, <1>7, <1>9 DEF Count

LEMMA CountEmpty ==
  ASSUME NEW c
  PROVE  Count(c, <<>>) = 0
<1>1. OwnIn(c, <<>>) = {}
  BY EmptySeq DEF OwnIn
<1> QED
  BY <1>1, FS_EmptySet DEF Count

\* The run's queue with the run's name on each event.
LEMMA TaggedSeq ==
  ASSUME NEW c \in Runs, NEW s \in Seq(Events)
  PROVE  /\ Tagged(c, s) \in Seq(Item) /\ Len(Tagged(c, s)) = Len(s)
         /\ \A e \in Events : Tagged(c, Append(s, e)) = Append(Tagged(c, s), <<c, e>>)
         /\ s # <<>> => /\ Tagged(c, s) # <<>>
                        /\ Head(Tagged(c, s)) = <<c, Head(s)>>
                        /\ Tagged(c, Tail(s)) = Tail(Tagged(c, s))
<1>0. ASSUME NEW r \in Seq(Events)
      PROVE  /\ Tagged(c, r) \in Seq(Item) /\ Len(Tagged(c, r)) = Len(r) /\ Len(r) \in Nat
             /\ \A i \in 1..Len(r) : Tagged(c, r)[i] = <<c, r[i]>>
  <2>1. \A i \in 1..Len(r) : <<c, r[i]>> \in Item
    BY ElementOfSeq DEF Item
  <2>2. Len(r) \in Nat
    BY LenProperties
  <2> QED
    BY <2>1, <2>2 DEF Tagged
<1>1. ASSUME NEW e \in Events
      PROVE  Tagged(c, Append(s, e)) = Append(Tagged(c, s), <<c, e>>)
  <2>0. PICK a, b : a = Append(s, e) /\ b = Append(Tagged(c, s), <<c, e>>)
    OBVIOUS
  <2>1. /\ a \in Seq(Events) /\ Len(a) = Len(s) + 1 /\ a[Len(s) + 1] = e
        /\ \A i \in 1..Len(s) : a[i] = s[i]
    BY <1>1, <2>0, AppendProperties
  <2>2. /\ b \in Seq(Item) /\ Len(b) = Len(s) + 1 /\ b[Len(s) + 1] = <<c, e>>
        /\ \A i \in 1..Len(s) : b[i] = <<c, s[i]>>
    <3>1. <<c, e>> \in Item
      BY <1>1 DEF Item
    <3>2. PICK g, x : g = Tagged(c, s) /\ x = <<c, e>>
      OBVIOUS
    <3>3. g \in Seq(Item) /\ Len(g) = Len(s) /\ \A i \in 1..Len(s) : g[i] = <<c, s[i]>>
      BY <1>0, <3>2
    <3>4. b \in Seq(Item) /\ Len(b) = Len(g) + 1 /\ b[Len(g) + 1] = x
          /\ \A i \in 1..Len(g) : b[i] = g[i]
      BY <2>0, <3>1, <3>2, <3>3, AppendProperties
    <3> QED
      BY <3>2, <3>3, <3>4
  <2>3. \A i \in 1..Len(s) + 1 : Tagged(c, a)[i] = b[i]
    <3> TAKE i \in 1..Len(s) + 1
    <3>1. Tagged(c, a)[i] = <<c, a[i]>>
      BY <1>0, <2>1
    <3>2. i \in 1..Len(s) \/ i = Len(s) + 1
      BY <1>0
    <3> QED
      BY <2>1, <2>2, <3>1, <3>2
  <2>4. Tagged(c, a) = b
    BY <1>0, <2>1, <2>2, <2>3, SeqEqual
  <2> QED
    BY <2>0, <2>4
<1>2. ASSUME s # <<>>
      PROVE  /\ Tagged(c, s) # <<>>
             /\ Head(Tagged(c, s)) = <<c, Head(s)>>
             /\ Tagged(c, Tail(s)) = Tail(Tagged(c, s))
  <2>1. Tagged(c, s) # <<>>
    BY <1>0, <1>2, EmptySeq
  <2>2. /\ Head(Tagged(c, s)) = Tagged(c, s)[1] /\ Head(s) = s[1] /\ 1 \in 1..Len(s)
    BY <1>0, <1>2, <2>1, TailAt
  <2>3. PICK a, b : a = Tail(s) /\ b = Tail(Tagged(c, s))
    OBVIOUS
  <2>4. /\ a \in Seq(Events) /\ Len(a) = Len(s) - 1
        /\ \A i \in 1..Len(a) : i + 1 \in 1..Len(s) /\ a[i] = s[i + 1]
    BY <1>2, <2>3, TailAt
  <2>5. /\ b \in Seq(Item) /\ Len(b) = Len(s) - 1
        /\ \A i \in 1..Len(b) : b[i] = Tagged(c, s)[i + 1]
    BY <1>0, <2>1, <2>3, TailAt
  <2>6. ASSUME NEW i \in 1..Len(a) PROVE Tagged(c, a)[i] = b[i]
    <3>1. i + 1 \in 1..Len(s) /\ a[i] = s[i + 1] /\ b[i] = Tagged(c, s)[i + 1]
      BY <2>4, <2>5
    <3>2. Tagged(c, a)[i] = <<c, a[i]>>
      BY <1>0, <2>4
    <3>3. Tagged(c, s)[i + 1] = <<c, s[i + 1]>>
      BY <1>0, <3>1
    <3> QED
      BY <3>1, <3>2, <3>3
  <2>7. Tagged(c, a) = b
    BY <1>0, <2>4, <2>5, <2>6, SeqEqual
  <2> QED
    BY <1>0, <2>1, <2>2, <2>3, <2>7
<1> QED
  BY <1>0, <1>1, <1>2

-----------------------------------------------------------------------------
(* The types, and what the invariant says.                                 *)

LEMMA ItemsAreEvents ==
  /\ \A r \in Runs, e \in Events : <<r, e>> \in Item
  /\ \A x \in Item : x[1] \in Runs /\ x[2] \in Events
  /\ Events = 0..(Last + 2) /\ Last \in Nat \ {0}
  /\ Sentinel \in Events /\ Resolved \in Events /\ TimedOut \in Events
  /\ 0..Last \subseteq Events
BY StreamsAssumption DEF Item, Events, Sentinel, TimedOut, Resolved

LEMMA PutType ==
  ASSUME NEW S, NEW f \in [Runs -> Seq(S)], NEW c \in Runs, NEW x \in S
  PROVE  Put(f, c, x) \in [Runs -> Seq(S)]
BY AppendProperties DEF Put

LEMMA CallType ==
  ASSUME TypeOK, NEW p \in Publishers, Calling(p)
  PROVE  /\ pub[p].run \in Runs /\ pub[p].event \in Events
         /\ pub[p].calls \subseteq Runs /\ pub[p].queued \in BOOLEAN
         /\ \A s \in SUBSET Runs : [pub[p] EXCEPT !.calls = s] \in
              [at : {"calling"}, run : Runs, event : Events, calls : SUBSET Runs,
               queued : BOOLEAN]
<1>1. pub[p] \in [at : {"calling"}, run : Runs, event : Events, calls : SUBSET Runs,
                  queued : BOOLEAN]
  BY DEF TypeOK, Calling, IdlePub, DonePub
<1> QED
  BY <1>1

LEMMA TypeInit == Init => TypeOK
BY StreamsAssumption, EmptySeq
   DEF Init, TypeOK, IdlePub, Events, Item, Publishers

LEMMA TypeSnapshot ==
  ASSUME TypeOK, NEW p \in Publishers, NEW r \in Runs, NEW e \in Events, Snapshot(p, r, e)
  PROVE  pub' \in [Publishers -> {IdlePub, DonePub} \cup
                    [at : {"calling"}, run : Runs, event : Events,
                     calls : SUBSET Runs, queued : BOOLEAN]]
<1>1. [at |-> "calling", run |-> r, event |-> e, calls |-> listeners, queued |-> hasQueue[r]]
        \in [at : {"calling"}, run : Runs, event : Events, calls : SUBSET Runs,
             queued : BOOLEAN]
  BY DEF TypeOK
<1> QED
  BY <1>1 DEF TypeOK, Snapshot

LEMMA TypePublish ==
  ASSUME TypeOK, NEW p \in Publishers, Publish(p)
  PROVE  TypeOK'
<1>1. CASE p \in Runs /\ PublishNext(p)
  <2>1. published[p] + 1 \in Events /\ published[p] + 1 \in 0..Last
    BY <1>1, ItemsAreEvents DEF PublishNext, TypeOK
  <2>2. pub' \in [Publishers -> {IdlePub, DonePub} \cup
                    [at : {"calling"}, run : Runs, event : Events,
                     calls : SUBSET Runs, queued : BOOLEAN]]
    BY <1>1, <2>1, TypeSnapshot DEF PublishNext
  <2> QED
    BY <1>1, <2>1, <2>2 DEF PublishNext, TypeOK, bus, consumer
<1>2. CASE p \in Runs /\ EndRun(p)
  <2>1. queue' \in [Runs -> Seq(Events)]
    BY <1>2, PutType, ItemsAreEvents DEF EndRun, TypeOK
  <2> QED
    BY <1>2, <2>1 DEF EndRun, TypeOK, consumer
<1>3. ASSUME NEW c \in Runs, CallListener(p, c) PROVE TypeOK'
  <2>0. Calling(p)
    BY <1>3 DEF CallListener, Calling
  <2>1. pub' \in [Publishers -> {IdlePub, DonePub} \cup
                    [at : {"calling"}, run : Runs, event : Events,
                     calls : SUBSET Runs, queued : BOOLEAN]]
    <3>1. pub' = [pub EXCEPT ![p] = [pub[p] EXCEPT !.calls = pub[p].calls \ {c}]]
      BY <1>3 DEF CallListener
    <3>2. pub[p].calls \ {c} \in SUBSET Runs
      BY <2>0, CallType
    <3> QED
      BY <2>0, <3>1, <3>2, CallType DEF TypeOK
  <2>2. <<pub[p].run, pub[p].event>> \in Item
    BY <2>0, CallType, ItemsAreEvents
  <2>3. inbox' \in [Runs -> Seq(Item)] /\ out' \in [Runs -> Seq(Item)]
    <3>1. Put(inbox, c, <<pub[p].run, pub[p].event>>) \in [Runs -> Seq(Item)]
      BY <2>2, PutType DEF TypeOK
    <3>2. Put(out, c, <<pub[p].run, pub[p].event>>) \in [Runs -> Seq(Item)]
      BY <2>2, PutType DEF TypeOK
    <3> QED
      BY <1>3, <3>1, <3>2 DEF CallListener, TypeOK
  <2> QED
    BY <1>3, <2>1, <2>3 DEF CallListener, TypeOK, bus
<1>4. CASE PutQueue(p)
  <2>0. Calling(p)
    BY <1>4 DEF PutQueue, Calling
  <2>1. queue' \in [Runs -> Seq(Events)]
    BY <1>4, <2>0, CallType, PutType DEF PutQueue, TypeOK
  <2> QED
    BY <1>4, <2>1 DEF PutQueue, TypeOK, consumer
<1> QED
  BY <1>1, <1>2, <1>3, <1>4 DEF Publish

LEMMA TypeStart ==
  ASSUME TypeOK, NEW c \in Runs, WsStart(c) \/ SseSubscribe(c) \/ InStart(c)
  PROVE  TypeOK'
<1>1. CASE WsStart(c)
  BY <1>1 DEF TypeOK, WsStart, Launch, Become
<1>2. CASE SseSubscribe(c)
  BY <1>2 DEF TypeOK, SseSubscribe, Become
<1>3. CASE InStart(c)
  BY <1>3 DEF TypeOK, InStart, Launch, Become
<1> QED
  BY <1>1, <1>2, <1>3

LEMMA TypeTake ==
  ASSUME NEW S, NEW f \in [Runs -> Seq(S)], NEW c \in Runs, f[c] # <<>>
  PROVE  /\ [f EXCEPT ![c] = Tail(@)] \in [Runs -> Seq(S)]
         /\ Head(f[c]) \in S
BY TailAt

LEMMA TypeDestroy ==
  ASSUME TypeOK, NEW c \in Runs, DestroyQueue(c), worker' = worker
  PROVE  /\ hasQueue' \in [Runs -> BOOLEAN] /\ queue' \in [Runs -> Seq(Events)]
         /\ \A r \in Runs : hasQueue'[r] => worker'[r] # "none"
BY EmptySeq DEF TypeOK, DestroyQueue

LEMMA TypeConsume ==
  ASSUME TypeOK, NEW c \in Runs, Consume(c) \/ WsDrop(c) \/ SseFails(c)
  PROVE  TypeOK'
<1>1. CASE WsForward(c)
  <2>1. queue' \in [Runs -> Seq(Events)] /\ Head(queue[c]) \in Events
    BY <1>1, TypeTake DEF WsForward, TypeOK
  <2>2. inbox' \in [Runs -> Seq(Item)]
    BY <1>1, <2>1, PutType, ItemsAreEvents DEF WsForward, TypeOK
  <2> QED
    BY <1>1, <2>1, <2>2 DEF WsForward, TypeOK
<1>2. CASE WsSend(c)
  <2>1. inbox' \in [Runs -> Seq(Item)] /\ Head(inbox[c]) \in Item
    BY <1>2, TypeTake DEF WsSend, TypeOK
  <2>2. out' \in [Runs -> Seq(Item)]
    BY <1>2, <2>1, PutType DEF WsSend, TypeOK
  <2>3. /\ hasQueue' \in [Runs -> BOOLEAN] /\ queue' \in [Runs -> Seq(Events)]
        /\ con' \in [Runs -> {"idle", "subscribed", "started", "open", "closing", "closed"}]
        /\ \A r \in Runs : hasQueue'[r] => worker'[r] # "none"
    BY <1>2, TypeDestroy DEF WsSend, TypeOK, Become
  <2> QED
    BY <1>2, <2>1, <2>2, <2>3 DEF WsSend, TypeOK
<1>3. CASE SseStart(c)
  BY <1>3 DEF SseStart, Launch, Become, TypeOK
<1>4. CASE SseGet(c)
  <2>1. queue' \in [Runs -> Seq(Events)]
    BY <1>4, TypeTake DEF SseGet, TypeOK
  <2> QED
    BY <1>4, <2>1 DEF SseGet, Become, TypeOK
<1>5. CASE SseTimeout(c)
  BY <1>5 DEF SseTimeout, Become, TypeOK, bus
<1>6. CASE InSubscribe(c)
  BY <1>6 DEF InSubscribe, Become, TypeOK
<1>7. CASE InYield(c)
  <2>1. inbox' \in [Runs -> Seq(Item)] /\ Head(inbox[c]) \in Item
    BY <1>7, TypeTake DEF InYield, TypeOK
  <2>2. out' \in [Runs -> Seq(Item)]
    BY <1>7, <2>1, PutType DEF InYield, TypeOK
  <2> QED
    BY <1>7, <2>1, <2>2 DEF InYield, Become, TypeOK, bus
<1>8. CASE InTimeout(c)
  <2>1. out' \in [Runs -> Seq(Item)]
    BY <1>8, PutType, ItemsAreEvents DEF InTimeout, TypeOK
  <2> QED
    BY <1>8, <2>1 DEF InTimeout, Become, TypeOK, bus
<1>9. CASE CloseStream(c)
  <2>1. /\ hasQueue' \in [Runs -> BOOLEAN] /\ queue' \in [Runs -> Seq(Events)]
        /\ \A r \in Runs : hasQueue'[r] => worker'[r] # "none"
    BY <1>9, TypeDestroy DEF CloseStream
  <2> QED
    BY <1>9, <2>1 DEF CloseStream, Become, TypeOK
<1>10. CASE WsDrop(c)
  <2>1. /\ hasQueue' \in [Runs -> BOOLEAN] /\ queue' \in [Runs -> Seq(Events)]
        /\ \A r \in Runs : hasQueue'[r] => worker'[r] # "none"
    BY <1>10, TypeDestroy DEF WsDrop
  <2>2. inbox' \in [Runs -> Seq(Item)]
    BY <1>10, EmptySeq DEF WsDrop, TypeOK
  <2> QED
    BY <1>10, <2>1, <2>2 DEF WsDrop, Become, TypeOK
<1>11. CASE SseFails(c)
  BY <1>11 DEF SseFails, Become, TypeOK, bus
<1> QED
  BY <1>1, <1>2, <1>3, <1>4, <1>5, <1>6, <1>7, <1>8, <1>9, <1>10, <1>11 DEF Consume

LEMMA TypeNext == TypeOK /\ [Next]_vars => TypeOK'
<1> SUFFICES ASSUME TypeOK, [Next]_vars PROVE TypeOK'
  OBVIOUS
<1>1. CASE UNCHANGED vars
  BY <1>1 DEF vars, bus, consumer, TypeOK
<1>2. ASSUME NEW p \in Resolvers, NEW r \in Runs, PublishResolved(p, r) PROVE TypeOK'
  <2>1. pub' \in [Publishers -> {IdlePub, DonePub} \cup
                    [at : {"calling"}, run : Runs, event : Events,
                     calls : SUBSET Runs, queued : BOOLEAN]]
    BY <1>2, ItemsAreEvents, TypeSnapshot DEF PublishResolved, Publishers
  <2> QED
    BY <1>2, <2>1 DEF PublishResolved, TypeOK, bus, consumer
<1> QED
  BY <1>1, <1>2, TypePublish, TypeStart, TypeConsume DEF Next

-----------------------------------------------------------------------------
(* The invariant: what it says, and where it holds at first.               *)

LEMMA OwnPlacesAre ==
  ASSUME TypeOK, NEW c \in Runs
  PROVE  /\ OwnPlaces(c) = OwnIn(c, out[c])
         /\ \A i \in OwnPlaces(c) : i \in 1..Len(out[c]) /\ No(c, out[c][i]) = out[c][i][2]
                                    /\ out[c][i][2] \in 1..Last
<1>1. DOMAIN out[c] = 1..Len(out[c])
  BY LenProperties DEF TypeOK
<1> QED
  BY <1>1, StreamsAssumption DEF OwnPlaces, OwnIn, No, Sentinel

LEMMA StretchIsInOrder ==
  ASSUME TypeOK, NEW c \in Runs, NEW lo \in Nat, NEW hi \in Nat, hi <= Last,
         Stretch(c, out[c], lo, hi)
  PROVE  /\ InOrder(c)
         /\ \A i, j \in OwnPlaces(c) : \A e \in out[c][i][2]..out[c][j][2] : Received(c, e)
         /\ lo = 0 /\ hi = Last => HasAll(c)
<1>0. \A i \in OwnPlaces(c) : i \in 1..Len(out[c]) /\ No(c, out[c][i]) = out[c][i][2]
                              /\ out[c][i][2] \in 1..Last
  BY OwnPlacesAre
<1>1. InOrder(c)
  <2> SUFFICES ASSUME NEW i \in OwnPlaces(c), NEW j \in OwnPlaces(c), i < j
               PROVE  out[c][i][2] < out[c][j][2]
    BY DEF InOrder
  <2>1. \A m, n \in 1..Len(out[c]) :
          m < n /\ No(c, out[c][m]) # 0 /\ No(c, out[c][n]) # 0
            => No(c, out[c][m]) < No(c, out[c][n])
    BY DEF Stretch
  <2>2. No(c, out[c][i]) # 0 /\ No(c, out[c][j]) # 0
    BY <1>0
  <2> QED
    BY <1>0, <2>1, <2>2
<1>2. \A e \in (lo + 1)..hi : Received(c, e)
  <2> TAKE e \in (lo + 1)..hi
  <2>1. PICK i \in 1..Len(out[c]) : No(c, out[c][i]) = e
    BY DEF Stretch
  <2>2. i \in OwnPlaces(c)
    BY <2>1, OwnPlacesAre, StreamsAssumption DEF OwnIn
  <2> QED
    BY <1>0, <2>1, <2>2 DEF Received
<1>3. \A i, j \in OwnPlaces(c) : \A e \in out[c][i][2]..out[c][j][2] : Received(c, e)
  <2> TAKE i, j \in OwnPlaces(c)
  <2>1. lo < out[c][i][2] /\ out[c][j][2] <= hi
    BY <1>0 DEF Stretch
  <2> QED
    BY <1>0, <1>2, <2>1
<1> QED
  BY <1>1, <1>2, <1>3 DEF HasAll

LEMMA InvSafe == StreamsInv => StreamsAreSafe /\ OwnEventsInOrder
<1> SUFFICES ASSUME StreamsInv PROVE StreamsAreSafe /\ OwnEventsInOrder
  OBVIOUS
<1>1. TypeOK
  BY DEF StreamsInv
<1>2. ASSUME NEW c \in Runs
      PROVE  /\ InOrder(c)
             /\ \A i, j \in OwnPlaces(c) :
                  \A e \in out[c][i][2]..out[c][j][2] : Received(c, e)
             /\ con[c] = "closed" /\ style[c] \in {"ws", "sse"} /\ c \notin left => HasAll(c)
  <2>1. PICK d : d = Count(c, out[c])
    OBVIOUS
  <2>2. d \in Nat /\ out[c] \in Seq(Item)
    <3>1. out[c] \in Seq(Item)
      BY <1>1 DEF TypeOK
    <3>2. <<c, Last>> \in Item
      BY StreamsAssumption, ItemsAreEvents
    <3> QED
      BY <2>1, <3>1, <3>2, CountAppend
  <2>3. CASE style[c] = "ws"
    <3>1. d <= Last /\ Stretch(c, out[c], 0, d)
      BY <2>1, <2>3 DEF StreamsInv, StreamInv, WsInv
    <3>2. con[c] = "closed" => c \in left \/ d = Last
      BY <2>1, <2>3 DEF StreamsInv, StreamInv, WsInv
    <3> QED
      BY <1>1, <2>2, <3>1, <3>2, StretchIsInOrder
  <2>4. CASE style[c] = "sse"
    <3>1. d <= Last /\ Stretch(c, out[c], 0, d)
      BY <2>1, <2>4 DEF StreamsInv, StreamInv, SseInv
    <3>2. con[c] = "closed" => c \in left \/ d = Last
      BY <2>1, <2>4 DEF StreamsInv, StreamInv, SseInv
    <3> QED
      BY <1>1, <2>2, <3>1, <3>2, StretchIsInOrder
  <2>5. CASE style[c] = "inproc"
    <3>1. InprocInv(c)
      BY <2>5 DEF StreamsInv, StreamInv
    <3>2. CASE con[c] \in {"idle", "started"}
      <4>1. out[c] = <<>>
        BY <3>1, <3>2 DEF InprocInv
      <4> QED
        BY <1>1, <2>5, <4>1, StretchEmpty, StretchIsInOrder, StreamsAssumption
    <3>3. CASE con[c] \notin {"idle", "started"}
      <4>1. PICK k \in Nat : k + d <= Last /\ Stretch(c, out[c], k, k + d)
        BY <2>1, <3>1, <3>3 DEF InprocInv
      <4> QED
        BY <1>1, <2>2, <2>5, <4>1, StretchIsInOrder
    <3> QED
      BY <3>2, <3>3
  <2> QED
    BY <1>1, <2>3, <2>4, <2>5, StreamsAssumption DEF TypeOK
<1>3. ClosedStreamsLeaveNothing
  BY DEF StreamsInv, StreamInv, PlaceInv, ClosedStreamsLeaveNothing
<1> QED
  BY <1>1, <1>2, <1>3 DEF StreamsAreSafe, StreamsAreComplete, OwnEventsInOrder

LEMMA InvInit == Init => StreamsInv
<1> SUFFICES ASSUME Init PROVE StreamsInv
  OBVIOUS
<1>1. TypeOK
  BY TypeInit
<1>2. PubInv
  BY DEF Init, PubInv, Calling, IdlePub, DonePub, Publishers
<1>3. ASSUME NEW c \in Runs PROVE StreamInv(c)
  <2>1. /\ con[c] = "idle" /\ out[c] = <<>> /\ inbox[c] = <<>> /\ queue[c] = <<>>
        /\ ~hasQueue[c] /\ worker[c] = "none" /\ c \notin listeners /\ c \notin left
    BY DEF Init
  <2>2. PlaceInv(c)
    BY <1>1, <2>1, StreamsAssumption DEF PlaceInv, TypeOK
  <2>3. Stretch(c, out[c], 0, 0) /\ Count(c, out[c]) = 0
    BY <2>1, StretchEmpty, CountEmpty
  <2> QED
    BY <2>1, <2>2, <2>3, StreamsAssumption DEF StreamInv, WsInv, SseInv, InprocInv
<1> QED
  BY <1>1, <1>2, <1>3 DEF StreamsInv

-----------------------------------------------------------------------------
(* Steps that leave a consumer and its run as they are.                    *)

Same(c) ==
    /\ style'[c] = style[c] /\ con'[c] = con[c] /\ worker'[c] = worker[c]
    /\ out'[c] = out[c] /\ inbox'[c] = inbox[c] /\ queue'[c] = queue[c]
    /\ hasQueue'[c] = hasQueue[c] /\ published'[c] = published[c]
    /\ pub'[c].at = pub[c].at
    /\ Calling(c) => /\ pub'[c].queued = pub[c].queued
                     /\ c \in pub'[c].calls <=> c \in pub[c].calls
    /\ c \in listeners' <=> c \in listeners
    /\ c \in left' <=> c \in left

LEMMA OthersUntouched ==
  ASSUME NEW c, Same(c), StreamInv(c)
  PROVE  StreamInv(c)'
<1>1. PlaceInv(c)'
  BY DEF Same, StreamInv, PlaceInv
<1>2. style[c] = "ws" => WsInv(c)'
  BY DEF Same, StreamInv, WsInv, QueuedUpTo, Calling
<1>3. style[c] = "sse" => SseInv(c)'
  BY DEF Same, StreamInv, SseInv, HeardUpTo, Calling
<1>4. style[c] = "inproc" => InprocInv(c)'
  BY DEF Same, StreamInv, InprocInv, HeardUpTo, Calling
<1> QED
  BY <1>1, <1>2, <1>3, <1>4 DEF StreamInv, Same

\* Steps of consumers change no publish in progress.
LEMMA PubFrame ==
  ASSUME PubInv, style' = style, published' = published, pub' = pub,
         \A r \in Runs :
           worker'[r] = worker[r] \/ (worker[r] = "none" /\ worker'[r] = "running"),
         \A c \in Runs :
           \/ con'[c] = con[c] /\ (c \in listeners' <=> c \in listeners)
           \/ con[c] \in {"idle", "started"}
           \/ style[c] = "ws"
           \/ con'[c] = "closed"
           \/ con'[c] \notin {"idle", "started"} /\ c \in listeners',
         TypeOK
  PROVE  PubInv'
<1>1. \A p \in Publishers : Calling(p) => pub[p].calls \subseteq Runs
  BY CallType
<1>2. \A p \in Publishers : Calling(p) => \A c \in pub[p].calls :
         /\ style[c] # "ws" /\ con'[c] \notin {"idle", "started"}
         /\ con'[c] = "closed" \/ c \in listeners'
  BY <1>1 DEF PubInv
<1>3. \A r \in Runs :
         /\ pub[r] # DonePub
         /\ Calling(r) => /\ pub[r].run = r /\ pub[r].event = published[r]
                          /\ published[r] # 0 /\ worker'[r] = "running"
         /\ worker'[r] = "none" => published[r] = 0
         /\ worker'[r] = "ended" => published[r] = Last
  BY DEF PubInv
<1> QED
  BY <1>2, <1>3 DEF PubInv, Calling

-----------------------------------------------------------------------------
(* The steps of publishers.                                                *)

LEMMA InvPublishNext ==
  ASSUME StreamsInv, NEW r \in Runs, PublishNext(r)
  PROVE  PubInv' /\ \A c \in Runs : StreamInv(c)'
<1>1. /\ worker[r] = "running" /\ pub[r] = IdlePub /\ ~Calling(r) /\ published[r] \in 0..Last
      /\ pub' = [pub EXCEPT ![r] = [at |-> "calling", run |-> r, event |-> published[r] + 1,
                                    calls |-> listeners, queued |-> hasQueue[r]]]
      /\ published' = [published EXCEPT ![r] = @ + 1]
      /\ UNCHANGED <<style, worker, hasQueue, queue, listeners, con, inbox, out, left>>
  BY DEF PublishNext, Snapshot, bus, consumer, StreamsInv, TypeOK, Calling, IdlePub
<1>2. /\ pub'[r].at = "calling" /\ pub'[r].run = r /\ pub'[r].event = published[r] + 1
      /\ pub'[r].calls = listeners /\ pub'[r].queued = hasQueue[r]
      /\ pub'[r] # DonePub /\ published'[r] = published[r] + 1
      /\ \A p \in Publishers : p # r => pub'[p] = pub[p]
      /\ \A s \in Runs : s # r => published'[s] = published[s]
  BY <1>1 DEF StreamsInv, TypeOK, Publishers, DonePub
<1>3. PubInv'
  <2>1. \A c \in listeners : /\ style[c] # "ws" /\ con[c] \notin {"idle", "started"}
                             /\ con[c] = "closed" \/ c \in listeners
    BY DEF StreamsInv, TypeOK, StreamInv, PlaceInv
  <2>2. \A p \in Publishers : (pub'[p].at = "calling") => \A c \in pub'[p].calls :
          /\ style[c] # "ws" /\ con[c] \notin {"idle", "started"}
          /\ con[c] = "closed" \/ c \in listeners
    <3> TAKE p \in Publishers
    <3>1. CASE p = r
      BY <1>2, <2>1, <3>1
    <3>2. CASE p # r
      BY <1>2, <3>2 DEF StreamsInv, PubInv, Calling
    <3> QED
      BY <3>1, <3>2
  <2>3. \A s \in Runs :
         /\ pub'[s] # DonePub
         /\ (pub'[s].at = "calling") => /\ pub'[s].run = s /\ pub'[s].event = published'[s]
                                        /\ published'[s] # 0 /\ worker[s] = "running"
         /\ worker[s] = "none" => published'[s] = 0
         /\ worker[s] = "ended" => published'[s] = Last
    <3> TAKE s \in Runs
    <3>1. CASE s = r
      BY <1>1, <1>2, <3>1
    <3>2. CASE s # r
      BY <1>2, <3>2 DEF StreamsInv, PubInv, Calling, Publishers
    <3> QED
      BY <3>1, <3>2
  <2>4. \A p \in Resolvers : (pub'[p].at = "calling") => pub'[p].event = Resolved
    BY <1>2, StreamsAssumption DEF StreamsInv, PubInv, Calling, Publishers
  <2> QED
    BY <1>1, <2>2, <2>3, <2>4 DEF PubInv, Calling
<1>4. ASSUME NEW c \in Runs, c # r PROVE StreamInv(c)'
  <2>1. Same(c)
    BY <1>1, <1>2, <1>4 DEF Same, Publishers
  <2> QED
    BY <2>1, OthersUntouched DEF StreamsInv
<1>5. StreamInv(r)'
  <2>0. PlaceInv(r) /\ StreamInv(r)
    BY DEF StreamsInv, StreamInv
  <2>1. PlaceInv(r)'
    BY <1>1, <2>0 DEF PlaceInv
  <2>2. QueuedUpTo(r)' = QueuedUpTo(r)
    BY <1>1, <1>2 DEF QueuedUpTo, Calling
  <2>3. r \in listeners => HeardUpTo(r)' = HeardUpTo(r)
    BY <1>1, <1>2 DEF HeardUpTo, Calling
  <2>4. ASSUME style[r] = "ws" PROVE WsInv(r)'
    <3>1. WsInv(r)
      BY <2>0, <2>4 DEF StreamInv
    <3> QED
      BY <1>1, <1>2, <2>2, <3>1 DEF WsInv
  <2>5. ASSUME style[r] = "sse" PROVE SseInv(r)'
    <3>1. SseInv(r)
      BY <2>0, <2>5 DEF StreamInv
    <3> QED
      BY <1>1, <2>3, <3>1 DEF SseInv
  <2>6. ASSUME style[r] = "inproc" PROVE InprocInv(r)'
    <3>1. InprocInv(r)
      BY <2>0, <2>6 DEF StreamInv
    <3>2. con[r] = "open" => r \in listeners
      BY <2>0, <2>6 DEF PlaceInv
    <3> QED
      BY <1>1, <2>3, <3>1, <3>2 DEF InprocInv
  <2> QED
    BY <1>1, <2>1, <2>4, <2>5, <2>6 DEF StreamInv
<1> QED
  BY <1>3, <1>4, <1>5

LEMMA InvPublishResolved ==
  ASSUME StreamsInv, NEW p \in Resolvers, NEW r \in Runs, PublishResolved(p, r)
  PROVE  PubInv' /\ \A c \in Runs : StreamInv(c)'
<1>1. /\ pub' = [pub EXCEPT ![p] = [at |-> "calling", run |-> r, event |-> Resolved,
                                    calls |-> listeners, queued |-> hasQueue[r]]]
      /\ UNCHANGED <<style, worker, published, hasQueue, queue, listeners, con, inbox, out,
                     left>>
  BY DEF PublishResolved, Snapshot, bus, consumer
<1>2. /\ pub'[p].event = Resolved /\ pub'[p].calls = listeners
      /\ \A q \in Publishers : q # p => pub'[q] = pub[q]
      /\ p \notin Runs
  BY <1>1, StreamsAssumption DEF StreamsInv, TypeOK, Publishers
<1>3. PubInv'
  <2>1. \A c \in listeners : /\ style[c] # "ws" /\ con[c] \notin {"idle", "started"}
                             /\ con[c] = "closed" \/ c \in listeners
    BY DEF StreamsInv, TypeOK, StreamInv, PlaceInv
  <2>2. \A q \in Publishers : (pub'[q].at = "calling") => \A c \in pub'[q].calls :
          /\ style[c] # "ws" /\ con[c] \notin {"idle", "started"}
          /\ con[c] = "closed" \/ c \in listeners
    <3> TAKE q \in Publishers
    <3>1. CASE q = p
      BY <1>2, <2>1, <3>1
    <3>2. CASE q # p
      BY <1>2, <3>2 DEF StreamsInv, PubInv, Calling
    <3> QED
      BY <3>1, <3>2
  <2>3. \A s \in Runs : pub'[s] = pub[s]
    BY <1>2 DEF Publishers
  <2>4. \A q \in Resolvers : (pub'[q].at = "calling") => pub'[q].event = Resolved
    BY <1>2 DEF StreamsInv, PubInv, Calling, Publishers
  <2> QED
    BY <1>1, <2>2, <2>3, <2>4 DEF PubInv, Calling, StreamsInv
<1>4. ASSUME NEW c \in Runs PROVE StreamInv(c)'
  <2>1. Same(c)
    BY <1>1, <1>2 DEF Same, Publishers
  <2> QED
    BY <2>1, OthersUntouched DEF StreamsInv
<1> QED
  BY <1>3, <1>4

\* Only its own run's events have a place in a consumer's line.
LEMMA ItemNo ==
  ASSUME StreamsInv, NEW p \in Publishers, Calling(p), NEW c \in Runs
  PROVE  /\ p # c => No(c, <<pub[p].run, pub[p].event>>) = 0
         /\ p = c => /\ No(c, <<pub[p].run, pub[p].event>>) = published[c]
                     /\ pub[p].run = c /\ pub[p].event = published[c]
                     /\ published[c] \in 1..Last /\ worker[c] = "running"
         /\ <<pub[p].run, pub[p].event>> \in Item
<1>1. <<pub[p].run, pub[p].event>> \in Item
  BY CallType, ItemsAreEvents DEF StreamsInv
<1>2. CASE p \in Runs
  <2>1. pub[p].run = p /\ pub[p].event = published[p] /\ published[p] \in 1..Last
        /\ worker[p] = "running"
    BY <1>2 DEF StreamsInv, PubInv, TypeOK
  <2> QED
    BY <1>1, <2>1, StreamsAssumption DEF No, Sentinel
<1>3. CASE p \in Resolvers
  <2>1. pub[p].event = Last + 1
    BY <1>3 DEF StreamsInv, PubInv, Resolved
  <2> QED
    BY <1>1, <1>3, <2>1, StreamsAssumption DEF No
<1> QED
  BY <1>2, <1>3 DEF Publishers

LEMMA InvCallListener ==
  ASSUME StreamsInv, NEW p \in Publishers, NEW c \in Runs, CallListener(p, c)
  PROVE  PubInv' /\ \A d \in Runs : StreamInv(d)'
<1> DEFINE item == <<pub[p].run, pub[p].event>>
<1>1. /\ Calling(p) /\ c \in pub[p].calls
      /\ pub' = [pub EXCEPT ![p].calls = @ \ {c}]
      /\ UNCHANGED <<style, worker, published, hasQueue, queue, listeners, con, left>>
  BY DEF CallListener, Calling, bus
<1>2. /\ pub'[p].at = pub[p].at /\ pub'[p].run = pub[p].run /\ pub'[p].event = pub[p].event
      /\ pub'[p].queued = pub[p].queued /\ pub'[p].calls = pub[p].calls \ {c}
      /\ \A q \in Publishers : q # p => pub'[q] = pub[q]
  <2>1. pub[p] \in [at : {"calling"}, run : Runs, event : Events, calls : SUBSET Runs,
                    queued : BOOLEAN]
    BY <1>1 DEF StreamsInv, TypeOK, Calling, IdlePub, DonePub
  <2> QED
    BY <1>1, <2>1 DEF StreamsInv, TypeOK
<1>3. \A q \in Publishers : /\ pub'[q].at = pub[q].at /\ pub'[q].event = pub[q].event
                            /\ pub'[q].run = pub[q].run
                            /\ Calling(q) => pub'[q].calls \subseteq pub[q].calls
  BY <1>1, <1>2
<1>4. PubInv'
  <2>1. \A q \in Publishers : (pub'[q].at = "calling") => \A d \in pub'[q].calls :
          /\ style[d] # "ws" /\ con[d] \notin {"idle", "started"}
          /\ con[d] = "closed" \/ d \in listeners
    BY <1>3 DEF StreamsInv, PubInv, Calling
  <2>2. \A s \in Runs :
         /\ pub'[s] # DonePub
         /\ (pub'[s].at = "calling") => /\ pub'[s].run = s /\ pub'[s].event = published[s]
                                        /\ published[s] # 0 /\ worker[s] = "running"
         /\ worker[s] = "none" => published[s] = 0
         /\ worker[s] = "ended" => published[s] = Last
    <3> TAKE s \in Runs
    <3>1. s \in Publishers
      BY DEF Publishers
    <3>2. pub'[s] # DonePub
      BY <1>1, <1>2, <3>1 DEF StreamsInv, PubInv, Calling, DonePub
    <3> QED
      BY <1>3, <3>1, <3>2 DEF StreamsInv, PubInv, Calling
  <2>3. \A q \in Resolvers : (pub'[q].at = "calling") => pub'[q].event = Resolved
    BY <1>3 DEF StreamsInv, PubInv, Calling, Publishers
  <2> QED
    BY <1>1, <2>1, <2>2, <2>3 DEF PubInv, Calling
<1>5. ASSUME NEW d \in Runs, d # c PROVE StreamInv(d)'
  <2>1. out'[d] = out[d] /\ inbox'[d] = inbox[d]
    BY <1>5 DEF CallListener, Put, StreamsInv, TypeOK
  <2>2. /\ pub'[d].at = pub[d].at
        /\ Calling(d) => /\ pub'[d].queued = pub[d].queued
                         /\ d \in pub'[d].calls <=> d \in pub[d].calls
    BY <1>2, <1>5 DEF Publishers
  <2>3. Same(d)
    BY <1>1, <2>1, <2>2 DEF Same
  <2> QED
    BY <2>3, OthersUntouched DEF StreamsInv
<1>6. StreamInv(c)'
  <2>0. PlaceInv(c) /\ StreamInv(c) /\ style[c] # "ws" /\ con[c] \notin {"idle", "started"}
        /\ (con[c] = "closed" \/ c \in listeners)
    BY <1>1 DEF StreamsInv, StreamInv, PubInv
  <2>1. PlaceInv(c)'
    BY <1>1, <2>0 DEF PlaceInv
  <2>2. item \in Item /\ (p # c => No(c, item) = 0)
        /\ (p = c => No(c, item) = published[c] /\ published[c] \in 1..Last
                     /\ worker[c] = "running")
    BY <1>1, ItemNo
  <2>3. /\ p = c => HeardUpTo(c) = published[c] - 1 /\ HeardUpTo(c)' = published[c]
        /\ p # c => HeardUpTo(c)' = HeardUpTo(c)
        /\ HeardUpTo(c) \in Nat
    <3>1. published[c] \in Nat /\ (Calling(c) => published[c] # 0)
      BY DEF StreamsInv, TypeOK, PubInv
    <3> QED
      BY <1>1, <1>2, <3>1 DEF HeardUpTo, Calling, Publishers
  <2> HIDE DEF item
  <2>4. out[c] \in Seq(Item) /\ inbox[c] \in Seq(Item) /\ Count(c, out[c]) \in Nat
        /\ out \in [Runs -> Seq(Item)] /\ inbox \in [Runs -> Seq(Item)]
    <3>1. out[c] \in Seq(Item) /\ inbox[c] \in Seq(Item)
          /\ out \in [Runs -> Seq(Item)] /\ inbox \in [Runs -> Seq(Item)]
      BY DEF StreamsInv, TypeOK
    <3> QED
      BY <2>2, <3>1, CountAppend
  <2>5. CASE style[c] = "inproc"
    <3>1. inbox'[c] = Append(inbox[c], item) /\ out' = out
      BY <2>4, <2>5 DEF CallListener, Put, item
    <3>2. PICK k \in Nat : /\ k + Count(c, out[c]) <= Last
                           /\ Stretch(c, out[c], k, k + Count(c, out[c]))
                           /\ con[c] = "open" => Stretch(c, inbox[c], k + Count(c, out[c]), HeardUpTo(c))
      BY <2>0, <2>5 DEF StreamInv, InprocInv
    <3>3. con[c] = "open" => Stretch(c, inbox'[c], k + Count(c, out[c]), HeardUpTo(c)')
      <4>1. CASE p = c
        <5>1. PICK h \in Nat : h = HeardUpTo(c)
          BY <2>3
        <5>2. HeardUpTo(c)' = h + 1 /\ No(c, item) = h + 1
          BY <2>2, <2>3, <4>1, <5>1
        <5>3. PICK m \in Nat : m = k + Count(c, out[c])
          BY <2>4
        <5>4. ASSUME Stretch(c, inbox[c], m, h) PROVE Stretch(c, inbox'[c], m, h + 1)
          BY <2>2, <2>4, <3>1, <5>2, <5>4, StretchNext
        <5> QED
          BY <3>2, <5>1, <5>2, <5>3, <5>4
      <4>2. CASE p # c
        BY <2>2, <2>3, <2>4, <3>1, <3>2, <4>2, StretchBeside
      <4> QED
        BY <4>1, <4>2
    <3>4. InprocInv(c)'
      BY <1>1, <2>0, <3>1, <3>2, <3>3 DEF InprocInv
    <3> QED
      BY <1>1, <2>1, <2>5, <3>4 DEF StreamInv
  <2>6. CASE style[c] = "sse"
    <3>0. SseInv(c)
      BY <2>0, <2>6 DEF StreamInv
    <3>1. PICK d \in Nat : d = Count(c, out[c])
      BY <2>4
    <3>2. /\ d <= Last /\ Stretch(c, out[c], 0, d)
          /\ c \in listeners => d = HeardUpTo(c)
          /\ c \notin left =>
               /\ con[c] \in {"closing", "closed"} => d = Last
               /\ con[c] = "open" => \A i \in 1..Len(queue[c]) :
                    queue[c][i] \in {Sentinel, Last} => d = Last
      BY <3>0, <3>1 DEF SseInv
    <3>3. CASE out'[c] = Append(out[c], item) /\ con[c] # "closed" /\ p = c
      <4>1. d = published[c] - 1 /\ No(c, item) = d + 1 /\ d + 1 <= Last
        BY <2>0, <2>2, <2>3, <3>2, <3>3
      <4>2. Stretch(c, out'[c], 0, d + 1) /\ Count(c, out'[c]) = d + 1
        <5>1. Stretch(c, out'[c], 0, d + 1)
          BY <2>2, <2>4, <3>2, <3>3, <4>1, StretchNext
        <5>2. No(c, item) \in 1..Last
          BY <4>1
        <5> QED
          BY <2>2, <2>4, <3>1, <3>3, <5>1, <5>2, CountAppend
      <4>3. c \notin left => /\ con[c] \notin {"closing", "closed"}
                             /\ con[c] = "open" => \A i \in 1..Len(queue[c]) :
                                  queue[c][i] \notin {Sentinel, Last}
        BY <3>2, <4>1
      <4>4. SseInv(c)'
        <5>1. con'[c] # "idle"
          BY <1>1, <2>0
        <5>2. HeardUpTo(c)' = d + 1
          BY <2>2, <2>3, <3>3, <4>1
        <5> QED
          BY <1>1, <4>1, <4>2, <4>3, <5>1, <5>2 DEF SseInv
      <4> QED
        BY <1>1, <2>1, <2>6, <4>4 DEF StreamInv
    <3>4. CASE out'[c] = Append(out[c], item) /\ p # c
      <4>1. Stretch(c, out'[c], 0, d) /\ Count(c, out'[c]) = d
        BY <2>2, <2>4, <3>1, <3>2, <3>4, StretchBeside, CountAppend
      <4>2. SseInv(c)'
        BY <1>1, <2>0, <2>3, <3>2, <3>4, <4>1 DEF SseInv
      <4> QED
        BY <1>1, <2>1, <2>6, <4>2 DEF StreamInv
    <3>5. CASE out'[c] = out[c] /\ con[c] \in {"subscribed", "closed"}
      <4>1. p = c => c \notin listeners
        BY <2>0, <2>2, <3>5 DEF PlaceInv
      <4>2. SseInv(c)'
        BY <1>1, <2>0, <2>3, <3>0, <3>5, <4>1 DEF SseInv
      <4> QED
        BY <1>1, <2>1, <2>6, <4>2 DEF StreamInv
    <3>6. \/ out'[c] = Append(out[c], item) /\ con[c] # "closed"
          \/ out'[c] = out[c] /\ con[c] \in {"subscribed", "closed"}
      BY <2>4, <2>6 DEF CallListener, Put, item
    <3> QED
      BY <3>3, <3>4, <3>5, <3>6
  <2> QED
    BY <2>0, <2>5, <2>6, StreamsAssumption DEF StreamsInv, TypeOK
<1> QED
  BY <1>4, <1>5, <1>6

\* An event that joins a run's queue, beside the line or next in it.
LEMMA QueueGrows ==
  ASSUME NEW c \in Runs, NEW s \in Seq(Events), NEW e \in Events, NEW f \in Nat, NEW u \in Nat,
         Stretch(c, Tagged(c, s), f, u)
  PROVE  /\ No(c, <<c, e>>) = 0 => Stretch(c, Tagged(c, Append(s, e)), f, u)
         /\ No(c, <<c, e>>) = u + 1 => Stretch(c, Tagged(c, Append(s, e)), f, u + 1)
<1>1. /\ Tagged(c, s) \in Seq(Item) /\ <<c, e>> \in Item
      /\ Tagged(c, Append(s, e)) = Append(Tagged(c, s), <<c, e>>)
  BY TaggedSeq, ItemsAreEvents
<1> QED
  BY <1>1, StretchBeside, StretchNext

LEMMA InvPutQueue ==
  ASSUME StreamsInv, NEW p \in Publishers, PutQueue(p)
  PROVE  PubInv' /\ \A d \in Runs : StreamInv(d)'
<1> DEFINE r == pub[p].run
           e == pub[p].event
<1>1. /\ Calling(p) /\ pub[p].calls = {} /\ r \in Runs /\ e \in Events
      /\ pub' = [pub EXCEPT ![p] = IF p \in Runs THEN IdlePub ELSE DonePub]
      /\ queue' = IF pub[p].queued /\ hasQueue[r] THEN Put(queue, r, e) ELSE queue
      /\ UNCHANGED <<style, worker, published, hasQueue, listeners, con, inbox, out, left>>
  BY CallType DEF PutQueue, Calling, consumer, StreamsInv
<1>2. /\ pub'[p].at # "calling" /\ (p \in Runs => pub'[p] = IdlePub)
      /\ \A q \in Publishers : q # p => pub'[q] = pub[q]
      /\ IdlePub # DonePub /\ Runs \subseteq Publishers /\ Resolvers \subseteq Publishers
  BY <1>1 DEF StreamsInv, TypeOK, IdlePub, DonePub, Publishers
<1>3. PubInv'
  <2>1. \A q \in Publishers : (pub'[q].at = "calling") => q # p
    BY <1>2
  <2>2. \A s \in Runs :
         /\ pub'[s] # DonePub
         /\ (pub'[s].at = "calling") => /\ pub'[s].run = s /\ pub'[s].event = published[s]
                                        /\ published[s] # 0 /\ worker[s] = "running"
         /\ worker[s] = "none" => published[s] = 0
         /\ worker[s] = "ended" => published[s] = Last
    <3> TAKE s \in Runs
    <3> QED
      BY <1>2, <2>1 DEF StreamsInv, PubInv, Calling
  <2>3. \A q \in Publishers : (pub'[q].at = "calling") => \A d \in pub'[q].calls :
          /\ style[d] # "ws" /\ con[d] \notin {"idle", "started"}
          /\ con[d] = "closed" \/ d \in listeners
    BY <1>2, <2>1 DEF StreamsInv, PubInv, Calling
  <2>4. \A q \in Resolvers : (pub'[q].at = "calling") => pub'[q].event = Resolved
    BY <1>2, <2>1 DEF StreamsInv, PubInv, Calling
  <2> QED
    BY <1>1, <2>2, <2>3, <2>4 DEF PubInv, Calling
<1>4. ASSUME NEW d \in Runs, d # r PROVE StreamInv(d)'
  <2>1. queue'[d] = queue[d]
    BY <1>1, <1>4 DEF Put, StreamsInv, TypeOK
  <2>2. d # p
    BY <1>1, <1>4, ItemNo
  <2>3. Same(d)
    BY <1>1, <1>2, <2>1, <2>2 DEF Same
  <2> QED
    BY <2>3, OthersUntouched DEF StreamsInv
<1>5. ASSUME NEW c \in Runs, c = r PROVE StreamInv(c)'
  <2> HIDE DEF r
  <2>0. /\ PlaceInv(c) /\ StreamInv(c) /\ queue \in [Runs -> Seq(Events)] /\ queue[c] \in Seq(Events)
        /\ queue'[c] = IF pub[p].queued /\ hasQueue[c] THEN Append(queue[c], e) ELSE queue[c]
    BY <1>1, <1>5 DEF Put, StreamsInv, StreamInv, TypeOK
  <2>1. PlaceInv(c)'
    BY <1>1, <2>0 DEF PlaceInv
  <2>2. /\ p = c => /\ Calling(c) /\ e = published[c] /\ published[c] \in 1..Last
                    /\ worker[c] = "running" /\ No(c, <<c, e>>) = published[c]
        /\ p # c => No(c, <<c, e>>) = 0 /\ e = Resolved
    <3>1. CASE p \in Runs
      BY <1>1, <3>1, <1>5, ItemNo DEF r
    <3>2. CASE p \in Resolvers
      BY <1>1, <3>2, <1>5, ItemNo, StreamsAssumption DEF StreamsInv, PubInv, r
    <3> QED
      BY <3>1, <3>2 DEF Publishers
  <2>3. /\ p = c => QueuedUpTo(c) = published[c] - 1 /\ QueuedUpTo(c)' = published[c]
        /\ p # c => QueuedUpTo(c)' = QueuedUpTo(c)
        /\ QueuedUpTo(c) \in Nat
    <3>1. published[c] \in Nat /\ (Calling(c) => published[c] # 0)
      BY DEF StreamsInv, TypeOK, PubInv
    <3> QED
      BY <1>1, <1>2, <2>2, <3>1, StreamsAssumption DEF QueuedUpTo, Calling
  <2>4. HeardUpTo(c)' = HeardUpTo(c) /\ (p = c => HeardUpTo(c) = published[c])
    BY <1>1, <1>2 DEF HeardUpTo, Calling
  <2> HIDE DEF e
  <2>5. CASE style[c] = "ws"
    <3>1. PICK d : d = Count(c, out[c])
      OBVIOUS
    <3>2. WsInv(c)
      BY <2>0, <2>5 DEF StreamInv
    <3>3. ASSUME con[c] = "open"
          PROVE  /\ hasQueue[c] /\ ~(p = c /\ ~pub[p].queued)
                 /\ \E f \in Nat : /\ Stretch(c, inbox[c], d, f)
                                   /\ Stretch(c, Tagged(c, queue'[c]), f, QueuedUpTo(c)')
      <4>1. hasQueue[c] /\ (p = c => pub[p].queued)
        BY <1>1, <3>2, <3>3 DEF WsInv
      <4>2. PICK f \in Nat : /\ Stretch(c, inbox[c], d, f)
                             /\ Stretch(c, Tagged(c, queue[c]), f, QueuedUpTo(c))
        BY <3>1, <3>2, <3>3 DEF WsInv
      <4>3. CASE p = c
        <5>1. PICK u \in Nat : u = QueuedUpTo(c)
          BY <2>3
        <5>2. QueuedUpTo(c)' = u + 1 /\ No(c, <<c, e>>) = u + 1
          BY <2>2, <2>3, <4>3, <5>1
        <5>3. queue'[c] = Append(queue[c], e)
          BY <2>0, <4>1, <4>3
        <5>4. Stretch(c, Tagged(c, queue'[c]), f, u + 1)
          BY <1>1, <2>0, <4>2, <5>1, <5>2, <5>3, QueueGrows DEF e
        <5> QED
          BY <4>1, <4>2, <5>2, <5>4
      <4>4. CASE p # c
        <5>1. Stretch(c, Tagged(c, queue'[c]), f, QueuedUpTo(c))
          BY <1>1, <2>0, <2>2, <2>3, <4>2, <4>4, QueueGrows DEF e
        <5> QED
          BY <2>3, <4>1, <4>2, <4>4, <5>1
      <4> QED
        BY <4>3, <4>4
    <3>4. WsInv(c)'
      <4>1. con[c] = "open" => (pub'[c].at = "calling" => pub'[c].queued)
        BY <1>2, <3>2 DEF WsInv, Calling
      <4> QED
        BY <1>1, <3>1, <3>2, <3>3, <4>1 DEF WsInv, Calling
    <3> QED
      BY <1>1, <2>1, <2>5, <3>4 DEF StreamInv
  <2>6. CASE style[c] = "sse"
    <3>1. SseInv(c)
      BY <2>0, <2>6 DEF StreamInv
    <3>2. PICK d : d = Count(c, out[c])
      OBVIOUS
    <3>3. ASSUME con[c] = "open", c \notin left, NEW i \in 1..Len(queue'[c]),
                 queue'[c][i] \in {Sentinel, Last}
          PROVE  d = Last
      <4>1. \A j \in 1..Len(queue[c]) : queue[c][j] \in {Sentinel, Last} => d = Last
        BY <3>1, <3>2, <3>3 DEF SseInv
      <4>2. d = HeardUpTo(c)
        BY <2>0, <2>6, <3>1, <3>2, <3>3 DEF SseInv, PlaceInv
      <4>3. CASE queue'[c] = queue[c]
        BY <3>3, <4>1, <4>3
      <4>4. CASE queue'[c] = Append(queue[c], e)
        <5>1. \/ i \in 1..Len(queue[c]) /\ queue'[c][i] = queue[c][i]
              \/ queue'[c][i] = e
          <6>1. e \in Events /\ Len(queue[c]) \in Nat
            BY <1>1, <2>0, LenProperties DEF e
          <6> QED
            BY <2>0, <3>3, <4>4, <6>1, AppendProperties
        <5>2. e \in {Sentinel, Last} => p = c /\ e = published[c] /\ published[c] = Last
          BY <2>2, StreamsAssumption DEF Sentinel, Resolved
        <5> QED
          BY <2>4, <3>3, <4>1, <4>2, <5>1, <5>2
      <4> QED
        BY <2>0, <4>3, <4>4
    <3>4. SseInv(c)'
      BY <1>1, <2>4, <3>1, <3>2, <3>3 DEF SseInv
    <3> QED
      BY <1>1, <2>1, <2>6, <3>4 DEF StreamInv
  <2>7. CASE style[c] = "inproc"
    <3>1. InprocInv(c)'
      BY <1>1, <2>0, <2>4, <2>7 DEF StreamInv, InprocInv
    <3> QED
      BY <1>1, <2>1, <2>7, <3>1 DEF StreamInv
  <2> QED
    BY <2>5, <2>6, <2>7, StreamsAssumption DEF StreamsInv, TypeOK
<1> QED
  BY <1>3, <1>4, <1>5

LEMMA InvEndRun ==
  ASSUME StreamsInv, NEW c \in Runs, EndRun(c)
  PROVE  PubInv' /\ \A d \in Runs : StreamInv(d)'
<1>1. /\ worker[c] = "running" /\ published[c] = Last /\ ~Calling(c)
      /\ worker' = [worker EXCEPT ![c] = "ended"]
      /\ queue' = IF hasQueue[c] THEN Put(queue, c, Sentinel) ELSE queue
      /\ UNCHANGED <<style, published, pub, hasQueue, listeners, con, inbox, out, left>>
  BY DEF EndRun, consumer, Calling, IdlePub
<1>2. worker'[c] = "ended" /\ \A d \in Runs : d # c => worker'[d] = worker[d]
  BY <1>1 DEF StreamsInv, TypeOK
<1>3. PubInv'
  BY <1>1, <1>2 DEF StreamsInv, PubInv, Calling
<1>4. ASSUME NEW d \in Runs, d # c PROVE StreamInv(d)'
  <2>1. queue'[d] = queue[d]
    BY <1>1, <1>4 DEF Put, StreamsInv, TypeOK
  <2>2. Same(d)
    BY <1>1, <1>2, <1>4, <2>1 DEF Same
  <2> QED
    BY <2>2, OthersUntouched DEF StreamsInv
<1>5. StreamInv(c)'
  <2>0. /\ PlaceInv(c) /\ StreamInv(c) /\ queue[c] \in Seq(Events)
        /\ queue'[c] = IF hasQueue[c] THEN Append(queue[c], Sentinel) ELSE queue[c]
    BY <1>1 DEF Put, StreamsInv, StreamInv, TypeOK
  <2>1. PlaceInv(c)'
    BY <1>1, <1>2, <2>0 DEF PlaceInv
  <2>2. HeardUpTo(c)' = HeardUpTo(c) /\ HeardUpTo(c) = Last
    BY <1>1 DEF HeardUpTo, Calling
  <2>3. QueuedUpTo(c) = Last /\ QueuedUpTo(c)' = Last + 1 /\ No(c, <<c, Sentinel>>) = Last + 1
    BY <1>1, <1>2, StreamsAssumption DEF QueuedUpTo, Calling, No, Sentinel
  <2>4. CASE style[c] = "ws"
    <3>1. PICK d : d = Count(c, out[c])
      OBVIOUS
    <3>2. WsInv(c)
      BY <2>0, <2>4 DEF StreamInv
    <3>3. ASSUME con[c] = "open"
          PROVE  \E f \in Nat : /\ Stretch(c, inbox[c], d, f)
                                /\ Stretch(c, Tagged(c, queue'[c]), f, QueuedUpTo(c)')
      <4>1. PICK f \in Nat : /\ Stretch(c, inbox[c], d, f)
                             /\ Stretch(c, Tagged(c, queue[c]), f, QueuedUpTo(c))
        BY <3>1, <3>2, <3>3 DEF WsInv
      <4>2. queue'[c] = Append(queue[c], Sentinel)
        BY <2>0, <3>2, <3>3 DEF WsInv
      <4>3. Stretch(c, Tagged(c, queue'[c]), f, Last + 1)
        BY <2>0, <2>3, <4>1, <4>2, QueueGrows, ItemsAreEvents
      <4> QED
        BY <2>3, <4>1, <4>3
    <3>4. WsInv(c)'
      BY <1>1, <3>1, <3>2, <3>3 DEF WsInv, Calling
    <3> QED
      BY <1>1, <2>1, <2>4, <3>4 DEF StreamInv
  <2>5. CASE style[c] = "sse"
    <3>1. SseInv(c)
      BY <2>0, <2>5 DEF StreamInv
    <3>2. con[c] = "open" => Count(c, out[c]) = Last
      BY <2>0, <2>2, <2>5, <3>1 DEF SseInv, PlaceInv
    <3>3. SseInv(c)'
      BY <1>1, <2>2, <3>1, <3>2 DEF SseInv
    <3> QED
      BY <1>1, <2>1, <2>5, <3>3 DEF StreamInv
  <2>6. CASE style[c] = "inproc"
    <3>1. InprocInv(c)'
      BY <1>1, <2>0, <2>2, <2>6 DEF StreamInv, InprocInv
    <3> QED
      BY <1>1, <2>1, <2>6, <3>1 DEF StreamInv
  <2> QED
    BY <2>4, <2>5, <2>6, StreamsAssumption DEF StreamsInv, TypeOK
<1> QED
  BY <1>3, <1>4, <1>5

-----------------------------------------------------------------------------
(* The steps of the WebSocket handler.                                     *)

LEMMA StartIsQuiet ==
  ASSUME StreamsInv, NEW c \in Runs, worker[c] = "none"
  PROVE  /\ published[c] = 0 /\ ~Calling(c) /\ ~hasQueue[c] /\ queue[c] = <<>>
BY DEF StreamsInv, PubInv, StreamInv, PlaceInv, TypeOK, Calling

LEMMA UpToNat ==
  ASSUME StreamsInv, NEW c \in Runs
  PROVE  QueuedUpTo(c) \in Nat /\ HeardUpTo(c) \in 0..Last
<1>1. published[c] \in 0..Last /\ (Calling(c) => published[c] # 0)
  BY DEF StreamsInv, TypeOK, PubInv
<1> QED
  BY <1>1, StreamsAssumption DEF QueuedUpTo, HeardUpTo

LEMMA InvWsStart ==
  ASSUME StreamsInv, NEW c \in Runs, WsStart(c)
  PROVE  PubInv' /\ \A d \in Runs : StreamInv(d)'
<1>1. /\ style[c] = "ws" /\ con[c] = "idle" /\ worker[c] = "none"
      /\ hasQueue' = [hasQueue EXCEPT ![c] = TRUE]
      /\ worker' = [worker EXCEPT ![c] = "running"] /\ con' = [con EXCEPT ![c] = "open"]
      /\ UNCHANGED <<style, published, pub, queue, listeners, inbox, out, left>>
  BY DEF WsStart, Launch, Become, StreamsInv, StreamInv, PlaceInv
<1>2. /\ hasQueue'[c] /\ worker'[c] = "running" /\ con'[c] = "open"
      /\ \A d \in Runs : d # c => /\ hasQueue'[d] = hasQueue[d] /\ worker'[d] = worker[d]
                                  /\ con'[d] = con[d]
  BY <1>1 DEF StreamsInv, TypeOK
<1>3. PubInv'
  <2>1. /\ style' = style /\ published' = published /\ pub' = pub /\ TypeOK /\ PubInv
        /\ \A r \in Runs :
           worker'[r] = worker[r] \/ (worker[r] = "none" /\ worker'[r] = "running")
        /\ \A d \in Runs :
             \/ con'[d] = con[d] /\ (d \in listeners' <=> d \in listeners)
             \/ con[d] \in {"idle", "started"}
    BY <1>1, <1>2 DEF StreamsInv
  <2> QED
    BY <2>1, PubFrame
<1>4. ASSUME NEW d \in Runs, d # c PROVE StreamInv(d)'
  <2>1. Same(d)
    BY <1>1, <1>2, <1>4 DEF Same
  <2> QED
    BY <2>1, OthersUntouched DEF StreamsInv
<1>5. StreamInv(c)'
  <2>1. /\ published[c] = 0 /\ ~Calling(c) /\ queue[c] = <<>> /\ inbox[c] = <<>>
        /\ out[c] = <<>> /\ c \notin left /\ PlaceInv(c)
    BY <1>1, StartIsQuiet DEF StreamsInv, StreamInv, WsInv
  <2>2. PlaceInv(c)'
    BY <1>1, <1>2, <2>1 DEF PlaceInv
  <2>3. Count(c, <<>>) = 0 /\ Stretch(c, <<>>, 0, 0) /\ Tagged(c, <<>>) = <<>>
    BY CountEmpty, StretchEmpty, EmptySeq, TaggedSeq
  <2>4. QueuedUpTo(c)' = 0
    BY <1>1, <1>2, <2>1 DEF QueuedUpTo, Calling
  <2>5. WsInv(c)'
    BY <1>1, <1>2, <2>1, <2>3, <2>4, StreamsAssumption DEF WsInv, Calling
  <2> QED
    BY <1>1, <2>2, <2>5 DEF StreamInv
<1> QED
  BY <1>3, <1>4, <1>5

LEMMA InvWsForward ==
  ASSUME StreamsInv, NEW c \in Runs, WsForward(c)
  PROVE  PubInv' /\ \A d \in Runs : StreamInv(d)'
<1> DEFINE item == <<c, Head(queue[c])>>
<1>1. /\ style[c] = "ws" /\ con[c] = "open" /\ queue[c] # <<>>
      /\ inbox' = Put(inbox, c, item)
      /\ queue' = [queue EXCEPT ![c] = Tail(@)]
      /\ UNCHANGED <<style, worker, published, pub, hasQueue, listeners, con, out, left>>
  BY DEF WsForward
<1>2. /\ inbox'[c] = Append(inbox[c], item) /\ queue'[c] = Tail(queue[c])
      /\ inbox[c] \in Seq(Item) /\ queue[c] \in Seq(Events) /\ item \in Item
      /\ \A d \in Runs : d # c => inbox'[d] = inbox[d] /\ queue'[d] = queue[d]
  BY <1>1, TailAt, ItemsAreEvents DEF StreamsInv, TypeOK, Put
<1> HIDE DEF item
<1>3. PubInv'
  <2>1. /\ style' = style /\ published' = published /\ pub' = pub /\ TypeOK /\ PubInv
        /\ worker' = worker /\ con' = con /\ listeners' = listeners
    BY <1>1 DEF StreamsInv
  <2> QED
    BY <2>1, PubFrame
<1>4. ASSUME NEW d \in Runs, d # c PROVE StreamInv(d)'
  <2>1. Same(d)
    BY <1>1, <1>2, <1>4 DEF Same
  <2> QED
    BY <2>1, OthersUntouched DEF StreamsInv
<1>5. StreamInv(c)'
  <2>1. PlaceInv(c) /\ WsInv(c)
    BY <1>1 DEF StreamsInv, StreamInv
  <2>2. PlaceInv(c)'
    BY <1>1, <2>1 DEF PlaceInv, WsInv
  <2>3. PICK d \in Nat : d = Count(c, out[c])
    BY <1>2, CountAppend DEF StreamsInv, TypeOK
  <2>4. PICK f \in Nat : /\ Stretch(c, inbox[c], d, f)
                         /\ Stretch(c, Tagged(c, queue[c]), f, QueuedUpTo(c))
    BY <1>1, <2>1, <2>3 DEF WsInv
  <2>5. PICK u \in Nat : u = QueuedUpTo(c)
    BY UpToNat
  <2>6. /\ Tagged(c, queue[c]) \in Seq(Item) /\ Tagged(c, queue[c]) # <<>>
        /\ Head(Tagged(c, queue[c])) = item
        /\ Tagged(c, queue'[c]) = Tail(Tagged(c, queue[c]))
    BY <1>1, <1>2, TaggedSeq DEF item
  <2>7. \E g \in Nat : Stretch(c, inbox'[c], d, g) /\ Stretch(c, Tagged(c, queue'[c]), g, u)
    <3>1. CASE No(c, item) = 0
      <4>1. Stretch(c, inbox'[c], d, f)
        BY <1>2, <2>4, <3>1, StretchBeside
      <4>2. Stretch(c, Tagged(c, queue'[c]), f, u)
        BY <2>4, <2>5, <2>6, <3>1, StretchRest
      <4> QED
        BY <4>1, <4>2
    <3>2. CASE No(c, item) # 0
      <4>1. No(c, item) = f + 1 /\ Stretch(c, Tagged(c, queue'[c]), f + 1, u)
        BY <2>4, <2>5, <2>6, <3>2, StretchRest
      <4>2. Stretch(c, inbox'[c], d, f + 1)
        BY <1>2, <2>4, <4>1, StretchNext
      <4> QED
        BY <4>1, <4>2
    <3> QED
      BY <3>1, <3>2
  <2>8. QueuedUpTo(c)' = u
    BY <1>1, <2>5 DEF QueuedUpTo, Calling
  <2>9. \A i \in 1..Len(inbox'[c]) : inbox'[c][i][1] = c
    <3>1. item[1] = c /\ Len(inbox[c]) \in Nat
      BY <1>2, LenProperties DEF item
    <3> QED
      BY <1>2, <2>1, <3>1, AppendProperties DEF WsInv
  <2>10. WsInv(c)'
    BY <1>1, <2>1, <2>3, <2>7, <2>8, <2>9 DEF WsInv, Calling
  <2> QED
    BY <1>1, <2>2, <2>10 DEF StreamInv
<1> QED
  BY <1>3, <1>4, <1>5

\* What the loop takes from the incoming queue, and what it makes of it; also
\* for the refinement.
LEMMA WsSendDoes ==
  ASSUME StreamsInv, NEW c \in Runs, WsSend(c)
  PROVE  LET x == Head(inbox[c])
             d == Count(c, out[c])
         IN /\ x \in Item /\ x[1] \in Runs /\ x[2] \in Events
            /\ con[c] \in {"open", "closed"} /\ d \in Nat
            /\ No(c, x) \in 1..Last <=> x[1] = c /\ x[2] \in 1..Last
            /\ No(c, x) \in 1..Last =>
                 /\ con[c] = "open" /\ No(c, x) = d + 1 /\ No(c, x) = x[2]
                 /\ Count(c, out'[c]) = d + 1 /\ Stretch(c, out'[c], 0, d + 1)
                 /\ d < published[c]
            /\ No(c, x) \notin 1..Last =>
                 Count(c, out'[c]) = d /\ Stretch(c, out'[c], 0, d)
            /\ con[c] = "open" /\ No(c, x) \notin 1..Last => No(c, x) = 0
<1> DEFINE x == Head(inbox[c])
<1>1. /\ style[c] = "ws" /\ inbox[c] # <<>>
      /\ out' = IF x[2] = Sentinel THEN out ELSE Put(out, c, x)
  BY DEF WsSend
<1>2. /\ inbox[c] \in Seq(Item) /\ out[c] \in Seq(Item) /\ queue[c] \in Seq(Events)
      /\ x = inbox[c][1] /\ x \in Item /\ 1 \in 1..Len(inbox[c])
      /\ x[1] \in Runs /\ x[2] \in Events
      /\ out'[c] = IF x[2] = Sentinel THEN out[c] ELSE Append(out[c], x)
  BY <1>1, TailAt, ItemsAreEvents DEF StreamsInv, TypeOK, Put
<1> HIDE DEF x
<1>3. PlaceInv(c) /\ WsInv(c)
  BY <1>1 DEF StreamsInv, StreamInv
<1>4. con[c] \in {"open", "closed"}
  BY <1>1, <1>3 DEF WsInv, PlaceInv
<1>5. No(c, x) \in 1..Last <=> x[1] = c /\ x[2] \in 1..Last
  BY StreamsAssumption DEF No, Sentinel
<1>6. PICK d \in Nat : d = Count(c, out[c])
  BY <1>2, CountAppend
<1>7. Stretch(c, out[c], 0, d) /\ d <= Last
  BY <1>3, <1>6 DEF WsInv
<1>8. ASSUME No(c, x) \in 1..Last
      PROVE  /\ con[c] = "open" /\ No(c, x) = d + 1 /\ No(c, x) = x[2]
             /\ Count(c, out'[c]) = d + 1 /\ Stretch(c, out'[c], 0, d + 1)
             /\ d < published[c]
  <2>1. con[c] = "open"
    BY <1>2, <1>3, <1>4, <1>8 DEF WsInv
  <2>2. PICK f \in Nat : /\ Stretch(c, inbox[c], d, f)
                         /\ Stretch(c, Tagged(c, queue[c]), f, QueuedUpTo(c))
    BY <1>3, <1>6, <2>1 DEF WsInv
  <2>3. No(c, x) = d + 1 /\ d < f
    <3>1. No(c, Head(inbox[c])) # 0
      BY <1>8 DEF x
    <3>2. No(c, Head(inbox[c])) = d + 1 /\ d < f
      BY <1>1, <1>2, <2>2, <3>1, StretchRest
    <3> QED
      BY <3>2 DEF x
  <2>4. f <= QueuedUpTo(c)
    BY <2>2 DEF Stretch
  <2>5. No(c, x) = x[2] /\ x[2] # Sentinel
    BY <1>8, StreamsAssumption DEF No, Sentinel
  <2>6. Stretch(c, out'[c], 0, d + 1)
    BY <1>2, <1>7, <2>3, <2>5, StretchNext
  <2>7. Count(c, out'[c]) = d + 1
    BY <1>2, <1>6, <1>8, <2>5, CountAppend
  <2>8. d < published[c]
    <3>1. published[c] \in 0..Last /\ (worker[c] = "ended" => published[c] = Last)
      BY DEF StreamsInv, TypeOK, PubInv
    <3>2. d < Last
      BY <1>8, <2>3, StreamsAssumption
    <3> QED
      BY <2>3, <2>4, <3>1, <3>2, StreamsAssumption DEF QueuedUpTo
  <2> QED
    BY <2>1, <2>3, <2>5, <2>6, <2>7, <2>8
<1>9. ASSUME No(c, x) \notin 1..Last
      PROVE  Count(c, out'[c]) = d /\ Stretch(c, out'[c], 0, d)
  <2>1. CASE x[2] = Sentinel
    BY <1>2, <1>6, <1>7, <2>1
  <2>2. CASE x[2] # Sentinel
    <3>1. No(c, x) = 0
      BY <1>2, <1>9, <2>2, ItemsAreEvents DEF No, Sentinel
    <3> QED
      BY <1>2, <1>6, <1>7, <1>9, <2>2, <3>1, StretchBeside, CountAppend
  <2> QED
    BY <2>1, <2>2
<1>10. ASSUME con[c] = "open", No(c, x) \notin 1..Last PROVE No(c, x) = 0
  <2>1. PICK f \in Nat : Stretch(c, inbox[c], d, f)
    BY <1>3, <1>6, <1>10 DEF WsInv
  <2>2. No(c, x) # 0 => No(c, x) = d + 1
    BY <1>1, <1>2, <2>1, StretchRest DEF x
  <2>3. d < Last
    BY <1>3, <1>6, <1>10 DEF WsInv
  <2> QED
    BY <1>10, <2>2, <2>3, StreamsAssumption
<1> QED
  BY <1>2, <1>4, <1>5, <1>6, <1>8, <1>9, <1>10 DEF x

LEMMA DestroyDoes ==
  ASSUME StreamsInv, NEW c \in Runs, DestroyQueue(c)
  PROVE  /\ ~hasQueue'[c] /\ queue'[c] = <<>>
         /\ \A d \in Runs : d # c => hasQueue'[d] = hasQueue[d] /\ queue'[d] = queue[d]
BY DEF DestroyQueue, StreamsInv, TypeOK

LEMMA BecomeDoes ==
  ASSUME StreamsInv, NEW c \in Runs, NEW label, Become(c, label)
  PROVE  con'[c] = label /\ \A d \in Runs : d # c => con'[d] = con[d]
BY DEF Become, StreamsInv, TypeOK

LEMMA InvWsSend ==
  ASSUME StreamsInv, NEW c \in Runs, WsSend(c)
  PROVE  PubInv' /\ \A d \in Runs : StreamInv(d)'
<1> DEFINE x == Head(inbox[c])
           ends == x[2] = Sentinel \/ Terminal(x[2])
<1>1. /\ style[c] = "ws" /\ inbox[c] # <<>>
      /\ inbox' = [inbox EXCEPT ![c] = Tail(@)]
      /\ out' = IF x[2] = Sentinel THEN out ELSE Put(out, c, x)
      /\ IF ends THEN DestroyQueue(c) /\ Become(c, "closed")
                 ELSE UNCHANGED <<hasQueue, queue, con>>
      /\ UNCHANGED <<style, worker, published, pub, listeners, left>>
  BY DEF WsSend
<1>2. /\ inbox[c] \in Seq(Item) /\ out[c] \in Seq(Item) /\ inbox'[c] = Tail(inbox[c])
      /\ \A d \in Runs : d # c => inbox'[d] = inbox[d] /\ out'[d] = out[d]
  BY <1>1 DEF StreamsInv, TypeOK, Put
<1>3. \A d \in Runs : d # c =>
        /\ hasQueue'[d] = hasQueue[d] /\ queue'[d] = queue[d] /\ con'[d] = con[d]
  BY <1>1, DestroyDoes, BecomeDoes
<1>4. PubInv'
  <2>1. /\ style' = style /\ published' = published /\ pub' = pub /\ TypeOK /\ PubInv
        /\ worker' = worker /\ listeners' = listeners
        /\ \A d \in Runs : con'[d] = con[d] \/ style[d] = "ws"
    BY <1>1, <1>3 DEF StreamsInv
  <2> QED
    BY <2>1, PubFrame
<1>5. ASSUME NEW d \in Runs, d # c PROVE StreamInv(d)'
  <2>1. Same(d)
    BY <1>1, <1>2, <1>3, <1>5 DEF Same
  <2> QED
    BY <2>1, OthersUntouched DEF StreamsInv
<1>6. StreamInv(c)'
  <2>1. PlaceInv(c) /\ WsInv(c) /\ con[c] \in {"open", "closed"}
    BY <1>1, WsSendDoes DEF StreamsInv, StreamInv
  <2>2. PICK d \in Nat : d = Count(c, out[c])
    BY WsSendDoes
  <2>3. /\ No(c, x) \in 1..Last <=> x[1] = c /\ x[2] \in 1..Last
        /\ No(c, x) \in 1..Last =>
             /\ con[c] = "open" /\ No(c, x) = d + 1 /\ No(c, x) = x[2]
             /\ Count(c, out'[c]) = d + 1 /\ Stretch(c, out'[c], 0, d + 1)
        /\ No(c, x) \notin 1..Last => Count(c, out'[c]) = d /\ Stretch(c, out'[c], 0, d)
        /\ con[c] = "open" /\ No(c, x) \notin 1..Last => No(c, x) = 0
    BY <2>2, WsSendDoes
  <2>4. \A i \in 1..Len(inbox'[c]) : i + 1 \in 1..Len(inbox[c]) /\ inbox'[c][i] = inbox[c][i + 1]
    <3>1. \A i \in 1..Len(Tail(inbox[c])) :
            i + 1 \in 1..Len(inbox[c]) /\ Tail(inbox[c])[i] = inbox[c][i + 1]
      BY <1>1, <1>2, TailAt
    <3> QED
      BY <1>2, <3>1
  <2>9. \A i \in 1..Len(inbox'[c]) : inbox'[c][i][1] = c
    BY <2>1, <2>4 DEF WsInv
  <2>5. x = inbox[c][1] /\ 1 \in 1..Len(inbox[c]) /\ x \in Item
    BY <1>1, <1>2, TailAt
  <2> HIDE DEF x
  <2>6. Terminal(x[2]) => x[2] = Last /\ x[2] \in 1..Last
    BY StreamsAssumption DEF Terminal
  <2>7. CASE con[c] = "closed"
    <3>1. /\ c \in left \/ d = Last
          /\ \A i \in 1..Len(inbox[c]) : No(c, inbox[c][i]) \notin 1..Last
          /\ d <= Last
      BY <2>1, <2>2, <2>7 DEF WsInv
    <3>2. Count(c, out'[c]) = d /\ Stretch(c, out'[c], 0, d)
      BY <2>3, <2>5, <3>1
    <3>3. \A i \in 1..Len(inbox'[c]) : No(c, inbox'[c][i]) \notin 1..Last
      BY <2>4, <3>1
    <3>4. con'[c] = "closed" /\ ~hasQueue'[c] /\ queue'[c] = <<>>
      BY <1>1, <2>1, <2>7, DestroyDoes, BecomeDoes DEF PlaceInv
    <3>5. PlaceInv(c)'
      BY <1>1, <2>1, <2>7, <3>4 DEF PlaceInv
    <3>6. WsInv(c)'
      BY <1>1, <2>9, <3>1, <3>2, <3>3, <3>4 DEF WsInv
    <3> QED
      BY <1>1, <3>5, <3>6 DEF StreamInv
  <2>8. CASE con[c] = "open"
    <3>1. PICK f \in Nat : /\ Stretch(c, inbox[c], d, f)
                           /\ Stretch(c, Tagged(c, queue[c]), f, QueuedUpTo(c))
      BY <2>1, <2>2, <2>8 DEF WsInv
    <3>2. /\ hasQueue[c] /\ (Calling(c) => pub[c].queued)
          /\ c \notin left /\ d < Last
      BY <2>1, <2>2, <2>8 DEF WsInv
    <3>3. QueuedUpTo(c)' = QueuedUpTo(c)
      BY <1>1 DEF QueuedUpTo, Calling
    <3>4. CASE ends
      <4>1. x[2] = Last /\ No(c, x) = Last /\ d + 1 = Last
        <5>1. x[1] = c
          BY <2>1, <2>5 DEF WsInv
        <5>2. x[2] # Sentinel
          <6>1. x[2] = Sentinel => No(c, x) = Last + 1
            BY <5>1, StreamsAssumption DEF No, Sentinel
          <6> QED
            BY <2>3, <2>8, <6>1, StreamsAssumption
        <5>3. x[2] = Last /\ x[2] \in 1..Last
          BY <2>6, <3>4, <5>2
        <5> QED
          BY <2>3, <5>1, <5>3
      <4>2. Count(c, out'[c]) = Last /\ Stretch(c, out'[c], 0, Last)
        BY <2>3, <4>1, StreamsAssumption
      <4>3. \A i \in 1..Len(inbox'[c]) : No(c, inbox'[c][i]) \notin 1..Last
        <5>1. Stretch(c, inbox'[c], d + 1, f)
          BY <1>1, <1>2, <3>1, <4>1, StretchRest, StreamsAssumption DEF x
        <5>2. d + 1 = Last
          BY <4>1
        <5>3. ASSUME NEW i \in 1..Len(inbox'[c]), No(c, inbox'[c][i]) # 0
              PROVE  Last < No(c, inbox'[c][i])
          BY <5>1, <5>2, <5>3 DEF Stretch
        <5>4. ASSUME NEW i \in 1..Len(inbox'[c])
              PROVE  No(c, inbox'[c][i]) \notin 1..Last
          <6>1. Last \in Nat
            BY StreamsAssumption
          <6>2. CASE No(c, inbox'[c][i]) = 0
            BY <6>1, <6>2
          <6>3. CASE No(c, inbox'[c][i]) # 0
            <7>1. PICK z : z = No(c, inbox'[c][i])
              OBVIOUS
            <7>2. Last < z
              BY <5>3, <6>3, <7>1
            <7>3. z \notin 1..Last
              BY <6>1, <7>2
            <7> QED
              BY <7>1, <7>3
          <6> QED
            BY <6>2, <6>3
        <5> QED
          BY <5>4
      <4>4. con'[c] = "closed" /\ ~hasQueue'[c] /\ queue'[c] = <<>>
        BY <1>1, <3>4, DestroyDoes, BecomeDoes
      <4>5. PlaceInv(c)'
        BY <1>1, <2>1, <2>8, <4>4 DEF PlaceInv
      <4>6. WsInv(c)'
        <5>1. PICK e : e = Count(c, out'[c]) /\ e = Last
          BY <4>2
        <5>2. e <= Last /\ Stretch(c, out'[c], 0, e)
          BY <4>2, <5>1, StreamsAssumption
        <5> QED
          BY <1>1, <2>9, <4>3, <4>4, <5>1, <5>2 DEF WsInv
      <4> QED
        BY <1>1, <4>5, <4>6 DEF StreamInv
    <3>5. CASE ~ends
      <4>1. con' = con /\ hasQueue' = hasQueue /\ queue' = queue
        BY <1>1, <3>5
      <4>2. PlaceInv(c)'
        BY <1>1, <2>1, <4>1 DEF PlaceInv
      <4>3. PICK e \in Nat : /\ e < Last /\ e = Count(c, out'[c]) /\ Stretch(c, out'[c], 0, e)
                             /\ Stretch(c, inbox'[c], e, f)
        <5>1. CASE No(c, x) \in 1..Last
          <6>1. Stretch(c, inbox'[c], d + 1, f) /\ d + 1 # Last
            BY <1>1, <1>2, <2>3, <3>1, <3>5, <5>1, StretchRest, StreamsAssumption DEF x, Terminal
          <6> QED
            BY <2>3, <3>2, <5>1, <6>1, StreamsAssumption
        <5>2. CASE No(c, x) \notin 1..Last
          <6>1. Stretch(c, inbox'[c], d, f)
            <7>1. No(c, Head(inbox[c])) = 0
              BY <2>3, <2>8, <5>2 DEF x
            <7>2. inbox[c] # <<>> /\ inbox[c] \in Seq(Item) /\ inbox'[c] = Tail(inbox[c])
              BY <1>1, <1>2
            <7>3. Stretch(c, inbox[c], d, f)
              BY <3>1
            <7>4. Stretch(c, Tail(inbox[c]), d, f)
              BY <7>1, <7>2, <7>3, StretchRest
            <7> QED
              BY <7>2, <7>4
          <6> QED
            BY <2>3, <3>2, <5>2, <6>1
        <5> QED
          BY <5>1, <5>2
      <4>4. WsInv(c)'
        <5>1. /\ hasQueue'[c] /\ (Calling(c)' => pub'[c].queued)
              /\ c \notin left' /\ con'[c] = "open" /\ e <= Last
          BY <1>1, <2>8, <3>2, <4>1, <4>3, StreamsAssumption DEF Calling
        <5>2. Stretch(c, Tagged(c, queue'[c]), f, QueuedUpTo(c)')
          BY <3>1, <3>3, <4>1
        <5> QED
          BY <2>9, <4>3, <5>1, <5>2 DEF WsInv
      <4> QED
        BY <1>1, <4>2, <4>4 DEF StreamInv
    <3> QED
      BY <3>4, <3>5
  <2> QED
    BY <2>1, <2>7, <2>8
<1> QED
  BY <1>4, <1>5, <1>6

LEMMA InvWsDrop ==
  ASSUME StreamsInv, NEW c \in Runs, WsDrop(c)
  PROVE  PubInv' /\ \A d \in Runs : StreamInv(d)'
<1>1. /\ style[c] = "ws" /\ con[c] = "open" /\ DestroyQueue(c) /\ Become(c, "closed")
      /\ left' = left \cup {c} /\ inbox' = [inbox EXCEPT ![c] = <<>>]
      /\ UNCHANGED <<style, worker, published, pub, listeners, out>>
  BY DEF WsDrop
<1>2. /\ con'[c] = "closed" /\ ~hasQueue'[c] /\ queue'[c] = <<>> /\ inbox'[c] = <<>>
      /\ \A d \in Runs : d # c => /\ hasQueue'[d] = hasQueue[d] /\ queue'[d] = queue[d]
                                  /\ con'[d] = con[d] /\ inbox'[d] = inbox[d]
  BY <1>1, DestroyDoes, BecomeDoes DEF StreamsInv, TypeOK
<1>3. PubInv'
  <2>1. /\ style' = style /\ published' = published /\ pub' = pub /\ TypeOK /\ PubInv
        /\ worker' = worker /\ listeners' = listeners
        /\ \A d \in Runs : con'[d] = con[d] \/ style[d] = "ws"
    BY <1>1, <1>2 DEF StreamsInv
  <2> QED
    BY <2>1, PubFrame
<1>4. ASSUME NEW d \in Runs, d # c PROVE StreamInv(d)'
  <2>1. Same(d)
    BY <1>1, <1>2, <1>4 DEF Same
  <2> QED
    BY <2>1, OthersUntouched DEF StreamsInv
<1>5. StreamInv(c)'
  <2>1. PlaceInv(c) /\ WsInv(c)
    BY <1>1 DEF StreamsInv, StreamInv
  <2>2. PlaceInv(c)'
    BY <1>1, <1>2, <2>1 DEF PlaceInv
  <2>3. WsInv(c)'
    BY <1>1, <1>2, <2>1, EmptySeq DEF WsInv
  <2> QED
    BY <1>1, <2>2, <2>3 DEF StreamInv
<1> QED
  BY <1>3, <1>4, <1>5

-----------------------------------------------------------------------------
(* The steps of _stream_events.                                            *)

LEMMA InvSseSubscribe ==
  ASSUME StreamsInv, NEW c \in Runs, SseSubscribe(c)
  PROVE  PubInv' /\ \A d \in Runs : StreamInv(d)'
<1>1. /\ style[c] = "sse" /\ con[c] = "idle" /\ listeners' = listeners \cup {c}
      /\ Become(c, "subscribed")
      /\ UNCHANGED <<style, worker, published, pub, hasQueue, queue, inbox, out, left>>
  BY DEF SseSubscribe
<1>2. con'[c] = "subscribed" /\ \A d \in Runs : d # c => con'[d] = con[d]
  BY <1>1, BecomeDoes
<1>3. PubInv'
  <2>1. /\ style' = style /\ published' = published /\ pub' = pub /\ TypeOK /\ PubInv
        /\ \A r \in Runs :
             worker'[r] = worker[r] \/ (worker[r] = "none" /\ worker'[r] = "running")
        /\ \A d \in Runs :
             \/ con'[d] = con[d] /\ (d \in listeners' <=> d \in listeners)
             \/ con[d] \in {"idle", "started"}
             \/ con'[d] = "closed"
             \/ con'[d] \notin {"idle", "started"} /\ d \in listeners'
    BY <1>1, <1>2 DEF StreamsInv
  <2> QED
    BY <2>1, PubFrame
<1>4. ASSUME NEW d \in Runs, d # c PROVE StreamInv(d)'
  <2>1. Same(d)
    BY <1>1, <1>2, <1>4 DEF Same
  <2> QED
    BY <2>1, OthersUntouched DEF StreamsInv
<1>5. StreamInv(c)'
  <2>1. PlaceInv(c) /\ SseInv(c) /\ worker[c] = "none" /\ out[c] = <<>>
    BY <1>1 DEF StreamsInv, StreamInv, PlaceInv, SseInv
  <2>2. published[c] = 0 /\ ~Calling(c)
    BY <2>1, StartIsQuiet
  <2>3. PlaceInv(c)'
    BY <1>1, <1>2, <2>1 DEF PlaceInv
  <2>4. HeardUpTo(c)' = 0 /\ Count(c, out[c]) = 0
    BY <1>1, <2>1, <2>2, CountEmpty DEF HeardUpTo, Calling
  <2>5. SseInv(c)'
    BY <1>1, <1>2, <2>1, <2>4 DEF SseInv
  <2> QED
    BY <1>1, <2>3, <2>5 DEF StreamInv
<1> QED
  BY <1>3, <1>4, <1>5

LEMMA InvSseStart ==
  ASSUME StreamsInv, NEW c \in Runs, SseStart(c)
  PROVE  PubInv' /\ \A d \in Runs : StreamInv(d)'
<1>1. /\ style[c] = "sse" /\ con[c] = "subscribed" /\ Become(c, "open")
      /\ hasQueue' = [hasQueue EXCEPT ![c] = TRUE]
      /\ worker' = [worker EXCEPT ![c] = "running"] /\ worker[c] = "none"
      /\ UNCHANGED <<style, published, pub, queue, listeners, inbox, out, left>>
  BY DEF SseStart, Launch, StreamsInv, StreamInv, PlaceInv
<1>2. /\ con'[c] = "open" /\ \A d \in Runs : d # c => con'[d] = con[d]
      /\ hasQueue'[c] /\ worker'[c] = "running"
      /\ \A d \in Runs : d # c => hasQueue'[d] = hasQueue[d] /\ worker'[d] = worker[d]
  BY <1>1, BecomeDoes DEF StreamsInv, TypeOK
<1>3. PubInv'
  <2>0. c \in listeners
    BY <1>1 DEF StreamsInv, StreamInv, PlaceInv
  <2>1. /\ style' = style /\ published' = published /\ pub' = pub /\ TypeOK /\ PubInv
        /\ \A r \in Runs :
             worker'[r] = worker[r] \/ (worker[r] = "none" /\ worker'[r] = "running")
        /\ \A d \in Runs :
             \/ con'[d] = con[d] /\ (d \in listeners' <=> d \in listeners)
             \/ con[d] \in {"idle", "started"}
             \/ con'[d] = "closed"
             \/ con'[d] \notin {"idle", "started"} /\ d \in listeners'
    BY <1>1, <1>2, <2>0 DEF StreamsInv
  <2> QED
    BY <2>1, PubFrame
<1>4. ASSUME NEW d \in Runs, d # c PROVE StreamInv(d)'
  <2>1. Same(d)
    BY <1>1, <1>2, <1>4 DEF Same
  <2> QED
    BY <2>1, OthersUntouched DEF StreamsInv
<1>5. StreamInv(c)'
  <2>1. PlaceInv(c) /\ SseInv(c) /\ queue[c] = <<>>
    BY <1>1, StartIsQuiet DEF StreamsInv, StreamInv
  <2>2. PlaceInv(c)'
    BY <1>1, <1>2, <2>1 DEF PlaceInv
  <2>3. HeardUpTo(c)' = HeardUpTo(c)
    BY <1>1 DEF HeardUpTo, Calling
  <2>4. SseInv(c)'
    BY <1>1, <1>2, <2>1, <2>3, EmptySeq DEF SseInv
  <2> QED
    BY <1>1, <2>2, <2>4 DEF StreamInv
<1> QED
  BY <1>3, <1>4, <1>5

LEMMA InvSseGet ==
  ASSUME StreamsInv, NEW c \in Runs, SseGet(c)
  PROVE  PubInv' /\ \A d \in Runs : StreamInv(d)'
<1> DEFINE e == Head(queue[c])
           label == IF e = Sentinel \/ Terminal(e) THEN "closing" ELSE "open"
<1>1. /\ style[c] = "sse" /\ con[c] = "open" /\ queue[c] # <<>> /\ Become(c, label)
      /\ queue' = [queue EXCEPT ![c] = Tail(@)]
      /\ UNCHANGED <<style, worker, published, pub, hasQueue, listeners, inbox, out, left>>
  BY DEF SseGet
<1>2. /\ con'[c] = label /\ \A d \in Runs : d # c => con'[d] = con[d]
      /\ queue'[c] = Tail(queue[c]) /\ \A d \in Runs : d # c => queue'[d] = queue[d]
  BY <1>1, BecomeDoes DEF StreamsInv, TypeOK
<1>0. PlaceInv(c) /\ SseInv(c) /\ c \in listeners
  BY <1>1 DEF StreamsInv, StreamInv, PlaceInv
<1>3. PubInv'
  <2>1. /\ style' = style /\ published' = published /\ pub' = pub /\ TypeOK /\ PubInv
        /\ \A r \in Runs :
             worker'[r] = worker[r] \/ (worker[r] = "none" /\ worker'[r] = "running")
        /\ \A d \in Runs :
             \/ con'[d] = con[d] /\ (d \in listeners' <=> d \in listeners)
             \/ con[d] \in {"idle", "started"}
             \/ con'[d] = "closed"
             \/ con'[d] \notin {"idle", "started"} /\ d \in listeners'
    BY <1>1, <1>2, <1>0 DEF StreamsInv
  <2> QED
    BY <2>1, PubFrame
<1>4. ASSUME NEW d \in Runs, d # c PROVE StreamInv(d)'
  <2>1. Same(d)
    BY <1>1, <1>2, <1>4 DEF Same
  <2> QED
    BY <2>1, OthersUntouched DEF StreamsInv
<1>5. StreamInv(c)'
  <2>1. queue[c] # <<>> /\ queue[c] \in Seq(Events)
    BY <1>1 DEF StreamsInv, TypeOK
  <2>2. /\ e = queue[c][1] /\ 1 \in 1..Len(queue[c])
        /\ \A i \in 1..Len(Tail(queue[c])) :
             i + 1 \in 1..Len(queue[c]) /\ Tail(queue[c])[i] = queue[c][i + 1]
    BY <2>1, TailAt
  <2>3. PlaceInv(c)'
    BY <1>0, <1>1, <1>2, <2>1 DEF PlaceInv
  <2>4. HeardUpTo(c)' = HeardUpTo(c)
    BY <1>1 DEF HeardUpTo, Calling
  <2>5. label = "closing" => e \in {Sentinel, Last}
    BY DEF Terminal
  <2> HIDE DEF e
  <2>6. c \notin left => \A i \in 1..Len(queue[c]) :
                           queue[c][i] \in {Sentinel, Last} => Count(c, out[c]) = Last
    BY <1>0, <1>1 DEF SseInv
  <2>7. c \notin left /\ label = "closing" => Count(c, out[c]) = Last
    BY <2>2, <2>5, <2>6
  <2>8. c \notin left => \A i \in 1..Len(queue'[c]) :
                           queue'[c][i] \in {Sentinel, Last} => Count(c, out[c]) = Last
    BY <1>2, <2>2, <2>6
  <2>9. label \in {"closing", "open"}
    OBVIOUS
  <2> HIDE DEF label
  <2>10. SseInv(c)'
    BY <1>0, <1>1, <1>2, <2>4, <2>7, <2>8, <2>9 DEF SseInv
  <2> QED
    BY <1>1, <2>3, <2>10 DEF StreamInv
<1> QED
  BY <1>3, <1>4, <1>5

LEMMA InvSseFails ==
  ASSUME StreamsInv, NEW c \in Runs, SseFails(c)
  PROVE  PubInv' /\ \A d \in Runs : StreamInv(d)'
<1>1. /\ style[c] = "sse" /\ con[c] = "subscribed" /\ Become(c, "closed")
      /\ left' = left \cup {c}
      /\ UNCHANGED <<style, worker, published, pub, hasQueue, queue, listeners, inbox, out>>
  BY DEF SseFails, bus
<1>2. con'[c] = "closed" /\ \A d \in Runs : d # c => con'[d] = con[d]
  BY <1>1, BecomeDoes
<1>0. PlaceInv(c) /\ SseInv(c) /\ c \in listeners
  BY <1>1 DEF StreamsInv, StreamInv, PlaceInv
<1>3. PubInv'
  <2>1. /\ style' = style /\ published' = published /\ pub' = pub /\ TypeOK /\ PubInv
        /\ \A r \in Runs :
             worker'[r] = worker[r] \/ (worker[r] = "none" /\ worker'[r] = "running")
        /\ \A d \in Runs :
             \/ con'[d] = con[d] /\ (d \in listeners' <=> d \in listeners)
             \/ con[d] \in {"idle", "started"}
             \/ con'[d] = "closed"
             \/ con'[d] \notin {"idle", "started"} /\ d \in listeners'
    BY <1>1, <1>2, <1>0 DEF StreamsInv
  <2> QED
    BY <2>1, PubFrame
<1>4. ASSUME NEW d \in Runs, d # c PROVE StreamInv(d)'
  <2>1. Same(d)
    BY <1>1, <1>2, <1>4 DEF Same
  <2> QED
    BY <2>1, OthersUntouched DEF StreamsInv
<1>5. StreamInv(c)'
  <2>1. PlaceInv(c)'
    BY <1>0, <1>1, <1>2 DEF PlaceInv, StreamsInv, TypeOK
  <2>2. HeardUpTo(c)' = HeardUpTo(c)
    BY <1>1 DEF HeardUpTo, Calling
  <2>3. SseInv(c)'
    BY <1>0, <1>1, <1>2, <2>2 DEF SseInv
  <2> QED
    BY <1>1, <2>1, <2>3 DEF StreamInv
<1> QED
  BY <1>3, <1>4, <1>5

LEMMA InvSseTimeout ==
  ASSUME StreamsInv, NEW c \in Runs, SseTimeout(c)
  PROVE  PubInv' /\ \A d \in Runs : StreamInv(d)'
<1>1. /\ style[c] = "sse" /\ con[c] = "open" /\ Become(c, "closing")
      /\ left' = left \cup {c}
      /\ UNCHANGED <<style, worker, published, pub, hasQueue, queue, listeners, inbox, out>>
  BY DEF SseTimeout, bus
<1>2. con'[c] = "closing" /\ \A d \in Runs : d # c => con'[d] = con[d]
  BY <1>1, BecomeDoes
<1>0. PlaceInv(c) /\ SseInv(c) /\ c \in listeners
  BY <1>1 DEF StreamsInv, StreamInv, PlaceInv
<1>3. PubInv'
  <2>1. /\ style' = style /\ published' = published /\ pub' = pub /\ TypeOK /\ PubInv
        /\ \A r \in Runs :
             worker'[r] = worker[r] \/ (worker[r] = "none" /\ worker'[r] = "running")
        /\ \A d \in Runs :
             \/ con'[d] = con[d] /\ (d \in listeners' <=> d \in listeners)
             \/ con[d] \in {"idle", "started"}
             \/ con'[d] = "closed"
             \/ con'[d] \notin {"idle", "started"} /\ d \in listeners'
    BY <1>1, <1>2, <1>0 DEF StreamsInv
  <2> QED
    BY <2>1, PubFrame
<1>4. ASSUME NEW d \in Runs, d # c PROVE StreamInv(d)'
  <2>1. Same(d)
    BY <1>1, <1>2, <1>4 DEF Same
  <2> QED
    BY <2>1, OthersUntouched DEF StreamsInv
<1>5. StreamInv(c)'
  <2>1. PlaceInv(c)'
    BY <1>0, <1>1, <1>2 DEF PlaceInv
  <2>2. HeardUpTo(c)' = HeardUpTo(c)
    BY <1>1 DEF HeardUpTo, Calling
  <2>3. SseInv(c)'
    BY <1>0, <1>1, <1>2, <2>2 DEF SseInv
  <2> QED
    BY <1>1, <2>1, <2>3 DEF StreamInv
<1> QED
  BY <1>3, <1>4, <1>5

-----------------------------------------------------------------------------
(* The steps of stream_request, and the end of a stream.                   *)

LEMMA InvInStart ==
  ASSUME StreamsInv, NEW c \in Runs, InStart(c)
  PROVE  PubInv' /\ \A d \in Runs : StreamInv(d)'
<1>1. /\ style[c] = "inproc" /\ con[c] = "idle" /\ Become(c, "started")
      /\ hasQueue' = [hasQueue EXCEPT ![c] = TRUE]
      /\ worker' = [worker EXCEPT ![c] = "running"] /\ worker[c] = "none"
      /\ UNCHANGED <<style, published, pub, queue, listeners, inbox, out, left>>
  BY DEF InStart, Launch, StreamsInv, StreamInv, PlaceInv
<1>2. /\ con'[c] = "started" /\ \A d \in Runs : d # c => con'[d] = con[d]
      /\ hasQueue'[c] /\ worker'[c] = "running"
      /\ \A d \in Runs : d # c => hasQueue'[d] = hasQueue[d] /\ worker'[d] = worker[d]
  BY <1>1, BecomeDoes DEF StreamsInv, TypeOK
<1>3. PubInv'
  <2>1. /\ style' = style /\ published' = published /\ pub' = pub /\ TypeOK /\ PubInv
        /\ \A r \in Runs :
             worker'[r] = worker[r] \/ (worker[r] = "none" /\ worker'[r] = "running")
        /\ \A d \in Runs :
             \/ con'[d] = con[d] /\ (d \in listeners' <=> d \in listeners)
             \/ con[d] \in {"idle", "started"}
             \/ con'[d] = "closed"
             \/ con'[d] \notin {"idle", "started"} /\ d \in listeners'
    BY <1>1, <1>2 DEF StreamsInv
  <2> QED
    BY <2>1, PubFrame
<1>4. ASSUME NEW d \in Runs, d # c PROVE StreamInv(d)'
  <2>1. Same(d)
    BY <1>1, <1>2, <1>4 DEF Same
  <2> QED
    BY <2>1, OthersUntouched DEF StreamsInv
<1>5. StreamInv(c)'
  <2>1. PlaceInv(c) /\ InprocInv(c)
    BY <1>1 DEF StreamsInv, StreamInv
  <2>2. PlaceInv(c)'
    BY <1>1, <1>2, <2>1 DEF PlaceInv
  <2>3. InprocInv(c)'
    BY <1>1, <1>2, <2>1 DEF InprocInv
  <2> QED
    BY <1>1, <2>2, <2>3 DEF StreamInv
<1> QED
  BY <1>3, <1>4, <1>5

LEMMA InvInSubscribe ==
  ASSUME StreamsInv, NEW c \in Runs, InSubscribe(c)
  PROVE  PubInv' /\ \A d \in Runs : StreamInv(d)'
<1>1. /\ style[c] = "inproc" /\ con[c] = "started" /\ listeners' = listeners \cup {c}
      /\ Become(c, "open")
      /\ UNCHANGED <<style, worker, published, pub, hasQueue, queue, inbox, out, left>>
  BY DEF InSubscribe
<1>2. con'[c] = "open" /\ \A d \in Runs : d # c => con'[d] = con[d]
  BY <1>1, BecomeDoes
<1>3. PubInv'
  <2>1. /\ style' = style /\ published' = published /\ pub' = pub /\ TypeOK /\ PubInv
        /\ \A r \in Runs :
             worker'[r] = worker[r] \/ (worker[r] = "none" /\ worker'[r] = "running")
        /\ \A d \in Runs :
             \/ con'[d] = con[d] /\ (d \in listeners' <=> d \in listeners)
             \/ con[d] \in {"idle", "started"}
             \/ con'[d] = "closed"
             \/ con'[d] \notin {"idle", "started"} /\ d \in listeners'
    BY <1>1, <1>2 DEF StreamsInv
  <2> QED
    BY <2>1, PubFrame
<1>4. ASSUME NEW d \in Runs, d # c PROVE StreamInv(d)'
  <2>1. Same(d)
    BY <1>1, <1>2, <1>4 DEF Same
  <2> QED
    BY <2>1, OthersUntouched DEF StreamsInv
<1>5. StreamInv(c)'
  <2>1. PlaceInv(c) /\ InprocInv(c) /\ inbox[c] = <<>> /\ out[c] = <<>>
    BY <1>1 DEF StreamsInv, StreamInv, InprocInv
  <2>2. PlaceInv(c)'
    BY <1>1, <1>2, <2>1 DEF PlaceInv
  <2>3. HeardUpTo(c)' = published[c] /\ published[c] \in 0..Last
    <3>1. Calling(c) => c \notin pub[c].calls
      BY <1>1 DEF StreamsInv, PubInv, Publishers
    <3> QED
      BY <1>1, <3>1 DEF HeardUpTo, Calling, StreamsInv, TypeOK
  <2>4. PICK k \in Nat : k = published[c] /\ k <= Last
    BY <2>3, StreamsAssumption
  <2>5. Count(c, <<>>) = 0 /\ Stretch(c, <<>>, k, k)
    BY CountEmpty, StretchEmpty
  <2>6. InprocInv(c)'
    BY <1>1, <1>2, <2>1, <2>3, <2>4, <2>5 DEF InprocInv
  <2> QED
    BY <1>1, <2>2, <2>6 DEF StreamInv
<1> QED
  BY <1>3, <1>4, <1>5

LEMMA InvInYield ==
  ASSUME StreamsInv, NEW c \in Runs, InYield(c)
  PROVE  PubInv' /\ \A d \in Runs : StreamInv(d)'
<1> DEFINE x == Head(inbox[c])
           label == IF Terminal(x[2]) THEN "closing" ELSE "open"
<1>1. /\ style[c] = "inproc" /\ con[c] = "open" /\ inbox[c] # <<>>
      /\ out' = Put(out, c, x) /\ inbox' = [inbox EXCEPT ![c] = Tail(@)]
      /\ Become(c, label)
      /\ UNCHANGED <<style, worker, published, pub, hasQueue, queue, listeners, left>>
  BY DEF InYield, bus
<1>2. /\ con'[c] = label /\ label \in {"closing", "open"}
      /\ \A d \in Runs : d # c => con'[d] = con[d]
      /\ inbox[c] \in Seq(Item) /\ out[c] \in Seq(Item) /\ x \in Item
      /\ inbox'[c] = Tail(inbox[c]) /\ out'[c] = Append(out[c], x)
      /\ \A d \in Runs : d # c => inbox'[d] = inbox[d] /\ out'[d] = out[d]
  BY <1>1, BecomeDoes, TailAt DEF StreamsInv, TypeOK, Put
<1> HIDE DEF x, label
<1>0. PlaceInv(c) /\ InprocInv(c) /\ c \in listeners
  BY <1>1 DEF StreamsInv, StreamInv, PlaceInv
<1>3. PubInv'
  <2>1. /\ style' = style /\ published' = published /\ pub' = pub /\ TypeOK /\ PubInv
        /\ \A r \in Runs :
             worker'[r] = worker[r] \/ (worker[r] = "none" /\ worker'[r] = "running")
        /\ \A d \in Runs :
             \/ con'[d] = con[d] /\ (d \in listeners' <=> d \in listeners)
             \/ con[d] \in {"idle", "started"}
             \/ con'[d] = "closed"
             \/ con'[d] \notin {"idle", "started"} /\ d \in listeners'
    BY <1>1, <1>2, <1>0 DEF StreamsInv
  <2> QED
    BY <2>1, PubFrame
<1>4. ASSUME NEW d \in Runs, d # c PROVE StreamInv(d)'
  <2>1. Same(d)
    BY <1>1, <1>2, <1>4 DEF Same
  <2> QED
    BY <2>1, OthersUntouched DEF StreamsInv
<1>5. StreamInv(c)'
  <2>1. PlaceInv(c)'
    BY <1>0, <1>1, <1>2 DEF PlaceInv
  <2>2. PICK d \in Nat, h \in 0..Last : d = Count(c, out[c]) /\ h = HeardUpTo(c)
    BY <1>2, UpToNat, CountAppend
  <2>3. HeardUpTo(c)' = h
    BY <1>1, <2>2 DEF HeardUpTo, Calling
  <2>4. PICK k \in Nat : /\ k + d <= Last /\ Stretch(c, out[c], k, k + d)
                         /\ Stretch(c, inbox[c], k + d, h)
    BY <1>0, <1>1, <2>2 DEF InprocInv
  <2>5. PICK m \in Nat : m = k + d
    OBVIOUS
  <2>6. inbox[c] # <<>> /\ Stretch(c, inbox[c], m, h) /\ Stretch(c, out[c], k, m)
        /\ h \in Nat /\ h <= Last /\ m <= Last
    BY <1>1, <2>4, <2>5, StreamsAssumption
  <2>7. PICK n \in Nat : /\ n = Count(c, out'[c]) /\ k + n <= Last
                         /\ Stretch(c, out'[c], k, k + n) /\ Stretch(c, inbox'[c], k + n, h)
    <3>1. CASE No(c, x) = 0
      <4>1. Stretch(c, inbox'[c], m, h)
        BY <1>2, <2>6, <3>1, StretchRest DEF x
      <4>2. Stretch(c, out'[c], k, m)
        BY <1>2, <2>6, <3>1, StretchBeside
      <4>3. Count(c, out'[c]) = d
        BY <1>2, <2>2, <3>1, CountAppend
      <4> QED
        BY <2>5, <2>6, <4>1, <4>2, <4>3
    <3>2. CASE No(c, x) # 0
      <4>0. No(c, Head(inbox[c])) # 0
        BY <3>2 DEF x
      <4>1. /\ No(c, Head(inbox[c])) = m + 1 /\ m < h
            /\ Stretch(c, Tail(inbox[c]), m + 1, h)
        BY <1>2, <2>6, <4>0, StretchRest
      <4>2. No(c, x) = m + 1 /\ m + 1 <= Last /\ No(c, x) \in 1..Last
        BY <2>6, <4>1, StreamsAssumption DEF x
      <4>3. Stretch(c, out'[c], k, m + 1)
        BY <1>2, <2>6, <4>2, StretchNext
      <4>4. Count(c, out'[c]) = d + 1
        BY <1>2, <2>2, <4>2, CountAppend
      <4> QED
        BY <1>2, <2>5, <4>1, <4>2, <4>3, <4>4
    <3> QED
      BY <3>1, <3>2
  <2>8. InprocInv(c)'
    BY <1>2, <2>3, <2>7 DEF InprocInv
  <2> QED
    BY <1>1, <2>1, <2>8 DEF StreamInv
<1> QED
  BY <1>3, <1>4, <1>5

LEMMA InvInTimeout ==
  ASSUME StreamsInv, NEW c \in Runs, InTimeout(c)
  PROVE  PubInv' /\ \A d \in Runs : StreamInv(d)'
<1> DEFINE x == <<c, TimedOut>>
<1>1. /\ style[c] = "inproc" /\ con[c] = "open" /\ out' = Put(out, c, x)
      /\ Become(c, "closing") /\ left' = left \cup {c}
      /\ UNCHANGED <<style, worker, published, pub, hasQueue, queue, listeners, inbox>>
  BY DEF InTimeout, bus
<1>2. /\ con'[c] = "closing" /\ \A d \in Runs : d # c => con'[d] = con[d]
      /\ out[c] \in Seq(Item) /\ x \in Item /\ out'[c] = Append(out[c], x)
      /\ \A d \in Runs : d # c => out'[d] = out[d]
  BY <1>1, BecomeDoes, ItemsAreEvents DEF StreamsInv, TypeOK, Put
<1>0. /\ PlaceInv(c) /\ InprocInv(c) /\ c \in listeners
      /\ No(c, x) = 0
  BY <1>1, StreamsAssumption DEF StreamsInv, StreamInv, PlaceInv, No, TimedOut
<1> HIDE DEF x
<1>3. PubInv'
  <2>1. /\ style' = style /\ published' = published /\ pub' = pub /\ TypeOK /\ PubInv
        /\ \A r \in Runs :
             worker'[r] = worker[r] \/ (worker[r] = "none" /\ worker'[r] = "running")
        /\ \A d \in Runs :
             \/ con'[d] = con[d] /\ (d \in listeners' <=> d \in listeners)
             \/ con[d] \in {"idle", "started"}
             \/ con'[d] = "closed"
             \/ con'[d] \notin {"idle", "started"} /\ d \in listeners'
    BY <1>1, <1>2, <1>0 DEF StreamsInv
  <2> QED
    BY <2>1, PubFrame
<1>4. ASSUME NEW d \in Runs, d # c PROVE StreamInv(d)'
  <2>1. Same(d)
    BY <1>1, <1>2, <1>4 DEF Same
  <2> QED
    BY <2>1, OthersUntouched DEF StreamsInv
<1>5. StreamInv(c)'
  <2>1. PlaceInv(c)'
    BY <1>0, <1>1, <1>2 DEF PlaceInv
  <2>2. PICK d \in Nat : d = Count(c, out[c])
    BY <1>2, CountAppend
  <2>3. PICK k \in Nat : k + d <= Last /\ Stretch(c, out[c], k, k + d)
    BY <1>0, <1>1, <2>2 DEF InprocInv
  <2>4. PICK m \in Nat : m = k + d
    OBVIOUS
  <2>5. Stretch(c, out'[c], k, m)
    BY <1>0, <1>2, <2>3, <2>4, StretchBeside
  <2>6. Count(c, out'[c]) = d
    BY <1>0, <1>2, <2>2, CountAppend
  <2>7. InprocInv(c)'
    BY <1>2, <2>3, <2>4, <2>5, <2>6 DEF InprocInv
  <2> QED
    BY <1>1, <2>1, <2>7 DEF StreamInv
<1> QED
  BY <1>3, <1>4, <1>5

LEMMA InvCloseStream ==
  ASSUME StreamsInv, NEW c \in Runs, CloseStream(c)
  PROVE  PubInv' /\ \A d \in Runs : StreamInv(d)'
<1>1. /\ con[c] = "closing" /\ listeners' = listeners \ {c}
      /\ DestroyQueue(c) /\ Become(c, "closed")
      /\ UNCHANGED <<style, worker, published, pub, inbox, out, left>>
  BY DEF CloseStream
<1>2. /\ con'[c] = "closed" /\ ~hasQueue'[c] /\ queue'[c] = <<>>
      /\ \A d \in Runs : d # c => /\ hasQueue'[d] = hasQueue[d] /\ queue'[d] = queue[d]
                                  /\ con'[d] = con[d]
  BY <1>1, DestroyDoes, BecomeDoes
<1>3. PubInv'
  <2>1. /\ style' = style /\ published' = published /\ pub' = pub /\ TypeOK /\ PubInv
        /\ \A r \in Runs :
             worker'[r] = worker[r] \/ (worker[r] = "none" /\ worker'[r] = "running")
        /\ \A d \in Runs :
             \/ con'[d] = con[d] /\ (d \in listeners' <=> d \in listeners)
             \/ con[d] \in {"idle", "started"}
             \/ con'[d] = "closed"
             \/ con'[d] \notin {"idle", "started"} /\ d \in listeners'
    BY <1>1, <1>2 DEF StreamsInv
  <2> QED
    BY <2>1, PubFrame
<1>4. ASSUME NEW d \in Runs, d # c PROVE StreamInv(d)'
  <2>1. Same(d)
    BY <1>1, <1>2, <1>4 DEF Same
  <2> QED
    BY <2>1, OthersUntouched DEF StreamsInv
<1>5. StreamInv(c)'
  <2>1. PlaceInv(c) /\ StreamInv(c) /\ style[c] \in {"ws", "sse", "inproc"}
    BY StreamsAssumption DEF StreamsInv, StreamInv, TypeOK
  <2>2. style[c] # "ws"
    BY <1>1, <2>1 DEF PlaceInv
  <2>3. PlaceInv(c)'
    BY <1>1, <1>2, <2>1, <2>2 DEF PlaceInv
  <2>4. style[c] = "sse" => SseInv(c)'
    BY <1>1, <1>2, <2>1 DEF StreamInv, SseInv
  <2>5. style[c] = "inproc" => InprocInv(c)'
    BY <1>1, <1>2, <2>1 DEF StreamInv, InprocInv
  <2> QED
    BY <1>1, <2>2, <2>3, <2>4, <2>5 DEF StreamInv
<1> QED
  BY <1>3, <1>4, <1>5

-----------------------------------------------------------------------------
(* The theorems.                                                           *)

LEMMA InvNext == StreamsInv /\ [Next]_vars => StreamsInv'
<1> SUFFICES ASSUME StreamsInv, [Next]_vars PROVE StreamsInv'
  OBVIOUS
<1>0. TypeOK'
  BY TypeNext DEF StreamsInv
<1>1. PubInv' /\ \A d \in Runs : StreamInv(d)'
  <2>1. CASE UNCHANGED vars
    <3>1. /\ style' = style /\ worker' = worker /\ published' = published /\ pub' = pub
          /\ hasQueue' = hasQueue /\ queue' = queue /\ listeners' = listeners /\ con' = con
          /\ inbox' = inbox /\ out' = out /\ left' = left
      BY <2>1 DEF vars, bus, consumer
    <3>2. \A d \in Runs : Same(d)
      BY <3>1 DEF Same
    <3> QED
      BY <3>1, <3>2, OthersUntouched, PubFrame DEF StreamsInv
  <2>2. ASSUME NEW p \in Publishers, Publish(p)
        PROVE  PubInv' /\ \A d \in Runs : StreamInv(d)'
    BY <2>2, InvPublishNext, InvEndRun, InvCallListener, InvPutQueue DEF Publish
  <2>3. ASSUME NEW p \in Resolvers, NEW r \in Runs, PublishResolved(p, r)
        PROVE  PubInv' /\ \A d \in Runs : StreamInv(d)'
    BY <2>3, InvPublishResolved
  <2>4. ASSUME NEW c \in Runs, WsStart(c) \/ SseSubscribe(c) \/ InStart(c)
        PROVE  PubInv' /\ \A d \in Runs : StreamInv(d)'
    BY <2>4, InvWsStart, InvSseSubscribe, InvInStart
  <2>5. ASSUME NEW c \in Runs, Consume(c) \/ WsDrop(c) \/ SseFails(c)
        PROVE  PubInv' /\ \A d \in Runs : StreamInv(d)'
    BY <2>5, InvWsForward, InvWsSend, InvWsDrop, InvSseStart, InvSseFails, InvSseGet,
       InvSseTimeout, InvInSubscribe, InvInYield, InvInTimeout, InvCloseStream DEF Consume
  <2> QED
    BY <2>1, <2>2, <2>3, <2>4, <2>5 DEF Next
<1> QED
  BY <1>0, <1>1 DEF StreamsInv

THEOREM InvAlways == Spec => []StreamsInv
BY InvInit, InvNext, PTL DEF Spec

\* A WebSocket or SSE stream that ends by itself has shown every event of its
\* run, and a stream that ends in whichever way leaves no queue, and no listener
\* but that of an SSE request that failed before its run was started (EventBus,
\* web/app.py ws, _stream_events, stream_request).
THEOREM StreamsAlwaysSafe == Spec => []StreamsAreSafe
BY InvAlways, InvSafe, PTL

\* No frontend sees the events of its run with a gap, twice or in another
\* order, whatever else is published on the bus meanwhile.
THEOREM OwnEventsAlwaysInOrder == Spec => []OwnEventsInOrder
BY InvAlways, InvSafe, PTL

-----------------------------------------------------------------------------
(* The WebSocket implements RunFeed, step by step.                         *)

FeedState(c) == IF con[c] = "idle" THEN "new"
                ELSE IF c \in left THEN "gone"
                ELSE IF con[c] = "open" THEN "open" ELSE "complete"
Delivered(c) == Cardinality(OwnPlaces(c))

LEMMA OwnPlacesCounted ==
  ASSUME NEW c \in Runs, NEW s \in Seq(Item)
  PROVE  Cardinality({i \in DOMAIN s : s[i][1] = c /\ s[i][2] \in 1..Last}) = Count(c, s)
<1>1. DOMAIN s = 1..Len(s)
  BY LenProperties
<1>2. {i \in DOMAIN s : s[i][1] = c /\ s[i][2] \in 1..Last} = OwnIn(c, s)
  BY <1>1, StreamsAssumption DEF OwnIn, No, Sentinel
<1> QED
  BY <1>2 DEF Count

LEMMA FeedIs ==
  ASSUME NEW c \in Runs
  PROVE  /\ Feed(c)!Init <=> published[c] = 0 /\ Delivered(c) = 0 /\ FeedState(c) = "new"
         /\ Feed(c)!Open <=> /\ FeedState(c) = "new" /\ FeedState(c)' = "open"
                             /\ published'[c] = published[c] /\ Delivered(c)' = Delivered(c)
         /\ Feed(c)!Publish <=> /\ FeedState(c) # "new" /\ published[c] < Last
                                /\ published'[c] = published[c] + 1
                                /\ Delivered(c)' = Delivered(c)
                                /\ FeedState(c)' = FeedState(c)
         /\ Feed(c)!Deliver <=>
              /\ FeedState(c) = "open" /\ Delivered(c) < published[c]
              /\ Delivered(c)' = Delivered(c) + 1
              /\ FeedState(c)' = IF Delivered(c)' = Last THEN "complete" ELSE "open"
              /\ published'[c] = published[c]
         /\ Feed(c)!Leave <=> /\ FeedState(c) = "open" /\ FeedState(c)' = "gone"
                              /\ published'[c] = published[c] /\ Delivered(c)' = Delivered(c)
         /\ (Feed(c)!feedVars)' = Feed(c)!feedVars <=>
              /\ published'[c] = published[c] /\ Delivered(c)' = Delivered(c)
              /\ FeedState(c)' = FeedState(c)
BY DEF FeedState, Delivered, Feed!Init, Feed!Open, Feed!Publish, Feed!Deliver, Feed!Leave,
       Feed!feedVars

\* A step that does not touch the consumer, or what it has received.
LEMMA FeedStutters ==
  ASSUME NEW c \in Runs, con'[c] = con[c], out'[c] = out[c], published'[c] = published[c],
         c \in left' <=> c \in left
  PROVE  (Feed(c)!feedVars)' = Feed(c)!feedVars
<1>1. FeedState(c)' = FeedState(c)
  BY DEF FeedState
<1>2. Delivered(c)' = Delivered(c)
  BY DEF Delivered, OwnPlaces
<1> QED
  BY <1>1, <1>2, FeedIs

LEMMA FeedInit == Init => \A c \in Runs : Feed(c)!Init
<1> SUFFICES ASSUME Init, NEW c \in Runs PROVE Feed(c)!Init
  OBVIOUS
<1>1. Delivered(c) = 0
  <2>1. out[c] = <<>> /\ out[c] \in Seq(Item)
    BY EmptySeq DEF Init
  <2>2. Delivered(c) = Count(c, out[c])
    BY <2>1, OwnPlacesCounted DEF Delivered, OwnPlaces
  <2> QED
    BY <2>1, <2>2, CountEmpty
<1>2. published[c] = 0 /\ FeedState(c) = "new"
  BY DEF Init, FeedState
<1> QED
  BY <1>1, <1>2, FeedIs

LEMMA FeedStep ==
  ASSUME StreamsInv, [Next]_vars, StreamsInv', NEW c \in Runs, style[c] = "ws"
  PROVE  [Feed(c)!Next]_(Feed(c)!feedVars)
<1>0. /\ PlaceInv(c) /\ WsInv(c) /\ con[c] \in {"idle", "open", "closed"}
      /\ published[c] \in 0..Last
  BY DEF StreamsInv, StreamInv, PlaceInv, TypeOK
<1>1. SUFFICES ASSUME (Feed(c)!feedVars)' # Feed(c)!feedVars PROVE Feed(c)!Next
  OBVIOUS
<1>2. ASSUME con'[c] = con[c], out'[c] = out[c], published'[c] = published[c],
             c \in left' <=> c \in left
      PROVE  FALSE
  BY <1>1, <1>2, FeedStutters
<1>3. Delivered(c) = Count(c, out[c]) /\ Delivered(c)' = Count(c, out'[c])
  <2>1. out[c] \in Seq(Item) /\ out'[c] \in Seq(Item)
    BY DEF StreamsInv, TypeOK
  <2> QED
    BY <2>1, OwnPlacesCounted DEF Delivered, OwnPlaces
<1>4. CASE \E p \in Publishers : Publish(p)
  <2>1. PICK p \in Publishers : Publish(p)
    BY <1>4
  <2>2. CASE p \in Runs /\ PublishNext(p)
    <3>1. /\ worker[p] = "running" /\ published[p] < Last
          /\ published' = [published EXCEPT ![p] = @ + 1]
          /\ UNCHANGED <<con, out, left>>
      BY <2>2 DEF PublishNext, consumer
    <3>2. CASE p = c
      <4>1. con[c] # "idle" /\ published'[c] = published[c] + 1
        BY <1>0, <3>1, <3>2 DEF PlaceInv, StreamsInv, TypeOK
      <4>2. FeedState(c) # "new" /\ FeedState(c)' = FeedState(c) /\ Delivered(c)' = Delivered(c)
        BY <1>3, <3>1, <4>1 DEF FeedState
      <4>3. Feed(c)!Publish
        BY <3>1, <3>2, <4>1, <4>2, FeedIs
      <4> QED
        BY <4>3 DEF Feed!Next
    <3>3. CASE p # c
      <4>1. published'[c] = published[c]
        BY <2>2, <3>1, <3>3 DEF StreamsInv, TypeOK
      <4> QED
        BY <1>2, <3>1, <4>1
    <3> QED
      BY <3>2, <3>3
  <2>3. CASE p \in Runs /\ EndRun(p)
    BY <1>2, <2>3 DEF EndRun, consumer
  <2>4. ASSUME NEW d \in Runs, CallListener(p, d) PROVE FALSE
    <3>1. d # c
      BY <2>4 DEF CallListener
    <3>2. out'[c] = out[c]
      BY <2>4, <3>1 DEF CallListener, Put, StreamsInv, TypeOK
    <3> QED
      BY <1>2, <2>4, <3>2 DEF CallListener
  <2>5. CASE PutQueue(p)
    BY <1>2, <2>5 DEF PutQueue, consumer
  <2> QED
    BY <2>1, <2>2, <2>3, <2>4, <2>5 DEF Publish
<1>5. ASSUME NEW p \in Resolvers, NEW r \in Runs, PublishResolved(p, r) PROVE FALSE
  BY <1>2, <1>5 DEF PublishResolved, consumer
<1>6. ASSUME NEW d \in Runs, WsStart(d) \/ SseSubscribe(d) \/ InStart(d)
      PROVE  Feed(c)!Next
  <2>1. UNCHANGED <<published, out, left>>
    BY <1>6 DEF WsStart, SseSubscribe, InStart
  <2>2. CASE d # c
    <3>1. con'[c] = con[c]
      BY <1>6, <2>2, BecomeDoes DEF WsStart, SseSubscribe, InStart
    <3> QED
      BY <1>2, <2>1, <3>1
  <2>3. CASE d = c
    <3>1. con[c] = "idle" /\ con'[c] = "open"
      BY <1>6, <2>3, BecomeDoes DEF WsStart, SseSubscribe, InStart
    <3>2. FeedState(c) = "new" /\ FeedState(c)' = "open" /\ Delivered(c)' = Delivered(c)
      BY <1>0, <1>3, <2>1, <3>1 DEF FeedState, WsInv
    <3>3. Feed(c)!Open
      BY <2>1, <3>2, FeedIs
    <3> QED
      BY <3>3 DEF Feed!Next
  <2> QED
    BY <2>2, <2>3
<1>7. ASSUME NEW d \in Runs, d # c, Consume(d) \/ WsDrop(d) \/ SseFails(d) PROVE FALSE
  <2>1. published' = published /\ con'[c] = con[c]
    BY <1>7, BecomeDoes
       DEF Consume, WsForward, WsSend, WsDrop, SseStart, SseGet, SseTimeout, InSubscribe,
           InYield, InTimeout, CloseStream, SseFails
  <2>2. out'[c] = out[c]
    BY <1>7
       DEF Consume, WsForward, WsSend, WsDrop, SseStart, SseGet, SseTimeout, InSubscribe,
           InYield, InTimeout, CloseStream, SseFails, Put, StreamsInv, TypeOK
  <2>3. c \in left' <=> c \in left
    BY <1>7
       DEF Consume, WsForward, WsSend, WsDrop, SseStart, SseGet, SseTimeout, InSubscribe,
           InYield, InTimeout, CloseStream, SseFails
  <2> QED
    BY <1>2, <2>1, <2>2, <2>3
<1>8. CASE WsForward(c)
  BY <1>2, <1>8 DEF WsForward
<1>9. CASE WsSend(c)
  <2>1. published' = published /\ left' = left
    BY <1>9 DEF WsSend
  <2> DEFINE x == Head(inbox[c])
  <2>2. /\ x \in Item /\ con[c] \in {"open", "closed"} /\ Count(c, out[c]) \in Nat
        /\ No(c, x) \in 1..Last =>
             /\ con[c] = "open" /\ No(c, x) = Count(c, out[c]) + 1 /\ No(c, x) = x[2]
             /\ Count(c, out'[c]) = Count(c, out[c]) + 1
             /\ Count(c, out[c]) < published[c]
        /\ No(c, x) \notin 1..Last => Count(c, out'[c]) = Count(c, out[c])
        /\ con[c] = "open" /\ No(c, x) \notin 1..Last => No(c, x) = 0
    BY <1>9, WsSendDoes
  <2>3. /\ x[2] = Sentinel \/ Terminal(x[2]) => con'[c] = "closed"
        /\ ~(x[2] = Sentinel \/ Terminal(x[2])) => con'[c] = con[c]
    BY <1>9, BecomeDoes DEF WsSend
  <2>4. con[c] = "open" => x[1] = c
    <3>1. inbox[c] \in Seq(Item) /\ inbox[c] # <<>>
      BY <1>9 DEF WsSend, StreamsInv, TypeOK
    <3>2. x = inbox[c][1] /\ 1 \in 1..Len(inbox[c])
      BY <3>1, TailAt
    <3> QED
      BY <1>0, <3>2 DEF WsInv
  <2> HIDE DEF x
  <2>5. CASE No(c, x) \in 1..Last
    <3>1. con[c] = "open" /\ c \notin left
      BY <1>0, <2>2, <2>5 DEF WsInv
    <3>2. Delivered(c)' = Delivered(c) + 1 /\ Delivered(c) < published[c] /\ x[2] = Delivered(c) + 1
      BY <1>3, <2>2, <2>5
    <3>3. con'[c] = IF Delivered(c)' = Last THEN "closed" ELSE "open"
      BY <2>3, <2>5, <2>2, <3>1, <3>2 DEF Terminal, Sentinel
    <3>4. FeedState(c) = "open" /\ FeedState(c)' = IF Delivered(c)' = Last THEN "complete" ELSE "open"
      BY <2>1, <3>1, <3>3 DEF FeedState
    <3>5. Feed(c)!Deliver
      BY <2>1, <3>2, <3>4, FeedIs
    <3> QED
      BY <3>5 DEF Feed!Next
  <2>6. CASE No(c, x) \notin 1..Last
    <3>1. Delivered(c)' = Delivered(c)
      BY <1>3, <2>2, <2>6
    <3>2. con'[c] = con[c]
      <4>1. CASE con[c] = "closed"
        BY <2>3, <4>1
      <4>2. CASE con[c] = "open"
        <5>1. x[1] = c /\ No(c, x) = 0
          BY <2>2, <2>4, <2>6, <4>2
        <5>2. x[2] \notin 0..Last
          BY <5>1, StreamsAssumption DEF No, Sentinel
        <5> QED
          BY <2>3, <5>2, StreamsAssumption DEF Sentinel, Terminal
      <4> QED
        BY <2>2, <4>1, <4>2
    <3>3. FeedState(c)' = FeedState(c)
      BY <2>1, <3>2 DEF FeedState
    <3> QED
      BY <1>1, <2>1, <3>1, <3>3, FeedIs
  <2> QED
    BY <2>5, <2>6
<1>10. CASE WsDrop(c)
  <2>1. con[c] = "open" /\ c \notin left /\ c \in left' /\ published' = published /\ out' = out
    BY <1>0, <1>10 DEF WsDrop, WsInv
  <2>2. con'[c] = "closed"
    BY <1>10, BecomeDoes DEF WsDrop
  <2>3. FeedState(c) = "open" /\ FeedState(c)' = "gone" /\ Delivered(c)' = Delivered(c)
    BY <1>3, <2>1, <2>2 DEF FeedState
  <2>4. Feed(c)!Leave
    BY <2>1, <2>3, FeedIs
  <2> QED
    BY <2>4 DEF Feed!Next
<1>11. ~(SseStart(c) \/ SseFails(c) \/ SseGet(c) \/ SseTimeout(c) \/ InSubscribe(c)
         \/ InYield(c) \/ InTimeout(c) \/ CloseStream(c))
  BY <1>0 DEF SseStart, SseFails, SseGet, SseTimeout, InSubscribe, InYield, InTimeout,
              CloseStream
<1>12. CASE UNCHANGED vars
  BY <1>2, <1>12 DEF vars, consumer
<1>13. ASSUME NEW d \in Runs, Consume(d) \/ WsDrop(d) \/ SseFails(d) PROVE Feed(c)!Next
  BY <1>7, <1>8, <1>9, <1>10, <1>11, <1>13 DEF Consume
<1> QED
  BY <1>4, <1>5, <1>6, <1>12, <1>13 DEF Next

\* The WebSocket handler of web/app.py, with the run's queue, its forwarder
\* and the socket's incoming queue, implements RunFeed: the frontend gets the
\* events of its run one after the other, ends with the last, or leaves.
THEOREM WebSocketImplementsFeed == Spec => WebSocketIsFeed
<1>1. Init => \A c \in Runs : Feed(c)!Init
  BY FeedInit
<1>2. StreamsInv /\ StreamsInv' /\ [Next]_vars =>
        [\A c \in Runs : style[c] = "ws" => [Feed(c)!Next]_(Feed(c)!feedVars)]_vars
  BY FeedStep
<1> QED
  BY <1>1, <1>2, InvAlways, PTL DEF Spec, WebSocketIsFeed
=============================================================================
