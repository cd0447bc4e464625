------------------------- MODULE EditHistoryProofs -------------------------
(***************************************************************************)
(* The undo and redo stacks of EditHistory implement the line of UndoLine, *)
(* for every set of canvases and every cap, as long as nothing happens     *)
(* beside an open prompt.  Their size is bounded whatever happens.         *)
(***************************************************************************)
EXTENDS EditHistory, SequenceTheorems, TLAPS

-----------------------------------------------------------------------------
(* The line as a function of the stacks. *)

IsLine(l, u, c, r, C) ==
  /\ l \in Seq(C)
  /\ Len(l) = Len(u) + 1 + Len(r)
  /\ \A i \in 1 .. Len(u) : l[i] = u[i]
  /\ l[Len(u) + 1] = c
  /\ \A i \in Len(u) + 2 .. Len(u) + 1 + Len(r) : l[i] = r[Len(r) + Len(u) + 2 - i]

LEMMA LineShape ==
  ASSUME NEW C, NEW u \in Seq(C), NEW r \in Seq(C), NEW c \in C
  PROVE  IsLine(LineOf(u, c, r), u, c, r, C)
<1> DEFINE n == Len(u) + 1 + Len(r)
<1>0. Len(u) \in Nat /\ Len(r) \in Nat /\ n \in Nat
  BY LenProperties
<1>1. \A i \in 1 .. n : LineOf(u, c, r)[i] \in C
  <2> TAKE i \in 1 .. n
  <2>1. CASE i <= Len(u)
    BY <1>0, <2>1, ElementOfSeq DEF LineOf
  <2>2. CASE i = Len(u) + 1
    BY <1>0, <2>2 DEF LineOf
  <2>3. CASE i > Len(u) + 1
    <3>1. Len(r) + Len(u) + 2 - i \in 1 .. Len(r)
      BY <1>0, <2>3
    <3> QED BY <1>0, <2>3, <3>1, ElementOfSeq DEF LineOf
  <2> QED BY <1>0, <2>1, <2>2, <2>3
<1>2. LineOf(u, c, r) = [i \in 1 .. n |-> LineOf(u, c, r)[i]]
  BY DEF LineOf
<1>3. LineOf(u, c, r) \in Seq(C) /\ Len(LineOf(u, c, r)) = n
  BY <1>0, <1>1, <1>2, IsASeq
<1> QED BY <1>0, <1>3 DEF LineOf, IsLine

\* A canvas changed in place.
LEMMA LineAmend ==
  ASSUME NEW C, NEW u \in Seq(C), NEW r \in Seq(C), NEW c \in C, NEW v \in C
  PROVE  LineOf(u, v, r) = [LineOf(u, c, r) EXCEPT ![Len(u) + 1] = v]
<1> DEFINE l == LineOf(u, c, r)  m == LineOf(u, v, r)  k == Len(u) + 1
<1>0. Len(u) \in Nat /\ Len(r) \in Nat
  BY LenProperties
<1>a. IsLine(l, u, c, r, C) /\ IsLine(m, u, v, r, C)
  BY LineShape
<1>1. /\ l \in Seq(C) /\ m \in Seq(C)
      /\ Len(l) = Len(u) + 1 + Len(r) /\ Len(m) = Len(u) + 1 + Len(r)
      /\ m[k] = v
  <2> HIDE DEF l, m
  <2> QED BY <1>a DEF IsLine
<1>k. k \in 1 .. Len(l)
  BY <1>0, <1>1
<1>2. /\ [l EXCEPT ![k] = v] \in Seq(C)
      /\ Len([l EXCEPT ![k] = v]) = Len(l)
      /\ \A i \in 1 .. Len(l) : [l EXCEPT ![k] = v][i] = IF i = k THEN v ELSE l[i]
  <2> HIDE DEF l, k
  <2> QED BY <1>1, <1>k, ExceptSeq
<1>3. \A i \in 1 .. Len(m) : m[i] = [l EXCEPT ![k] = v][i]
  <2> TAKE i \in 1 .. Len(m)
  <2>1. i # k => m[i] = l[i]
    BY <1>0, <1>1 DEF LineOf
  <2> HIDE DEF l, m
  <2> QED BY <1>1, <1>2, <2>1
<1> HIDE DEF l, m
<1>4. m = [l EXCEPT ![k] = v]
  BY <1>1, <1>2, <1>3, SeqEqual
<1> QED BY <1>4 DEF l, m, k

\* A step saved: the canvas joins the undo stack, what lay ahead goes, and the
\* oldest step with it when the stack is full.
DoesStep(u, c, r, v, C) ==
  LET kept == Capped(Append(u, c))
      new == Line!Window(Append(SubSeq(LineOf(u, c, r), 1, Len(u) + 1), v))
  IN  /\ LineOf(kept, v, <<>>) = new /\ Len(kept) + 1 = Len(new)
      /\ kept \in Seq(C) /\ Len(kept) <= MaxHistory
      /\ kept # <<>> /\ kept[Len(kept)] = c

LEMMA LineDo ==
  ASSUME NEW C, NEW u \in Seq(C), NEW r \in Seq(C), NEW c \in C, NEW v \in C,
         Len(u) + Len(r) <= MaxHistory
  PROVE  DoesStep(u, c, r, v, C)
<1> DEFINE l == LineOf(u, c, r)  n == Len(u)
           past == Append(u, c)
           path == SubSeq(l, 1, n + 1)
           full == Append(path, v)
           bare == LineOf(past, v, <<>>)
           P(kept, new) == /\ LineOf(kept, v, <<>>) = new /\ Len(kept) + 1 = Len(new)
                           /\ kept \in Seq(C) /\ Len(kept) <= MaxHistory
                           /\ kept # <<>> /\ kept[Len(kept)] = c
<1>0. n \in Nat /\ Len(r) \in Nat /\ MaxHistory \in Nat \ {0} /\ n <= MaxHistory
  BY LenProperties, HistAssumption
<1>1. /\ l \in Seq(C) /\ Len(l) = n + 1 + Len(r)
      /\ \A i \in 1 .. n : l[i] = u[i]
      /\ l[n + 1] = c
  <2>1. IsLine(l, u, c, r, C)
    BY LineShape
  <2> HIDE DEF l
  <2> QED BY <2>1 DEF IsLine
<1>2. /\ past \in Seq(C) /\ Len(past) = n + 1
      /\ \A i \in 1 .. n : past[i] = u[i]
      /\ past[n + 1] = c
  BY AppendProperties
<1>3. /\ path \in Seq(C) /\ Len(path) = n + 1
      /\ \A i \in 1 .. n + 1 : path[i] = past[i]
  <2>1. \A i \in 1 .. n + 1 : l[i] \in C
    BY <1>0, <1>1, ElementOfSeq
  <2>2. /\ path \in Seq(C) /\ Len(path) = n + 1
        /\ \A i \in 1 .. n + 1 : path[i] = l[i]
    <3> HIDE DEF l
    <3> QED BY <1>0, <2>1, SubSeqProperties
  <2>3. \A i \in 1 .. n + 1 : i \in 1 .. n \/ i = n + 1
    <3> HIDE DEF n
    <3> QED BY <1>0
  <2> HIDE DEF l, past, path, n
  <2> QED BY <1>1, <1>2, <2>2, <2>3
<1>4. /\ full \in Seq(C) /\ Len(full) = n + 2
      /\ \A i \in 1 .. n + 1 : full[i] = past[i]
      /\ full[n + 2] = v
  <2> HIDE DEF path, past
  <2> QED BY <1>0, <1>3, AppendProperties
<1>5. <<>> \in Seq(C) /\ Len(<<>>) = 0
  BY EmptySeq
<1>6. /\ bare \in Seq(C) /\ Len(bare) = n + 2
      /\ \A i \in 1 .. n + 1 : bare[i] = past[i]
      /\ bare[n + 2] = v
  <2> HIDE DEF past
  <2>1. IsLine(bare, past, v, <<>>, C)
    BY <1>2, <1>5, LineShape
  <2> HIDE DEF bare
  <2> QED BY <1>0, <1>2, <1>5, <2>1 DEF IsLine
<1>7. bare = full
  <2>1. \A i \in 1 .. Len(bare) : bare[i] = full[i]
    <3> HIDE DEF bare, full, past
    <3> QED BY <1>0, <1>4, <1>6
  <2> HIDE DEF bare, full
  <2> QED BY <1>4, <1>6, <2>1, SeqEqual
<1>8. ASSUME n < MaxHistory PROVE P(Capped(past), Line!Window(full))
  <2>1. Capped(past) = past /\ Line!Window(full) = full
    <3> HIDE DEF past, full
    <3> QED BY <1>0, <1>2, <1>4, <1>8 DEF Capped, Line!Window
  <2>2. past # <<>>
    BY <1>0, <1>2, <1>5
  <2> HIDE DEF full, past, path
  <2>3. /\ LineOf(past, v, <<>>) = full /\ Len(past) + 1 = Len(full)
        /\ past \in Seq(C) /\ Len(past) <= MaxHistory
        /\ past # <<>> /\ past[Len(past)] = c
    BY <1>0, <1>2, <1>4, <1>7, <1>8, <2>2
  <2>4. P(Capped(past), Line!Window(full))
    BY <2>1, <2>3
  <2> QED BY <2>4
<1>9. ASSUME n = MaxHistory PROVE P(Capped(past), Line!Window(full))
  <2> DEFINE kept == Tail(past)
  <2>1. Capped(past) = kept /\ Line!Window(full) = Tail(full)
    <3> HIDE DEF past, full
    <3> QED BY <1>0, <1>2, <1>4, <1>9 DEF Capped, Line!Window
  <2>2. past # <<>> /\ full # <<>>
    BY <1>0, <1>2, <1>4, <1>5
  <2>3. /\ kept \in Seq(C) /\ Len(kept) = n
        /\ \A i \in 1 .. n : kept[i] = past[i + 1]
    <3> HIDE DEF past
    <3> QED BY <1>0, <1>2, <2>2, HeadTailProperties
  <2>4. /\ Tail(full) \in Seq(C) /\ Len(Tail(full)) = n + 1
        /\ \A i \in 1 .. n + 1 : Tail(full)[i] = full[i + 1]
    <3> HIDE DEF full
    <3> QED BY <1>0, <1>4, <2>2, HeadTailProperties
  <2>5. /\ LineOf(kept, v, <<>>) \in Seq(C) /\ Len(LineOf(kept, v, <<>>)) = n + 1
        /\ \A i \in 1 .. n : LineOf(kept, v, <<>>)[i] = kept[i]
        /\ LineOf(kept, v, <<>>)[n + 1] = v
    <3> DEFINE m == LineOf(kept, v, <<>>)
    <3> HIDE DEF kept
    <3>1. IsLine(m, kept, v, <<>>, C)
      BY <1>5, <2>3, LineShape
    <3> HIDE DEF m
    <3>2. /\ m \in Seq(C) /\ Len(m) = n + 1
          /\ \A i \in 1 .. n : m[i] = kept[i]
          /\ m[n + 1] = v
      BY <1>0, <1>5, <2>3, <3>1 DEF IsLine
    <3> QED BY <3>2 DEF m
  <2>6. \A i \in 1 .. n + 1 : LineOf(kept, v, <<>>)[i] = Tail(full)[i]
    <3> HIDE DEF kept, full, past, n
    <3>1. Tail(full)[n + 1] = v
      <4>1. n + 1 \in 1 .. n + 1 /\ (n + 1) + 1 = n + 2
        BY <1>0
      <4>2. Tail(full)[n + 1] = full[(n + 1) + 1]
        BY <2>4, <4>1
      <4> QED BY <1>4, <4>1, <4>2, Zenon
    <3>2. \A i \in 1 .. n : Tail(full)[i] = past[i + 1]
      BY <1>0, <1>4, <2>4
    <3> TAKE i \in 1 .. n + 1
    <3>3. i = n + 1 \/ i \in 1 .. n
      BY <1>0
    <3>4. CASE i = n + 1
      BY <2>5, <3>1, <3>4
    <3>5. CASE i \in 1 .. n
      BY <2>3, <2>5, <3>2, <3>5
    <3> QED BY <3>3, <3>4, <3>5
  <2>7. LineOf(kept, v, <<>>) = Tail(full)
    <3> HIDE DEF kept, full
    <3> QED BY <2>4, <2>5, <2>6, SeqEqual
  <2>8. kept # <<>> /\ kept[n] = c
    <3> HIDE DEF kept, past
    <3> QED BY <1>0, <1>2, <1>5, <1>9, <2>3
  <2> HIDE DEF kept, full, past
  <2>9. P(kept, Tail(full))
    BY <1>0, <1>9, <2>3, <2>4, <2>7, <2>8
  <2> HIDE DEF P
  <2> QED BY <2>1, <2>9
<1>10. P(Capped(past), Line!Window(full))
  BY <1>0, <1>8, <1>9
<1> QED BY <1>10 DEF DoesStep

\* Undo, k times: the entry k steps back is on screen.
Steps(u, c, r, k, C) ==
  LET left == SubSeq(u, 1, Len(u) - k)
      ahead == Passed(u, c, r, k)
  IN  /\ LineOf(left, u[Len(u) - k + 1], ahead) = LineOf(u, c, r)
      /\ left \in Seq(C) /\ Len(left) = Len(u) - k
      /\ ahead \in Seq(C) /\ Len(ahead) = Len(r) + k
      /\ u[Len(u) - k + 1] \in C

LEMMA LineBack ==
  ASSUME NEW C, NEW u \in Seq(C), NEW r \in Seq(C), NEW c \in C,
         NEW k \in 1 .. Len(u)
  PROVE  Steps(u, c, r, k, C)
<1> DEFINE n == Len(u)  left == SubSeq(u, 1, n - k)  seen == u[n - k + 1]
           back == [i \in 1 .. k |-> IF i = 1 THEN c ELSE u[n - i + 2]]
           ahead == Passed(u, c, r, k)
           l == LineOf(u, c, r)  m == LineOf(left, seen, ahead)
<1>0. n \in Nat /\ Len(r) \in Nat /\ k \in Nat /\ 1 <= k /\ k <= n
  BY LenProperties
<1>1. /\ left \in Seq(C) /\ Len(left) = n - k
      /\ \A i \in 1 .. n - k : left[i] = u[i]
  <2>1. \A i \in 1 .. n - k : u[i] \in C
    BY <1>0, ElementOfSeq
  <2> QED BY <1>0, <2>1, SubSeqProperties
<1>2. seen \in C
  BY <1>0, ElementOfSeq
<1>3. back \in Seq(C) /\ Len(back) = k
  <2>1. \A i \in 1 .. k : i # 1 => u[n - i + 2] \in C
    BY <1>0, ElementOfSeq
  <2>2. \A i \in 1 .. k : (IF i = 1 THEN c ELSE u[n - i + 2]) \in C
    BY <2>1
  <2> QED BY <1>0, <2>2, IsASeq
<1>4. /\ ahead \in Seq(C) /\ Len(ahead) = Len(r) + k
      /\ \A i \in 1 .. Len(r) : ahead[i] = r[i]
      /\ \A i \in 1 .. k : ahead[Len(r) + i] = back[i]
  <2>1. ahead = r \o back
    BY DEF Passed
  <2> HIDE DEF back, ahead
  <2>2. /\ r \o back \in Seq(C) /\ Len(r \o back) = Len(r) + Len(back)
        /\ \A i \in 1 .. Len(r) + Len(back) :
             (r \o back)[i] = IF i <= Len(r) THEN r[i] ELSE back[i - Len(r)]
    BY <1>3, ConcatProperties
  <2> HIDE DEF n
  <2>3. /\ ahead \in Seq(C) /\ Len(ahead) = Len(r) + k
        /\ \A i \in 1 .. Len(r) + k :
             ahead[i] = IF i <= Len(r) THEN r[i] ELSE back[i - Len(r)]
    BY <1>3, <2>1, <2>2
  <2>4. \A i \in 1 .. k : ahead[Len(r) + i] = back[i]
    <3> TAKE i \in 1 .. k
    <3>1. /\ Len(r) + i \in 1 .. Len(r) + k /\ ~(Len(r) + i <= Len(r))
          /\ (Len(r) + i) - Len(r) = i
      BY <1>0
    <3> QED BY <2>3, <3>1
  <2> QED BY <1>0, <2>3, <2>4
<1>5. /\ l \in Seq(C) /\ Len(l) = n + 1 + Len(r)
      /\ \A i \in 1 .. n : l[i] = u[i]
      /\ l[n + 1] = c
      /\ \A i \in n + 2 .. n + 1 + Len(r) : l[i] = r[Len(r) + n + 2 - i]
  <2>1. IsLine(l, u, c, r, C)
    BY LineShape
  <2> HIDE DEF l
  <2> QED BY <2>1 DEF IsLine
<1>6. /\ m \in Seq(C) /\ Len(m) = n + 1 + Len(r)
      /\ \A i \in 1 .. n - k : m[i] = left[i]
      /\ m[n - k + 1] = seen
      /\ \A i \in n - k + 2 .. n + 1 + Len(r) : m[i] = ahead[Len(r) + n + 2 - i]
  <2> HIDE DEF left, seen, ahead
  <2>1. IsLine(m, left, seen, ahead, C)
    BY <1>1, <1>2, <1>4, LineShape
  <2>2. Len(ahead) + Len(left) = Len(r) + n
    BY <1>0, <1>1, <1>4
  <2> HIDE DEF m
  <2>3. /\ m \in Seq(C) /\ Len(m) = (n - k) + 1 + (Len(r) + k)
        /\ \A i \in 1 .. n - k : m[i] = left[i]
        /\ m[(n - k) + 1] = seen
        /\ \A i \in (n - k) + 2 .. (n - k) + 1 + (Len(r) + k) :
              m[i] = ahead[(Len(r) + k) + (n - k) + 2 - i]
    BY <1>1, <1>4, <2>1 DEF IsLine
  <2> HIDE DEF n
  <2>4. /\ (n - k) + 1 + (Len(r) + k) = n + 1 + Len(r)
        /\ (Len(r) + k) + (n - k) + 2 = Len(r) + n + 2
    BY <1>0
  <2>5. \A i \in n - k + 2 .. n + 1 + Len(r) : m[i] = ahead[Len(r) + n + 2 - i]
    <3> TAKE i \in n - k + 2 .. n + 1 + Len(r)
    <3>1. i \in (n - k) + 2 .. (n - k) + 1 + (Len(r) + k)
      BY <1>0
    <3>2. m[i] = ahead[(Len(r) + k) + (n - k) + 2 - i]
      BY <2>3, <3>1
    <3>3. (Len(r) + k) + (n - k) + 2 - i = Len(r) + n + 2 - i
      BY <1>0
    <3> QED BY <3>2, <3>3, Zenon
  <2>6. Len(m) = n + 1 + Len(r)
    BY <2>3, <2>4
  <2> QED BY <2>3, <2>5, <2>6
<1>7. \A i \in 1 .. Len(m) : m[i] = l[i]
  <2>k. \A j \in 1 .. k : back[j] = IF j = 1 THEN c ELSE u[n - j + 2]
    OBVIOUS
  <2> HIDE DEF n, m, l, left, ahead, back
  <2> TAKE i \in 1 .. Len(m)
  <2>0. i \in 1 .. n + 1 + Len(r)
    BY <1>6
  <2>1. CASE i <= n - k + 1
    <3>1. i <= n - k => m[i] = u[i]
      BY <1>0, <1>1, <1>6, <2>0
    <3>2. i = n - k + 1 => m[i] = u[i]
      BY <1>6
    <3> QED BY <1>0, <1>5, <2>0, <2>1, <3>1, <3>2
  <2>2. CASE i > n - k + 1 /\ i <= n + 1
    <3> DEFINE j == n + 2 - i
    <3>1. /\ j \in 1 .. k /\ Len(r) + j = Len(r) + n + 2 - i /\ n - j + 2 = i
          /\ (j = 1 <=> i = n + 1)
      BY <1>0, <2>0, <2>2
    <3>2. m[i] = ahead[Len(r) + n + 2 - i]
      <4>1. i \in n - k + 2 .. n + 1 + Len(r)
        BY <1>0, <2>0, <2>2
      <4> QED BY <1>6, <4>1
    <3> HIDE DEF j
    <3>3. m[i] = back[j]
      BY <1>4, <3>1, <3>2
    <3>4. back[j] = IF j = 1 THEN c ELSE u[i]
      BY <2>k, <3>1
    <3>5. i # n + 1 => l[i] = u[i]
      <4>1. i # n + 1 => i \in 1 .. n
        BY <1>0, <2>0, <2>2
      <4> QED BY <1>5, <4>1
    <3>6. l[n + 1] = c
      BY <1>5
    <3> QED BY <3>1, <3>3, <3>4, <3>5, <3>6
  <2>3. CASE i > n + 1
    <3>1. Len(r) + n + 2 - i \in 1 .. Len(r)
      BY <1>0, <2>0, <2>3
    <3>2. m[i] = ahead[Len(r) + n + 2 - i]
      <4>1. i \in n - k + 2 .. n + 1 + Len(r)
        BY <1>0, <2>0, <2>3
      <4> QED BY <1>6, <4>1
    <3>3. l[i] = r[Len(r) + n + 2 - i]
      BY <1>0, <1>5, <2>0, <2>3
    <3> QED BY <1>4, <3>1, <3>2, <3>3
  <2> QED BY <1>0, <2>0, <2>1, <2>2, <2>3
<1>8. m = l
  <2> HIDE DEF m, l
  <2> QED BY <1>5, <1>6, <1>7, SeqEqual
<1> QED BY <1>1, <1>2, <1>4, <1>8 DEF Steps
\* The line read backwards.
Mirrored(u, c, r) ==
  \A i \in 1 .. Len(u) + 1 + Len(r) :
    LineOf(u, c, r)[i] = LineOf(r, c, u)[Len(u) + Len(r) + 2 - i]

LEMMA LineMirror ==
  ASSUME NEW C, NEW u \in Seq(C), NEW r \in Seq(C), NEW c \in C
  PROVE  Mirrored(u, c, r)
<1> SUFFICES ASSUME NEW i \in 1 .. Len(u) + 1 + Len(r)
             PROVE  LineOf(u, c, r)[i] = LineOf(r, c, u)[Len(u) + Len(r) + 2 - i]
  BY DEF Mirrored
<1> DEFINE l == LineOf(u, c, r)  m == LineOf(r, c, u)
           n == Len(u)  q == Len(r)  j == n + q + 2 - i
<1>0. n \in Nat /\ q \in Nat /\ i \in Nat /\ 1 <= i /\ i <= n + 1 + q
  BY LenProperties
<1>1. IsLine(l, u, c, r, C) /\ IsLine(m, r, c, u, C)
  BY LineShape
<1>2. /\ \A a \in 1 .. n : l[a] = u[a]
      /\ l[n + 1] = c
      /\ \A a \in n + 2 .. n + 1 + q : l[a] = r[q + n + 2 - a]
      /\ \A a \in 1 .. q : m[a] = r[a]
      /\ m[q + 1] = c
      /\ \A a \in q + 2 .. q + 1 + n : m[a] = u[n + q + 2 - a]
  <2> HIDE DEF l, m
  <2> QED BY <1>1 DEF IsLine
<1> HIDE DEF l, m, n, q
<1>3. CASE i \in 1 .. n
  <2>1. j \in q + 2 .. q + 1 + n /\ n + q + 2 - j = i
    BY <1>0, <1>3
  <2> HIDE DEF j
  <2>2. m[j] = u[i] /\ l[i] = u[i]
    BY <1>2, <1>3, <2>1
  <2> QED BY <2>2 DEF j, l, m, n, q
<1>4. CASE i = n + 1
  <2>1. j = q + 1
    BY <1>0, <1>4
  <2> HIDE DEF j
  <2>2. m[j] = c /\ l[i] = c
    BY <1>2, <1>4, <2>1
  <2> QED BY <2>2 DEF j, l, m, n, q
<1>5. CASE i \in n + 2 .. n + 1 + q
  <2>1. j \in 1 .. q /\ q + n + 2 - i = j
    BY <1>0, <1>5
  <2> HIDE DEF j
  <2>2. m[j] = r[j] /\ l[i] = r[j]
    BY <1>2, <1>5, <2>1
  <2> QED BY <2>2 DEF j, l, m, n, q
<1> QED BY <1>0, <1>3, <1>4, <1>5

\* Redo is undo of the line read backwards.
RedoSteps(u, c, r, k, C) ==
  LET left == SubSeq(r, 1, Len(r) - k)
      past == Passed(r, c, u, k)
  IN  /\ LineOf(past, r[Len(r) - k + 1], left) = LineOf(u, c, r)
      /\ left \in Seq(C) /\ Len(left) = Len(r) - k
      /\ past \in Seq(C) /\ Len(past) = Len(u) + k
      /\ r[Len(r) - k + 1] \in C

LEMMA LineForth ==
  ASSUME NEW C, NEW u \in Seq(C), NEW r \in Seq(C), NEW c \in C,
         NEW k \in 1 .. Len(r)
  PROVE  RedoSteps(u, c, r, k, C)
<1> DEFINE n == Len(u)  q == Len(r)  left == SubSeq(r, 1, q - k)
           past == Passed(r, c, u, k)
           seen == r[q - k + 1]  l == LineOf(u, c, r)  m == LineOf(past, seen, left)
<1>0. n \in Nat /\ q \in Nat /\ k \in Nat /\ 1 <= k /\ k <= q
  BY LenProperties
<1>1. /\ LineOf(left, seen, past) = LineOf(r, c, u)
      /\ left \in Seq(C) /\ Len(left) = q - k
      /\ past \in Seq(C) /\ Len(past) = n + k
      /\ seen \in C
  <2>1. Steps(r, c, u, k, C)
    BY LineBack
  <2> QED BY <2>1 DEF Steps
<1> HIDE DEF left, seen, past
<1>2. IsLine(l, u, c, r, C) /\ IsLine(m, past, seen, left, C)
  BY <1>1, LineShape
<1>3. /\ l \in Seq(C) /\ Len(l) = n + 1 + q
      /\ m \in Seq(C) /\ Len(m) = Len(past) + 1 + Len(left)
  <2> HIDE DEF l, m
  <2> QED BY <1>2 DEF IsLine
<1>4. Len(past) + Len(left) = n + q /\ Len(m) = n + 1 + q
  <2> HIDE DEF n, q, m
  <2>1. Len(past) + Len(left) = n + q
    BY <1>0, <1>1
  <2>2. Len(past) + 1 + Len(left) = n + 1 + q
    BY <1>0, <1>1
  <2> QED BY <1>3, <2>1, <2>2
<1>5. \A i \in 1 .. n + 1 + q : m[i] = l[i]
  <2> TAKE i \in 1 .. n + 1 + q
  <2>1. i \in 1 .. Len(past) + 1 + Len(left)
    <3> HIDE DEF n, q, m
    <3> QED BY <1>0, <1>3, <1>4
  <2>2. m[i] = LineOf(left, seen, past)[Len(past) + Len(left) + 2 - i]
    <3>1. Mirrored(past, seen, left)
      BY <1>1, LineMirror
    <3> QED BY <2>1, <3>1 DEF Mirrored
  <2>3. l[i] = LineOf(r, c, u)[n + q + 2 - i]
    <3>1. Mirrored(u, c, r)
      BY LineMirror
    <3> QED BY <3>1 DEF Mirrored
  <2> HIDE DEF l, m, n, q
  <2> QED BY <1>1, <1>4, <2>2, <2>3
<1>6. m = l
  <2> HIDE DEF l, m
  <2> QED BY <1>3, <1>4, <1>5, SeqEqual
<1> QED BY <1>1, <1>6 DEF left, seen, past, RedoSteps
\* The last step taken back: what was below it is on screen.
TakesBack(u, c, C) ==
  LET left == SubSeq(u, 1, Len(u) - 1)
  IN  /\ LineOf(left, u[Len(u)], <<>>) = SubSeq(LineOf(u, c, <<>>), 1, Len(u))
      /\ left \in Seq(C) /\ Len(left) = Len(u) - 1
      /\ Len(LineOf(u, c, <<>>)) = Len(u) + 1

LEMMA LineRetract ==
  ASSUME NEW C, NEW u \in Seq(C), u # <<>>, NEW c \in C
  PROVE  TakesBack(u, c, C)
<1> DEFINE n == Len(u)  left == SubSeq(u, 1, n - 1)  top == u[n]
           l == LineOf(u, c, <<>>)  m == LineOf(left, top, <<>>)
           p == SubSeq(l, 1, n)
<1>0. n \in Nat /\ 1 <= n /\ <<>> \in Seq(C) /\ Len(<<>>) = 0
  BY LenProperties, EmptySeq
<1>1. /\ left \in Seq(C) /\ Len(left) = n - 1
      /\ \A i \in 1 .. n - 1 : left[i] = u[i]
      /\ top \in C
  <2>1. \A i \in 1 .. n - 1 : u[i] \in C
    BY <1>0, ElementOfSeq
  <2>2. top \in C
    BY <1>0, ElementOfSeq
  <2> DEFINE q == n - 1
  <2>3. q \in Nat /\ q = n - 1
    BY <1>0
  <2> HIDE DEF q
  <2>4. /\ SubSeq(u, 1, q) \in Seq(C) /\ Len(SubSeq(u, 1, q)) = q
        /\ \A i \in 1 .. q : SubSeq(u, 1, q)[i] = u[i]
    BY <2>1, <2>3, SubSeqProperties
  <2> QED BY <2>2, <2>3, <2>4
<1> HIDE DEF left, top
<1>2. IsLine(l, u, c, <<>>, C) /\ IsLine(m, left, top, <<>>, C)
  BY <1>0, <1>1, LineShape
<1>3. /\ l \in Seq(C) /\ Len(l) = n + 1
      /\ \A i \in 1 .. n : l[i] = u[i]
      /\ m \in Seq(C) /\ Len(m) = n
      /\ \A i \in 1 .. n - 1 : m[i] = left[i]
      /\ m[n] = top
  <2>1. /\ m \in Seq(C) /\ Len(m) = (n - 1) + 1 + 0
        /\ \A i \in 1 .. n - 1 : m[i] = left[i]
        /\ m[(n - 1) + 1] = top
        /\ l \in Seq(C) /\ Len(l) = n + 1 + 0
        /\ \A i \in 1 .. n : l[i] = u[i]
    <3> HIDE DEF l, m
    <3> QED BY <1>0, <1>1, <1>2 DEF IsLine
  <2>2. (n - 1) + 1 = n /\ (n - 1) + 1 + 0 = n /\ n + 1 + 0 = n + 1
    BY <1>0
  <2> HIDE DEF l, m, n
  <2> QED BY <2>1, <2>2
<1>4. /\ p \in Seq(C) /\ Len(p) = n
      /\ \A i \in 1 .. n : p[i] = u[i]
  <2> HIDE DEF l, n
  <2>1. \A i \in 1 .. n : l[i] \in C
    BY <1>0, <1>3, ElementOfSeq
  <2>2. /\ p \in Seq(C) /\ Len(p) = n
        /\ \A i \in 1 .. n : p[i] = l[i]
    BY <1>0, <2>1, SubSeqProperties
  <2> HIDE DEF p
  <2> QED BY <1>3, <2>2
<1>5. \A i \in 1 .. n : m[i] = p[i]
  <2>1. top = u[n]
    BY DEF top
  <2> HIDE DEF m, p, n
  <2> QED BY <1>0, <1>1, <1>3, <1>4, <2>1
<1>6. m = p
  <2> HIDE DEF m, p, n
  <2> QED BY <1>3, <1>4, <1>5, SeqEqual
<1> QED BY <1>1, <1>3, <1>6 DEF left, top, TakesBack

-----------------------------------------------------------------------------
(* The invariant. *)

\* An open prompt has nothing ahead, and its saved step on top.
PromptOnTop ==
  session \in Prompts => /\ redoStack = <<>> /\ undoStack # <<>>
                         /\ undoStack[Len(undoStack)] = before

HInv == HistTypeOK /\ HistoryBounded /\ PromptOnTop

\* Nothing happens beside an open prompt, and its snapshot does not fail.
Guarded == HistOps = {}

\* What a saved state is for the stacks and for the line.
LEMMA Saved ==
  ASSUME HistTypeOK, HistoryBounded, NEW v \in Canvas, NEW next,
         undoStack' = Capped(Append(undoStack, canvas)), redoStack' = <<>>, canvas' = v
  PROVE  /\ undoStack' \in Seq(Canvas) /\ redoStack' \in Seq(Canvas)
         /\ HistoryBounded'
         /\ undoStack' # <<>> /\ undoStack'[Len(undoStack')] = canvas
         /\ Line!Do(v)
<1> DEFINE l == LineOf(undoStack, canvas, redoStack)
           new == Line!Window(Append(SubSeq(l, 1, Len(undoStack) + 1), v))
           kept == Capped(Append(undoStack, canvas))
<1>1. /\ undoStack \in Seq(Canvas) /\ redoStack \in Seq(Canvas) /\ canvas \in Canvas
      /\ Len(undoStack) + Len(redoStack) <= MaxHistory
  BY DEF HistTypeOK, HistoryBounded
<1>2. /\ LineOf(kept, v, <<>>) = new
      /\ Len(kept) + 1 = Len(new)
      /\ kept \in Seq(Canvas) /\ Len(kept) <= MaxHistory
      /\ kept # <<>> /\ kept[Len(kept)] = canvas
  <2>1. DoesStep(undoStack, canvas, redoStack, v, Canvas)
    BY <1>1, LineDo
  <2> QED BY <2>1 DEF DoesStep
<1>3. <<>> \in Seq(Canvas) /\ Len(<<>>) = 0
  BY EmptySeq
<1>4. LineOf(undoStack, canvas, redoStack)' = new /\ (Len(undoStack) + 1)' = Len(new)
  <2> HIDE DEF new, kept
  <2>1. undoStack' = kept
    BY DEF kept
  <2>2. LineOf(undoStack', canvas', redoStack') = LineOf(kept, v, <<>>)
    BY <2>1
  <2> QED BY <1>2, <2>1, <2>2
<1>5. Line!Do(v)
  BY <1>4 DEF Line!Do
<1>6. HistoryBounded'
  <2>1. Len(undoStack') + Len(redoStack') <= MaxHistory
    <3> HIDE DEF kept
    <3>1. undoStack' = kept /\ Len(kept) \in Nat /\ MaxHistory \in Nat
      BY <1>2, LenProperties, HistAssumption DEF kept
    <3> QED BY <1>2, <1>3, <3>1
  <2> QED BY <2>1 DEF HistoryBounded
<1> QED BY <1>2, <1>3, <1>5, <1>6

\* A canvas changed in place.
LEMMA Amended ==
  ASSUME HInv, NEW v \in Canvas,
         undoStack' = undoStack, redoStack' = redoStack, canvas' = v
  PROVE  Line!Amend(v)
<1>1. undoStack \in Seq(Canvas) /\ redoStack \in Seq(Canvas) /\ canvas \in Canvas
  BY DEF HInv, HistTypeOK
<1>2. LineOf(undoStack, v, redoStack)
        = [LineOf(undoStack, canvas, redoStack) EXCEPT ![Len(undoStack) + 1] = v]
  BY <1>1, LineAmend
<1> QED BY <1>2 DEF Line!Amend

\* Undo, redo and the history panel move along the line.
LEMMA Moved ==
  ASSUME HistTypeOK, HistoryBounded, NEW k,
         \/ k \in 1 .. Len(undoStack) /\ Back(k)
         \/ k \in 1 .. Len(redoStack) /\ Forth(k)
  PROVE  /\ undoStack' \in Seq(Canvas) /\ redoStack' \in Seq(Canvas) /\ canvas' \in Canvas
         /\ HistoryBounded'
         /\ \E i \in 1 .. Len(LineOf(undoStack, canvas, redoStack)) : Line!Move(i)
<1> DEFINE l == LineOf(undoStack, canvas, redoStack)
<1>1. /\ undoStack \in Seq(Canvas) /\ redoStack \in Seq(Canvas) /\ canvas \in Canvas
      /\ Len(undoStack) + Len(redoStack) <= MaxHistory
      /\ Len(undoStack) \in Nat /\ Len(redoStack) \in Nat
  BY LenProperties DEF HistTypeOK, HistoryBounded
<1>2. /\ undoStack' \in Seq(Canvas) /\ redoStack' \in Seq(Canvas) /\ canvas' \in Canvas
      /\ LineOf(undoStack', canvas', redoStack') = l
      /\ Len(undoStack') + Len(redoStack') = Len(undoStack) + Len(redoStack)
  <2>1. CASE k \in 1 .. Len(undoStack) /\ Back(k)
    <3>1. Steps(undoStack, canvas, redoStack, k, Canvas)
      BY <1>1, <2>1, LineBack
    <3>2. /\ canvas' = undoStack[Len(undoStack) - k + 1]
          /\ undoStack' = SubSeq(undoStack, 1, Len(undoStack) - k)
          /\ redoStack' = Passed(undoStack, canvas, redoStack, k)
      BY <2>1 DEF Back
    <3>3. /\ LineOf(undoStack', canvas', redoStack') = l
          /\ undoStack' \in Seq(Canvas) /\ Len(undoStack') = Len(undoStack) - k
          /\ redoStack' \in Seq(Canvas) /\ Len(redoStack') = Len(redoStack) + k
          /\ canvas' \in Canvas
      BY <3>1, <3>2 DEF Steps
    <3> HIDE DEF l
    <3> QED BY <1>1, <2>1, <3>3
  <2>2. CASE k \in 1 .. Len(redoStack) /\ Forth(k)
    <3>1. RedoSteps(undoStack, canvas, redoStack, k, Canvas)
      BY <1>1, <2>2, LineForth
    <3>2. /\ canvas' = redoStack[Len(redoStack) - k + 1]
          /\ redoStack' = SubSeq(redoStack, 1, Len(redoStack) - k)
          /\ undoStack' = Passed(redoStack, canvas, undoStack, k)
      BY <2>2 DEF Forth
    <3>3. /\ LineOf(undoStack', canvas', redoStack') = l
          /\ redoStack' \in Seq(Canvas) /\ Len(redoStack') = Len(redoStack) - k
          /\ undoStack' \in Seq(Canvas) /\ Len(undoStack') = Len(undoStack) + k
          /\ canvas' \in Canvas
      BY <3>1, <3>2 DEF RedoSteps
    <3> HIDE DEF l
    <3> QED BY <1>1, <2>2, <3>3
  <2> QED BY <2>1, <2>2
<1>3. Len(undoStack') \in Nat /\ Len(redoStack') \in Nat
  BY <1>2, LenProperties
<1>4. HistoryBounded'
  <2>1. Len(undoStack') + Len(redoStack') <= MaxHistory
    <3> HIDE DEF l
    <3> QED BY <1>1, <1>2
  <2> QED BY <2>1 DEF HistoryBounded
<1>5. Len(l) = Len(undoStack) + 1 + Len(redoStack)
  <2>1. IsLine(l, undoStack, canvas, redoStack, Canvas)
    BY <1>1, LineShape
  <2> HIDE DEF l
  <2> QED BY <2>1 DEF IsLine
<1>6. Len(undoStack') + 1 \in 1 .. Len(l)
  <2> HIDE DEF l
  <2> QED BY <1>1, <1>2, <1>3, <1>5
<1>7. Line!Move(Len(undoStack') + 1)
  BY <1>2, <1>6 DEF Line!Move
<1> QED BY <1>2, <1>4, <1>6, <1>7

\* A cancelled filter takes its own step back.
LEMMA Retracted ==
  ASSUME HInv, session = "filter", FilterCancel
  PROVE  /\ undoStack' \in Seq(Canvas) /\ redoStack' = redoStack
         /\ HistoryBounded'
         /\ Line!Retract
<1>1. /\ undoStack \in Seq(Canvas) /\ canvas \in Canvas /\ redoStack = <<>>
      /\ undoStack # <<>> /\ undoStack[Len(undoStack)] = before
      /\ Len(undoStack) + Len(redoStack) <= MaxHistory
  BY DEF HInv, HistTypeOK, HistoryBounded, PromptOnTop, Prompts
<1>2. /\ canvas' = before /\ redoStack' = redoStack
      /\ undoStack' = SubSeq(undoStack, 1, Len(undoStack) - 1)
  BY DEF FilterCancel
<1>3. TakesBack(undoStack, canvas, Canvas)
  BY <1>1, LineRetract
<1>4. /\ LineOf(undoStack', canvas', redoStack')
           = SubSeq(LineOf(undoStack, canvas, redoStack), 1, Len(undoStack))
      /\ undoStack' \in Seq(Canvas) /\ Len(undoStack') = Len(undoStack) - 1
      /\ Len(LineOf(undoStack, canvas, redoStack)) = Len(undoStack) + 1
  BY <1>1, <1>2, <1>3 DEF TakesBack
<1>5. Len(undoStack) \in Nat /\ Len(undoStack) >= 1 /\ Len(redoStack) = 0
  BY <1>1, LenProperties, EmptySeq
<1>6. Line!Retract
  BY <1>4, <1>5 DEF Line!Retract
<1>7. HistoryBounded'
  <2>1. Len(undoStack') + Len(redoStack') <= MaxHistory
    BY <1>1, <1>2, <1>4, <1>5, HistAssumption
  <2> QED BY <2>1 DEF HistoryBounded
<1> QED BY <1>2, <1>4, <1>6, <1>7

\* What every step of the editor does: the invariant stays, the line takes a
\* step of its own or none.
Stays == HInv' /\ [Line!LineNext]_(Line!lineVars)

LEMMA HistStart ==
  ASSUME HistInit
  PROVE  HInv /\ Line!LineInit
<1>1. <<>> \in Seq(Canvas) /\ Len(<<>>) = 0
  BY EmptySeq
<1>2. HInv
  BY <1>1, HistAssumption DEF HInv, HistInit, HistTypeOK, HistoryBounded, PromptOnTop, Prompts
<1>3. LineOf(<<>>, canvas, <<>>) = <<canvas>>
  <2> DEFINE m == LineOf(<<>>, canvas, <<>>)
  <2>1. IsLine(m, <<>>, canvas, <<>>, Canvas)
    BY <1>1, LineShape DEF HistInit
  <2> HIDE DEF m
  <2>2. m \in Seq(Canvas) /\ Len(m) = 1 /\ m[1] = canvas
    BY <1>1, <2>1 DEF IsLine
  <2>3. <<canvas>> \in Seq(Canvas) /\ Len(<<canvas>>) = 1 /\ <<canvas>>[1] = canvas
    BY DEF HistInit
  <2>4. \A i \in 1 .. 1 : m[i] = <<canvas>>[i]
    BY <2>2, <2>3
  <2>5. m = <<canvas>>
    BY <2>2, <2>3, <2>4, SeqEqual
  <2> QED BY <2>5 DEF m
<1>4. Line!LineInit
  <2>1. undoStack = <<>> /\ redoStack = <<>> /\ canvas \in Canvas
    BY DEF HistInit
  <2>2. LineOf(undoStack, canvas, redoStack) = <<canvas>> /\ Len(undoStack) + 1 = 1
    BY <1>1, <1>3, <2>1
  <2> QED BY <2>1, <2>2 DEF Line!LineInit
<1> QED BY <1>2, <1>4

\* The whole of a line step from its kind.
LEMMA LineSteps ==
  ASSUME \/ \E v \in Canvas : Line!Do(v) \/ Line!Amend(v) \/ Line!Fresh(v)
         \/ \E i \in 1 .. Len(LineOf(undoStack, canvas, redoStack)) : Line!Move(i)
         \/ Line!Retract
  PROVE  Line!LineNext
BY DEF Line!LineNext

\* Nothing but the canvas changed.
LEMMA InPlace ==
  ASSUME HInv, canvas' \in Canvas,
         undoStack' = undoStack, redoStack' = redoStack
  PROVE  Line!LineNext /\ HistoryBounded'
<1>1. Line!Amend(canvas')
  BY Amended
<1>2. HistoryBounded'
  BY DEF HInv, HistoryBounded
<1> QED BY <1>1, <1>2, LineSteps

LEMMA ByEdit ==
  ASSUME HInv, NEW v \in Canvas, Edit(v)
  PROVE  Stays
<1>1. session = "idle" /\ session' = "idle" /\ canvas' = v /\ before' = before
  BY DEF Edit
<1>2. CASE undoStack' = Capped(Append(undoStack, canvas)) /\ redoStack' = <<>>
  <2>1. /\ undoStack' \in Seq(Canvas) /\ redoStack' \in Seq(Canvas)
        /\ HistoryBounded' /\ Line!Do(v)
    BY <1>1, <1>2, Saved DEF HInv
  <2>2. Line!LineNext
    BY <2>1, LineSteps
  <2> QED BY <1>1, <2>1, <2>2
          DEF Stays, HInv, HistTypeOK, PromptOnTop, Prompts
<1>3. CASE UNCHANGED <<undoStack, redoStack>>
  <2>1. undoStack' = undoStack /\ redoStack' = redoStack
    BY <1>3
  <2>2. Line!LineNext /\ HistoryBounded'
    BY <1>1, <2>1, InPlace
  <2> QED BY <1>1, <2>1, <2>2
          DEF Stays, HInv, HistTypeOK, PromptOnTop, Prompts
<1> QED BY <1>2, <1>3 DEF Edit, SaveState

LEMMA ByStrokeStart ==
  ASSUME HInv, StrokeStart
  PROVE  Stays
<1>1. session' = "stroke" /\ canvas' = canvas /\ before' = before /\ canvas \in Canvas
  BY DEF StrokeStart, HInv, HistTypeOK
<1>2. CASE undoStack' = Capped(Append(undoStack, canvas)) /\ redoStack' = <<>>
  <2>1. /\ undoStack' \in Seq(Canvas) /\ redoStack' \in Seq(Canvas)
        /\ HistoryBounded' /\ Line!Do(canvas)
    BY <1>1, <1>2, Saved DEF HInv
  <2>2. Line!LineNext
    BY <1>1, <2>1, LineSteps
  <2> QED BY <1>1, <2>1, <2>2
          DEF Stays, HInv, HistTypeOK, PromptOnTop, Prompts
<1>3. CASE UNCHANGED <<undoStack, redoStack>>
  <2>1. undoStack' = undoStack /\ redoStack' = redoStack
    BY <1>3
  <2>2. Line!LineNext /\ HistoryBounded'
    BY <1>1, <2>1, InPlace
  <2> QED BY <1>1, <2>1, <2>2
          DEF Stays, HInv, HistTypeOK, PromptOnTop, Prompts
<1> QED BY <1>2, <1>3 DEF StrokeStart, SaveState

\* A prompt opens: its snapshot is the step on top.
LEMMA ByPromptOpen ==
  ASSUME Guarded, HInv, NEW kind \in Prompts, NEW v \in Canvas, PromptOpen(kind, v)
  PROVE  Stays
<1>1. session' = kind /\ canvas' = v /\ before' = canvas /\ canvas \in Canvas
  BY DEF PromptOpen, HInv, HistTypeOK
<1>2. undoStack' = Capped(Append(undoStack, canvas)) /\ redoStack' = <<>>
  BY DEF PromptOpen, SaveState, Guarded
<1>3. /\ undoStack' \in Seq(Canvas) /\ redoStack' \in Seq(Canvas)
      /\ HistoryBounded' /\ Line!Do(v)
      /\ undoStack' # <<>> /\ undoStack'[Len(undoStack')] = canvas
  BY <1>1, <1>2, Saved DEF HInv
<1>4. Line!LineNext
  BY <1>3, LineSteps
<1> QED BY <1>1, <1>2, <1>3, <1>4 DEF Stays, HInv, HistTypeOK, PromptOnTop

\* The end of a stroke, the pixels of a session, its confirmation.
LEMMA ByInPlace ==
  ASSUME HInv, StrokeEnd \/ (\E v \in Canvas : Draw(v) \/ Apply(v))
  PROVE  Stays
<1>1. /\ canvas' \in Canvas /\ before' = before
      /\ undoStack' = undoStack /\ redoStack' = redoStack
      /\ session' = session \/ session' = "idle"
  BY DEF StrokeEnd, Draw, Apply, HInv, HistTypeOK
<1>2. Line!LineNext /\ HistoryBounded'
  BY <1>1, InPlace
<1> QED BY <1>1, <1>2 DEF Stays, HInv, HistTypeOK, PromptOnTop, Prompts

LEMMA ByFilterCancel ==
  ASSUME HInv, FilterCancel
  PROVE  Stays
<1>1. session = "filter" /\ session' = "idle" /\ canvas' = before /\ before' = before
  BY DEF FilterCancel
<1>2. /\ undoStack' \in Seq(Canvas) /\ redoStack' = redoStack
      /\ HistoryBounded' /\ Line!Retract
  BY <1>1, Retracted
<1>3. Line!LineNext
  BY <1>2, LineSteps
<1> QED BY <1>1, <1>2, <1>3 DEF Stays, HInv, HistTypeOK, PromptOnTop, Prompts

\* cancelTransform finds its own step on top.
LEMMA ByTransformCancel ==
  ASSUME HInv, TransformCancel
  PROVE  Stays
<1>1. /\ session' = "idle" /\ before' = before
      /\ undoStack # <<>> /\ undoStack \in Seq(Canvas)
  BY DEF TransformCancel, HInv, HistTypeOK, PromptOnTop, Prompts
<1>2. 1 \in 1 .. Len(undoStack) /\ Back(1)
  BY <1>1, LenProperties, EmptySeq DEF TransformCancel
<1>3. /\ undoStack' \in Seq(Canvas) /\ redoStack' \in Seq(Canvas) /\ canvas' \in Canvas
      /\ HistoryBounded'
      /\ \E i \in 1 .. Len(LineOf(undoStack, canvas, redoStack)) : Line!Move(i)
  BY <1>2, Moved DEF HInv
<1>4. Line!LineNext
  BY <1>3, LineSteps
<1> QED BY <1>1, <1>3, <1>4 DEF Stays, HInv, HistTypeOK, PromptOnTop, Prompts

LEMMA ByJump ==
  ASSUME Guarded, HInv, Jump
  PROVE  Stays
<1>1. session' = session /\ before' = before /\ session \notin Prompts
  BY DEF Jump, KeysReach, Guarded
<1>2. PICK k : \/ k \in 1 .. Len(undoStack) /\ Back(k)
               \/ k \in 1 .. Len(redoStack) /\ Forth(k)
  BY DEF Jump
<1>3. /\ undoStack' \in Seq(Canvas) /\ redoStack' \in Seq(Canvas) /\ canvas' \in Canvas
      /\ HistoryBounded'
      /\ \E i \in 1 .. Len(LineOf(undoStack, canvas, redoStack)) : Line!Move(i)
  BY <1>2, Moved DEF HInv
<1>4. Line!LineNext
  BY <1>3, LineSteps
<1> QED BY <1>1, <1>3, <1>4 DEF Stays, HInv, HistTypeOK, PromptOnTop

\* Another picture starts another line.
LEMMA ByOpenPicture ==
  ASSUME Guarded, HInv, NEW v \in Canvas, OpenPicture(v)
  PROVE  Stays
<1>1. /\ undoStack' = <<>> /\ redoStack' = <<>> /\ canvas' = v /\ before' = before
      /\ session \in {"idle", "stroke"} /\ session' = "idle"
  BY DEF OpenPicture, KeysReach, Guarded, HInv, HistTypeOK
<1>2. <<>> \in Seq(Canvas) /\ Len(<<>>) = 0
  BY EmptySeq
<1>3. LineOf(<<>>, v, <<>>) = <<v>>
  <2> DEFINE m == LineOf(<<>>, v, <<>>)
  <2>1. IsLine(m, <<>>, v, <<>>, Canvas)
    BY <1>2, LineShape
  <2> HIDE DEF m
  <2>2. m \in Seq(Canvas) /\ Len(m) = 1 /\ m[1] = v
    BY <1>2, <2>1 DEF IsLine
  <2>3. <<v>> \in Seq(Canvas) /\ Len(<<v>>) = 1 /\ <<v>>[1] = v
    OBVIOUS
  <2>4. \A i \in 1 .. 1 : m[i] = <<v>>[i]
    BY <2>2, <2>3
  <2>5. m = <<v>>
    BY <2>2, <2>3, <2>4, SeqEqual
  <2> QED BY <2>5 DEF m
<1>4. LineOf(undoStack, canvas, redoStack)' = <<v>> /\ (Len(undoStack) + 1)' = 1
  BY <1>1, <1>2, <1>3
<1>5. Line!Fresh(v)
  BY <1>4 DEF Line!Fresh
<1>6. Line!LineNext
  BY <1>5, LineSteps
<1> QED BY <1>1, <1>2, <1>6, HistAssumption
        DEF Stays, HInv, HistTypeOK, HistoryBounded, PromptOnTop, Prompts

LEMMA HistStep ==
  ASSUME Guarded, HInv, [HistNext]_histVars
  PROVE  Stays
<1>1. ASSUME NEW v \in Canvas, Edit(v) PROVE Stays
  BY <1>1, ByEdit
<1>2. ASSUME NEW v \in Canvas, Draw(v) \/ Apply(v) PROVE Stays
  BY <1>2, ByInPlace
<1>3. ASSUME NEW v \in Canvas, OpenPicture(v) PROVE Stays
  BY <1>3, ByOpenPicture
<1>4. ASSUME NEW v \in Canvas, NEW kind \in Prompts, PromptOpen(kind, v) PROVE Stays
  BY <1>4, ByPromptOpen
<1>5. CASE StrokeStart
  BY <1>5, ByStrokeStart
<1>6. CASE StrokeEnd
  BY <1>6, ByInPlace
<1>7. CASE FilterCancel
  BY <1>7, ByFilterCancel
<1>8. CASE TransformCancel
  BY <1>8, ByTransformCancel
<1>9. CASE Jump
  BY <1>9, ByJump
<1>10. CASE UNCHANGED histVars
  <2>1. /\ canvas' = canvas /\ before' = before /\ session' = session
        /\ undoStack' = undoStack /\ redoStack' = redoStack
    BY <1>10 DEF histVars
  <2>2. canvas' \in Canvas
    BY <2>1 DEF HInv, HistTypeOK
  <2>3. Line!LineNext /\ HistoryBounded'
    BY <2>1, <2>2, InPlace
  <2> QED BY <2>1, <2>3 DEF Stays, HInv, HistTypeOK, PromptOnTop
<1> QED
  BY <1>1, <1>2, <1>3, <1>4, <1>5, <1>6, <1>7, <1>8, <1>9, <1>10 DEF HistNext

-----------------------------------------------------------------------------
\* Types and cap need none of that: they survive a key during a prompt and a
\* snapshot that fails.
LEMMA StacksStep ==
  ASSUME HistTypeOK, HistoryBounded, [HistNext]_histVars
  PROVE  HistTypeOK' /\ HistoryBounded'
<1> DEFINE Stacks == undoStack' \in Seq(Canvas) /\ redoStack' \in Seq(Canvas) /\ HistoryBounded'
           Rest   == /\ canvas' \in Canvas /\ before' \in Canvas
                     /\ session' \in {"idle", "stroke"} \union Prompts
<1>0. /\ canvas \in Canvas /\ before \in Canvas /\ session \in {"idle", "stroke"} \union Prompts
      /\ undoStack \in Seq(Canvas) /\ redoStack \in Seq(Canvas)
      /\ <<>> \in Seq(Canvas) /\ Len(<<>>) = 0
  BY EmptySeq DEF HistTypeOK
<1>1. UNCHANGED <<undoStack, redoStack>> => Stacks
  BY <1>0 DEF HistoryBounded
<1>2. ASSUME NEW v \in Canvas, NEW next, canvas' = v, SaveState(next) PROVE Stacks
  <2>1. CASE undoStack' = Capped(Append(undoStack, canvas)) /\ redoStack' = <<>>
    BY <1>2, <2>1, Saved
  <2> QED BY <1>1, <1>2, <2>1 DEF SaveState
<1>3. ASSUME NEW k, \/ k \in 1 .. Len(undoStack) /\ Back(k)
                    \/ k \in 1 .. Len(redoStack) /\ Forth(k)
      PROVE  Stacks /\ canvas' \in Canvas
  BY <1>3, Moved
<1>4. ASSUME NEW v \in Canvas, Edit(v) PROVE Stacks /\ Rest
  BY <1>0, <1>2, <1>4 DEF Edit
<1>5. ASSUME StrokeStart PROVE Stacks /\ Rest
  BY <1>0, <1>2, <1>5 DEF StrokeStart
<1>6. ASSUME NEW v \in Canvas, NEW kind \in Prompts, PromptOpen(kind, v) PROVE Stacks /\ Rest
  BY <1>0, <1>2, <1>6 DEF PromptOpen
<1>7. ASSUME StrokeEnd \/ (\E v \in Canvas : Draw(v) \/ Apply(v)) PROVE Stacks /\ Rest
  BY <1>0, <1>1, <1>7 DEF StrokeEnd, Draw, Apply
<1>8. ASSUME FilterCancel PROVE Stacks /\ Rest
  <2> DEFINE n == Len(undoStack)
             u == SubSeq(undoStack, 1, n - 1)
  <2>1. /\ undoStack' = u /\ redoStack' = redoStack
        /\ canvas' = before /\ before' = before /\ session' = "idle"
    BY <1>8 DEF FilterCancel
  <2>2. n \in Nat /\ Len(redoStack) \in Nat /\ n + Len(redoStack) <= MaxHistory
    BY <1>0, LenProperties DEF HistoryBounded
  <2>3. u \in Seq(Canvas) /\ Len(u) <= n /\ Len(u) \in Nat
    <3>1. CASE n = 0
      <4>1. u = <<>>
        BY <3>1
      <4> QED BY <1>0, <3>1, <4>1
    <3>2. CASE n # 0
      <4>1. \A i \in 1 .. n - 1 : undoStack[i] \in Canvas
        BY <1>0, <2>2, ElementOfSeq
      <4>2. u \in Seq(Canvas) /\ Len(u) = IF 1 <= n - 1 THEN (n - 1) - 1 + 1 ELSE 0
        <5>1. n - 1 \in Int
          BY <2>2
        <5> HIDE DEF n
        <5> QED BY <4>1, <5>1, SubSeqProperties
      <4> HIDE DEF n, u
      <4> QED BY <2>2, <3>2, <4>2
    <3> QED BY <3>1, <3>2
  <2>4. HistoryBounded'
    <3>1. Len(undoStack') + Len(redoStack') <= MaxHistory
      <4> HIDE DEF n, u
      <4> QED BY <2>1, <2>2, <2>3, HistAssumption
    <3> QED BY <3>1 DEF HistoryBounded
  <2> QED BY <1>0, <2>1, <2>3, <2>4
<1>9. ASSUME TransformCancel PROVE Stacks /\ Rest
  <2>1. CASE undoStack = <<>>
    BY <1>0, <1>1, <1>9, <2>1 DEF TransformCancel
  <2>2. CASE undoStack # <<>>
    <3>1. 1 \in 1 .. Len(undoStack) /\ Back(1)
      BY <1>0, <1>9, <2>2, LenProperties, EmptySeq DEF TransformCancel
    <3> QED BY <1>0, <1>3, <1>9, <3>1 DEF TransformCancel
  <2> QED BY <2>1, <2>2
<1>10. ASSUME Jump PROVE Stacks /\ Rest
  BY <1>0, <1>3, <1>10 DEF Jump
<1>11. ASSUME NEW v \in Canvas, OpenPicture(v) PROVE Stacks /\ Rest
  BY <1>0, <1>11, HistAssumption DEF OpenPicture, HistoryBounded
<1>12. ASSUME UNCHANGED histVars PROVE Stacks /\ Rest
  BY <1>0, <1>1, <1>12 DEF histVars
<1>13. Stacks /\ Rest
  BY <1>4, <1>5, <1>6, <1>7, <1>8, <1>9, <1>10, <1>11, <1>12 DEF HistNext
<1> QED BY <1>13 DEF HistTypeOK

\* The two stacks together hold at most MAX_HISTORY canvases, whatever the
\* order of saves, undos, redos, jumps and cancelled prompts, for every cap:
\* redo pushes onto the undo stack without a look at the cap of _saveState.
THEOREM HistoryStaysBounded == HistSpec => []HistoryBounded
<1>1. HistInit => HistTypeOK /\ HistoryBounded
  BY HistStart DEF HInv
<1>2. HistTypeOK /\ HistoryBounded /\ [HistNext]_histVars => HistTypeOK' /\ HistoryBounded'
  BY StacksStep
<1> QED BY <1>1, <1>2, PTL DEF HistSpec

\* _saveState, undo, redo, jumpToHistory and the cancelled prompts implement
\* the line of UndoLine: moving alters no entry, a change drops only what lay
\* ahead, a cancelled filter takes back its own step alone.
THEOREM LineImplemented ==
  ASSUME Guarded
  PROVE  HistSpec => KeepsTheLine
<1>1. HistInit => HInv /\ Line!LineInit
  BY HistStart
<1>2. HInv /\ [HistNext]_histVars => HInv' /\ [Line!LineNext]_(Line!lineVars)
  BY HistStep DEF Stays
<1> QED BY <1>1, <1>2, PTL DEF HistSpec, KeepsTheLine, Line!LineSpec
=============================================================================
