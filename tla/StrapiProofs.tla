---------------------------- MODULE StrapiProofs ---------------------------
(***************************************************************************)
(* The growing string, for every text, step and capacity: no call writes   *)
(* past the memory the string owns, what it appends or cuts is the text    *)
(* that was meant, and what strdup copies is the whole of it.              *)
(***************************************************************************)
EXTENDS Strapi, SequenceTheorems, TLAPS

CONSTANT Letters    \* what a text may consist of

Chars == Letters \cup {NUL}
Texts == Seq(Letters \ {NUL})

Buffers == [mem : Seq(Chars), len : Nat, cap : Nat, step : Nat \ {0}]
GoodBuffer(b) == b \in Buffers /\ Good(b)

LEMMA BuffersDef ==
  ASSUME NEW b, GoodBuffer(b)
  PROVE  /\ b.mem \in Seq(Chars) /\ b.len \in Nat /\ b.cap \in Nat /\ b.step \in Nat
         /\ b.step # 0 /\ Len(b.mem) = b.cap
         /\ b.mem = <<>> => b.len = 0 /\ b.cap = 0
         /\ b.mem # <<>> => b.len < b.cap /\ b.mem[b.len + 1] = NUL
         /\ \A k \in 1..b.len : b.mem[k] # NUL
BY DEF GoodBuffer, Buffers, Good

\* Of characters.
LEMMA CharsDef ==
  /\ NUL \in Chars
  /\ \A s \in Texts : /\ s \in Seq(Chars) /\ Len(s) \in Nat
                      /\ \A k \in 1..Len(s) : s[k] \in Chars /\ s[k] # NUL
<1>1. ASSUME NEW s \in Texts
      PROVE  /\ s \in Seq(Chars) /\ Len(s) \in Nat
             /\ \A k \in 1..Len(s) : s[k] \in Chars /\ s[k] # NUL
  <2>1. s \in Seq(Letters \ {NUL}) /\ Letters \ {NUL} \subseteq Chars
    BY DEF Texts, Chars
  <2>. QED BY <2>1, SeqMonotonic, ElementOfSeq, LenProperties
<1>. QED BY <1>1 DEF Chars

\* A function from 1..n on is a sequence.
LEMMA SeqOfFunction ==
  ASSUME NEW S, NEW n \in Nat, NEW f \in [1..n -> S]
  PROVE  f \in Seq(S) /\ Len(f) = n
BY SeqDef

\* The steps of exstr_expand reach past what is needed.
LEMMA StepsReach ==
  ASSUME NEW n \in Nat, NEW step \in Nat, step # 0
  PROVE  /\ (n \div step) + 1 \in Nat
         /\ n < ((n \div step) + 1) * step
OBVIOUS

\* The capacity a buffer is given has room for the text and its terminator.
LEMMA GrownReaches ==
  ASSUME NEW b, GoodBuffer(b), NEW need \in Nat
  PROVE  Grown(b, need) \in Nat /\ b.len + need < Grown(b, need) /\ b.cap <= Grown(b, need)
<1>. DEFINE least == IF b.cap = 0 THEN b.step ELSE b.cap
            over == b.len + need - least
            steps == IF b.len + need < least THEN 0 ELSE (over \div b.step) + 1
<1>1. /\ b.len \in Nat /\ b.cap \in Nat /\ b.step \in Nat /\ b.step # 0
      /\ least \in Nat /\ least # 0 /\ b.cap <= least
  BY BuffersDef
<1>2. Grown(b, need) = least + steps * b.step
  BY DEF Grown
<1>. HIDE DEF least
<1>3. CASE b.len + need < least
  BY <1>1, <1>2, <1>3
<1>4. CASE ~(b.len + need < least)
  <2>1. over \in Nat
    BY <1>1, <1>4
  <2>. HIDE DEF over
  <2>. DEFINE more == ((over \div b.step) + 1) * b.step
  <2>2. (over \div b.step) + 1 \in Nat /\ over < more
    BY <1>1, <2>1, StepsReach
  <2>3. more \in Nat
    BY <1>1, <2>2
  <2>4. Grown(b, need) = least + more
    BY <1>2, <1>4 DEF over
  <2>. HIDE DEF more
  <2>5. over = b.len + need - least
    BY DEF over
  <2>. QED BY <1>1, <2>2, <2>3, <2>4, <2>5
<1>. QED BY <1>3, <1>4

\* exstr_expand makes room and keeps the text.
LEMMA ExpandMakesRoom ==
  ASSUME NEW b, GoodBuffer(b), NEW need \in Nat
  PROVE  LET new == Expand(b, need)
         IN /\ GoodBuffer(new) /\ new.len = b.len /\ new.mem # <<>>
            /\ b.len + need < new.cap
            /\ \A k \in 1..b.len : new.mem[k] = b.mem[k]
<1>1. /\ b.mem \in Seq(Chars) /\ b.len \in Nat /\ b.cap \in Nat /\ Len(b.mem) = b.cap
      /\ \A k \in 1..b.len : b.mem[k] # NUL
      /\ b.mem = <<>> => b.len = 0
      /\ b.mem # <<>> => b.len < b.cap
      /\ b \in Buffers
  BY BuffersDef DEF GoodBuffer
<1>2. CASE ~Full(b, need)
  BY <1>1, <1>2 DEF Expand, Full
<1>3. CASE Full(b, need)
  <2>. DEFINE cap == Grown(b, need)
              mem == [k \in 1..cap |-> IF k <= b.len THEN b.mem[k] ELSE NUL]
              new == [b EXCEPT !.cap = cap, !.mem = mem]
  <2>1. cap \in Nat /\ b.len + need < cap /\ b.cap <= cap
    BY GrownReaches
  <2>. HIDE DEF cap
  <2>2. ASSUME NEW k \in 1..cap PROVE (IF k <= b.len THEN b.mem[k] ELSE NUL) \in Chars
    <3>1. CASE k <= b.len
      <4>1. k \in 1..Len(b.mem)
        BY <1>1, <2>1, <3>1
      <4>. QED BY <1>1, <3>1, <4>1, ElementOfSeq
    <3>2. CASE ~(k <= b.len)
      BY <3>2, CharsDef
    <3>. QED BY <3>1, <3>2
  <2>3. /\ mem \in Seq(Chars) /\ Len(mem) = cap
        /\ \A k \in 1..cap : mem[k] = IF k <= b.len THEN b.mem[k] ELSE NUL
    <3>1. mem \in [1..cap -> Chars]
      BY <2>2
    <3>2. \A k \in 1..cap : mem[k] = IF k <= b.len THEN b.mem[k] ELSE NUL
      OBVIOUS
    <3>. HIDE DEF mem
    <3>. QED BY <2>1, <3>1, <3>2, SeqOfFunction
  <2>. HIDE DEF mem
  <2>4. Expand(b, need) = new
    BY <1>3 DEF Expand, cap, mem
  <2>5. /\ new \in Buffers /\ new.cap = cap /\ new.mem = mem /\ new.len = b.len
        /\ new.step = b.step
    BY <1>1, <2>1, <2>3 DEF Buffers
  <2>. HIDE DEF new
  <2>6. b.len + 1 \in 1..cap /\ b.step \in Nat \ {0}
    BY <1>1, <2>1 DEF Buffers
  <2>7. mem # <<>> /\ b.len < cap
    BY <1>1, <2>1, <2>3
  <2>8. mem[b.len + 1] = NUL /\ \A k \in 1..b.len : mem[k] = b.mem[k]
    BY <1>1, <2>1, <2>3, <2>6
  <2>9. Good(new)
    BY <1>1, <2>1, <2>3, <2>5, <2>6, <2>7, <2>8 DEF Good
  <2>. QED BY <2>1, <2>4, <2>5, <2>7, <2>8, <2>9 DEF GoodBuffer
<1>. QED BY <1>2, <1>3

\* Where there is room, a text is put behind the one there is.
LEMMA PutAppends ==
  ASSUME NEW b, GoodBuffer(b), b.mem # <<>>,
         NEW s \in Texts, b.len + Len(s) < b.cap
  PROVE  LET new == Put(b, s)
         IN /\ GoodBuffer(new) /\ new.len = b.len + Len(s) /\ new.cap = b.cap
            /\ new.mem # <<>>
            /\ \A k \in 1..b.len : new.mem[k] = b.mem[k]
            /\ \A k \in 1..Len(s) : new.mem[b.len + k] = s[k]
<1>. DEFINE end == b.len + Len(s)
            size == IF end + 1 > Len(b.mem) THEN end + 1 ELSE Len(b.mem)
            at(k) == IF k > b.len /\ k <= end THEN s[k - b.len]
                     ELSE IF k = end + 1 THEN NUL ELSE b.mem[k]
            mem == [k \in 1..b.cap |-> at(k)]
            new == [b EXCEPT !.len = end, !.mem = mem]
<1>1. /\ b.mem \in Seq(Chars) /\ b.len \in Nat /\ b.cap \in Nat /\ Len(b.mem) = b.cap
      /\ \A k \in 1..b.len : b.mem[k] # NUL
      /\ b \in Buffers
      /\ Len(s) \in Nat
  BY BuffersDef DEF GoodBuffer
<1>2. size = b.cap
  BY <1>1
<1>3. Put(b, s) = new
  BY <1>2 DEF Put
<1>4. \A k \in 1..Len(s) : s[k] \in Chars /\ s[k] # NUL
  BY CharsDef
<1>5. ASSUME NEW k \in 1..b.cap PROVE at(k) \in Chars
  <2>1. b.mem[k] \in Chars
    BY <1>1, ElementOfSeq
  <2>2. k > b.len /\ k <= end => k - b.len \in 1..Len(s)
    BY <1>1
  <2>3. CASE k > b.len /\ k <= end
    BY <1>4, <2>2, <2>3
  <2>4. CASE ~(k > b.len /\ k <= end)
    BY <2>1, <2>4, CharsDef
  <2>. QED BY <2>3, <2>4
<1>6. /\ mem \in Seq(Chars) /\ Len(mem) = b.cap
      /\ \A k \in 1..b.cap :
           mem[k] = IF k > b.len /\ k <= end THEN s[k - b.len]
                    ELSE IF k = end + 1 THEN NUL ELSE b.mem[k]
  <2>1. mem \in [1..b.cap -> Chars]
    BY <1>5
  <2>2. \A k \in 1..b.cap : mem[k] = at(k)
    OBVIOUS
  <2>. HIDE DEF mem
  <2>. QED BY <1>1, <2>1, <2>2, SeqOfFunction
<1>. HIDE DEF mem
<1>7. /\ new \in Buffers /\ new.cap = b.cap /\ new.mem = mem /\ new.len = end
      /\ new.step = b.step /\ b.step \in Nat \ {0}
  <2>1. end \in Nat /\ mem \in Seq(Chars) /\ b \in Buffers
    BY <1>1, <1>6
  <2>. HIDE DEF end, at, size
  <2>. QED BY <2>1 DEF Buffers
<1>. HIDE DEF new
<1>8. ASSUME NEW k \in 1..b.len PROVE mem[k] = b.mem[k]
  <2>1. k \in 1..b.cap /\ ~(k > b.len) /\ k # end + 1
    BY <1>1
  <2>. HIDE DEF end
  <2>. QED BY <1>6, <2>1
<1>9. ASSUME NEW k \in 1..Len(s) PROVE mem[b.len + k] = s[k]
  <2>1. b.len + k \in 1..b.cap /\ b.len + k > b.len /\ b.len + k <= end
        /\ (b.len + k) - b.len = k
    BY <1>1
  <2>. QED BY <1>6, <2>1
<1>10. mem[end + 1] = NUL
  <2>1. end + 1 \in 1..b.cap /\ ~(end + 1 <= end)
    BY <1>1
  <2>. HIDE DEF end
  <2>. QED BY <1>6, <2>1
<1>11. ASSUME NEW k \in 1..end PROVE mem[k] # NUL
  <2>1. CASE k \in 1..b.len
    BY <1>1, <1>8, <2>1
  <2>2. CASE k \notin 1..b.len
    <3>1. k - b.len \in 1..Len(s) /\ b.len + (k - b.len) = k
      BY <1>1, <2>2
    <3>. QED BY <1>4, <1>9, <3>1
  <2>. QED BY <2>1, <2>2
<1>12. Good(new)
  <2>1. end \in Nat /\ end < b.cap /\ mem # <<>>
    BY <1>1, <1>6
  <2>. QED BY <1>1, <1>6, <1>7, <1>10, <1>11, <2>1 DEF Good
<1>13. mem # <<>>
  BY <1>1, <1>6
<1>. QED BY <1>3, <1>7, <1>8, <1>9, <1>12, <1>13 DEF GoodBuffer

\* strapi_append_str: whatever the capacity was, the text is there, behind the old
\* one, within the memory the string owns.
THEOREM AppendStrAppends ==
  ASSUME NEW b, GoodBuffer(b), NEW s \in Texts
  PROVE  GoodBuffer(AppendStr(b, s)) /\ Text(AppendStr(b, s)) = Text(b) \o s
<1>. DEFINE room == Expand(b, Len(s))
            new == AppendStr(b, s)
<1>1. Len(s) \in Nat /\ b.len \in Nat /\ Len(b.mem) = b.cap /\ b.mem \in Seq(Chars)
      /\ (b.mem = <<>> => b.len = 0) /\ (b.mem # <<>> => b.len < b.cap) /\ b.cap \in Nat
  BY BuffersDef
<1>2. /\ GoodBuffer(room) /\ room.len = b.len /\ room.mem # <<>>
      /\ b.len + Len(s) < room.cap /\ \A k \in 1..b.len : room.mem[k] = b.mem[k]
  BY <1>1, ExpandMakesRoom
<1>3. new = Put(room, s)
  BY DEF AppendStr
<1>. HIDE DEF room, new
<1>4. /\ GoodBuffer(new) /\ new.len = b.len + Len(s) /\ new.mem # <<>>
      /\ \A k \in 1..b.len : new.mem[k] = b.mem[k]
      /\ \A k \in 1..Len(s) : new.mem[b.len + k] = s[k]
  BY <1>2, <1>3, PutAppends
<1>5. new.mem \in Seq(Chars) /\ Len(new.mem) = new.cap /\ new.len < new.cap
      /\ new.cap \in Nat
  BY <1>4, BuffersDef
<1>. DEFINE n == b.len + Len(s)
<1>6. \A k \in 1..n : new.mem[k] \in Chars
  BY <1>1, <1>4, <1>5, ElementOfSeq
<1>7. \A k \in 1..b.len : b.mem[k] \in Chars
  BY <1>1, ElementOfSeq
<1>8. /\ Text(new) \in Seq(Chars) /\ Len(Text(new)) = n
      /\ \A k \in 1..n : Text(new)[k] = new.mem[k]
  <2>1. n \in Int /\ 1 \in Int
    BY <1>1
  <2>. HIDE DEF n
  <2>2. /\ SubSeq(new.mem, 1, n) \in Seq(Chars)
        /\ Len(SubSeq(new.mem, 1, n)) = IF 1 <= n THEN n - 1 + 1 ELSE 0
        /\ \A k \in 1..(n - 1 + 1) : SubSeq(new.mem, 1, n)[k] = new.mem[1 + k - 1]
    BY <1>6, <2>1, SubSeqProperties
  <2>3. Text(new) = SubSeq(new.mem, 1, n)
    BY <1>4 DEF Text, n
  <2>4. n \in Nat
    BY <1>1 DEF n
  <2>. QED BY <2>2, <2>3, <2>4
<1>9. /\ Text(b) \in Seq(Chars) /\ Len(Text(b)) = b.len
      /\ \A k \in 1..b.len : Text(b)[k] = b.mem[k]
  <2>1. /\ SubSeq(b.mem, 1, b.len) \in Seq(Chars)
        /\ Len(SubSeq(b.mem, 1, b.len)) = IF 1 <= b.len THEN b.len - 1 + 1 ELSE 0
        /\ \A k \in 1..(b.len - 1 + 1) : SubSeq(b.mem, 1, b.len)[k] = b.mem[1 + k - 1]
    BY <1>1, <1>7, SubSeqProperties
  <2>. QED BY <1>1, <2>1 DEF Text
<1>10. s \in Seq(Chars)
  BY CharsDef
<1>11. /\ Text(b) \o s \in Seq(Chars) /\ Len(Text(b) \o s) = b.len + Len(s)
       /\ \A k \in 1..(b.len + Len(s)) :
            (Text(b) \o s)[k] = IF k <= b.len THEN Text(b)[k] ELSE s[k - b.len]
  <2>1. Text(b) \in Seq(Chars)
    BY <1>9
  <2>2. /\ Text(b) \o s \in Seq(Chars) /\ Len(Text(b) \o s) = Len(Text(b)) + Len(s)
        /\ \A k \in 1..(Len(Text(b)) + Len(s)) :
             (Text(b) \o s)[k] = IF k <= Len(Text(b)) THEN Text(b)[k] ELSE s[k - Len(Text(b))]
    BY <1>10, <2>1, ConcatProperties
  <2>. QED BY <1>9, <2>2
<1>12. ASSUME NEW k \in 1..n PROVE Text(new)[k] = (Text(b) \o s)[k]
  <2>1. CASE k <= b.len
    BY <1>1, <1>4, <1>8, <1>9, <1>11, <2>1
  <2>2. CASE ~(k <= b.len)
    <3>1. k - b.len \in 1..Len(s) /\ b.len + (k - b.len) = k
      BY <1>1, <2>2
    <3>. QED BY <1>4, <1>8, <1>11, <2>2, <3>1
  <2>. QED BY <2>1, <2>2
<1>13. Text(new) = Text(b) \o s
  BY <1>8, <1>11, <1>12, SeqEqual
<1>. QED BY <1>4, <1>13 DEF new

\* The same of the other operations that append.
THEOREM AppendCharAppends ==
  ASSUME NEW b, GoodBuffer(b), NEW c \in Letters \ {NUL}
  PROVE  GoodBuffer(AppendChar(b, c)) /\ Text(AppendChar(b, c)) = Text(b) \o <<c>>
<1>1. <<c>> \in Texts /\ Len(<<c>>) = 1
  BY DEF Texts
<1>2. AppendChar(b, c) = AppendStr(b, <<c>>)
  BY <1>1 DEF AppendChar, AppendStr
<1>. QED BY <1>1, <1>2, AppendStrAppends

THEOREM AppendStrnAppends ==
  ASSUME NEW b, GoodBuffer(b), NEW s \in Texts, NEW n \in 0..Len(s)
  PROVE  /\ GoodBuffer(AppendStrn(b, s, n))
         /\ n # 0 => Text(AppendStrn(b, s, n)) = Text(b) \o SubSeq(s, 1, n)
<1>1. CASE n = 0
  BY <1>1 DEF AppendStrn
<1>2. CASE n # 0
  <2>1. s \in Seq(Letters \ {NUL}) /\ Len(s) \in Nat
    BY CharsDef DEF Texts
  <2>2. n \in Int /\ 1 \in Int /\ n \in Nat /\ \A k \in 1..n : s[k] \in Letters \ {NUL}
    BY <2>1, ElementOfSeq
  <2>3. SubSeq(s, 1, n) \in Seq(Letters \ {NUL}) /\ Len(SubSeq(s, 1, n)) = n
    BY <1>2, <2>2, SubSeqProperties
  <2>4. AppendStrn(b, s, n) = AppendStr(b, SubSeq(s, 1, n))
    BY <1>2, <2>3 DEF AppendStrn, AppendStr
  <2>. QED BY <2>3, <2>4, AppendStrAppends DEF Texts
<1>. QED BY <1>1, <1>2

\* strapi_trim_last and strapi_remove_last_char: the text is cut where it was meant to
\* be, and never in front of its beginning.
LEMMA CutKeepsGood ==
  ASSUME NEW b, GoodBuffer(b), NEW len \in 0..b.len
  PROVE  /\ GoodBuffer(CutAt(b, len)) /\ CutAt(b, len).len = len
         /\ \A k \in 1..len : CutAt(b, len).mem[k] = b.mem[k]
<1>. DEFINE mem == [k \in 1..Len(b.mem) |-> IF k = len + 1 THEN NUL ELSE b.mem[k]]
            new == [b EXCEPT !.len = len, !.mem = mem]
<1>1. /\ b.mem \in Seq(Chars) /\ b.len \in Nat /\ b.cap \in Nat /\ Len(b.mem) = b.cap
      /\ \A k \in 1..b.len : b.mem[k] # NUL
      /\ b.mem = <<>> => b.len = 0
      /\ b.mem # <<>> => b.len < b.cap
      /\ b \in Buffers /\ len \in Nat /\ len <= b.len
  BY BuffersDef DEF GoodBuffer
<1>2. ASSUME NEW k \in 1..Len(b.mem)
      PROVE  (IF k = len + 1 THEN NUL ELSE b.mem[k]) \in Chars
  BY <1>1, CharsDef, ElementOfSeq
<1>3. /\ mem \in Seq(Chars) /\ Len(mem) = b.cap
      /\ \A k \in 1..b.cap : mem[k] = IF k = len + 1 THEN NUL ELSE b.mem[k]
  <2>1. mem \in [1..Len(b.mem) -> Chars]
    BY <1>2
  <2>2. \A k \in 1..Len(b.mem) : mem[k] = IF k = len + 1 THEN NUL ELSE b.mem[k]
    OBVIOUS
  <2>. HIDE DEF mem
  <2>. QED BY <1>1, <2>1, <2>2, SeqOfFunction
<1>4. CutAt(b, len) = new
  BY DEF CutAt
<1>. HIDE DEF mem
<1>5. /\ new \in Buffers /\ new.cap = b.cap /\ new.mem = mem /\ new.len = len
      /\ new.step = b.step /\ b.step \in Nat \ {0}
  BY <1>1, <1>3 DEF Buffers
<1>. HIDE DEF new
<1>6. \A k \in 1..len : mem[k] = b.mem[k]
  BY <1>1, <1>3
<1>7. Good(new)
  <2>1. CASE b.mem = <<>>
    BY <1>1, <1>3, <1>5, <2>1 DEF Good
  <2>2. CASE b.mem # <<>>
    <3>1. len < b.cap /\ len + 1 \in 1..b.cap /\ mem # <<>>
      BY <1>1, <1>3, <2>2
    <3>2. mem[len + 1] = NUL /\ \A k \in 1..len : mem[k] # NUL
      BY <1>1, <1>3, <1>6, <3>1
    <3>. QED BY <1>1, <1>3, <1>5, <3>1, <3>2 DEF Good
  <2>. QED BY <2>1, <2>2
<1>. QED BY <1>4, <1>5, <1>6, <1>7 DEF GoodBuffer

THEOREM CutsKeepGood ==
  ASSUME NEW b, GoodBuffer(b), NEW n \in Nat
  PROVE  GoodBuffer(TrimLast(b, n)) /\ GoodBuffer(RemoveLastChar(b))
<1>1. b.len \in Nat
  BY BuffersDef
<1>2. (IF n > b.len THEN 0 ELSE b.len - n) \in 0..b.len
  BY <1>1
<1>3. b.len # 0 => b.len - 1 \in 0..b.len
  BY <1>1
<1>. QED BY <1>2, <1>3, CutKeepsGood DEF TrimLast, RemoveLastChar

\* strapi_get_dup: strdup finds the terminator behind the text and none before.
THEOREM DupIsText ==
  ASSUME NEW b, GoodBuffer(b), b.mem # <<>>
  PROVE  GetDup(b) = Text(b)
<1>. DEFINE stops == {k \in 1..Len(b.mem) : b.mem[k] = NUL}
            first == CHOOSE k \in stops : \A j \in stops : k <= j
<1>1. /\ b.len \in Nat /\ b.cap \in Nat /\ Len(b.mem) = b.cap /\ b.len < b.cap
      /\ b.mem[b.len + 1] = NUL
      /\ \A k \in 1..b.len : b.mem[k] # NUL
  BY BuffersDef
<1>2. b.len + 1 \in stops /\ \A j \in stops : b.len + 1 <= j
  BY <1>1
<1>3. \A k \in stops : k \in Int
  OBVIOUS
<1>4. CString(b.mem) = SubSeq(b.mem, 1, first - 1)
  BY <1>2 DEF CString
<1>. HIDE DEF stops
<1>5. first \in stops /\ \A j \in stops : first <= j
  BY <1>2
<1>. HIDE DEF first
<1>6. first = b.len + 1
  BY <1>1, <1>2, <1>3, <1>5
<1>. QED BY <1>1, <1>4, <1>6 DEF GetDup, Text

\* strapi_init, strapi_clear and strapi_free leave an empty text.
THEOREM EmptyKeepsGood ==
  ASSUME NEW b, GoodBuffer(b), NEW step \in Nat \ {0}
  PROVE  /\ GoodBuffer(StrapiInit(step)) /\ StrapiInit(step).len = 0
         /\ GoodBuffer(Clear(b)) /\ Clear(b).len = 0
         /\ GoodBuffer(Free(b)) /\ Free(b).len = 0
<1>1. /\ b.mem \in Seq(Chars) /\ b.cap \in Nat /\ Len(b.mem) = b.cap
      /\ b \in Buffers
  BY BuffersDef DEF GoodBuffer
<1>2. <<>> \in Seq(Chars) /\ Len(<<>>) = 0
  OBVIOUS
<1>3. GoodBuffer(StrapiInit(step)) /\ StrapiInit(step).len = 0
  BY <1>2 DEF GoodBuffer, Good, Buffers, StrapiInit
<1>4. GoodBuffer(Free(b)) /\ Free(b).len = 0
  <2>. DEFINE none == <<>>
              new == [b EXCEPT !.mem = none, !.len = 0, !.cap = 0]
  <2>1. none \in Seq(Chars) /\ Len(none) = 0 /\ none = <<>>
    BY <1>2
  <2>2. Free(b) = new
    BY DEF Free
  <2>. HIDE DEF none
  <2>3. /\ new \in Buffers /\ new.mem = none /\ new.len = 0 /\ new.cap = 0
        /\ new.step \in Nat \ {0}
    BY <1>1, <2>1 DEF Buffers
  <2>. HIDE DEF new
  <2>. QED BY <2>1, <2>2, <2>3 DEF GoodBuffer, Good
<1>5. GoodBuffer(Clear(b)) /\ Clear(b).len = 0
  <2>. DEFINE mem == [k \in 1..Len(b.mem) |-> NUL]
              new == [b EXCEPT !.len = 0, !.mem = mem]
  <2>1. mem \in [1..Len(b.mem) -> Chars] /\ \A k \in 1..Len(b.mem) : mem[k] = NUL
    BY CharsDef
  <2>2. Clear(b) = new
    BY DEF Clear
  <2>. HIDE DEF mem
  <2>3. mem \in Seq(Chars) /\ Len(mem) = b.cap
    BY <1>1, <2>1, SeqOfFunction
  <2>4. /\ new \in Buffers /\ new.mem = mem /\ new.len = 0 /\ new.cap = b.cap
        /\ new.step \in Nat \ {0}
    BY <1>1, <2>3 DEF Buffers
  <2>. HIDE DEF new
  <2>5. mem # <<>> => 0 < b.cap /\ 1 \in 1..Len(b.mem)
    BY <1>1, <2>3
  <2>6. Good(new)
    BY <1>1, <2>1, <2>3, <2>4, <2>5 DEF Good
  <2>. QED BY <2>2, <2>4, <2>6 DEF GoodBuffer
<1>. QED BY <1>3, <1>4, <1>5
=============================================================================
