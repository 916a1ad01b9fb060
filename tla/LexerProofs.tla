---------------------------- MODULE LexerProofs ----------------------------
(***************************************************************************)
(* What one symbol does to the lexer, for every state it can be in: the    *)
(* state stays well-formed, the position goes on by one, and no part of a  *)
(* word reaches past it.  One lemma per operator of Lexer.                 *)
(***************************************************************************)
EXTENDS Lexer, SequenceTheorems, WellFoundedInduction, TLAPS

\* No part, of a token or of the word being read, is ahead of the position.
Behind(parts, toks, pos) ==
  /\ Within(parts, pos)
  /\ \A t \in 1..Len(toks) : Within(toks[t].parts, pos)
Good(lx) == lx \in Lexers /\ Behind(lx.tmp, lx.toks, lx.pos)

\* What an operator of the source leaves well-formed, n positions further on.
GoodAt(lx, old, n) == Good(lx) /\ lx.pos = old.pos + n

-----------------------------------------------------------------------------
(* Records, parts and stacks. *)

\* The sets the components of a lexer are taken from.
LEMMA LexersDef ==
  ASSUME NEW lx \in Lexers
  PROVE  /\ lx.mode \in Modes /\ lx.ctxs \in Seq(Contexts) /\ lx.tmp \in Seq(Parts)
         /\ lx.toks \in Seq(Tokens) /\ lx.pos \in Nat /\ lx.hd \in Nat
BY DEF Lexers

\* The sets the components of a part and of a token are taken from.
LEMMA PartsDef ==
  ASSUME NEW s \in Seq(Parts), NEW k \in 1..Len(s)
  PROVE  s[k] \in Parts /\ s[k].start \in Nat /\ s[k].end \in Nat
<1>1. s[k] \in Parts
  OBVIOUS
<1>. QED BY <1>1 DEF Parts

LEMMA TokensDef ==
  ASSUME NEW s \in Seq(Tokens), NEW k \in 1..Len(s)
  PROVE  s[k] \in Tokens /\ s[k].parts \in Seq(Parts) /\ s[k].type \in TokTypes
<1>1. s[k] \in Tokens
  OBVIOUS
<1>. QED BY <1>1 DEF Tokens

\* Each component of a lexer can be replaced by another of its set.
LEMMA SetMode ==
  ASSUME NEW lx \in Lexers, NEW x \in Modes
  PROVE  LET new == [lx EXCEPT !.mode = x]
         IN new \in Lexers /\ new.pos = lx.pos /\ new.tmp = lx.tmp /\ new.toks = lx.toks
BY DEF Lexers
LEMMA SetCtxs ==
  ASSUME NEW lx \in Lexers, NEW x \in Seq(Contexts)
  PROVE  LET new == [lx EXCEPT !.ctxs = x]
         IN new \in Lexers /\ new.pos = lx.pos /\ new.tmp = lx.tmp /\ new.toks = lx.toks
BY DEF Lexers
LEMMA SetTmp ==
  ASSUME NEW lx \in Lexers, NEW x \in Seq(Parts)
  PROVE  LET new == [lx EXCEPT !.tmp = x]
         IN new \in Lexers /\ new.pos = lx.pos /\ new.tmp = x /\ new.toks = lx.toks
BY DEF Lexers
LEMMA SetPos ==
  ASSUME NEW lx \in Lexers, NEW x \in Nat
  PROVE  LET new == [lx EXCEPT !.pos = x]
         IN new \in Lexers /\ new.pos = x /\ new.tmp = lx.tmp /\ new.toks = lx.toks
BY DEF Lexers
LEMMA SetToksTmp ==
  ASSUME NEW lx \in Lexers, NEW x \in Seq(Tokens), NEW y \in Seq(Parts)
  PROVE  LET new == [lx EXCEPT !.toks = x, !.tmp = y]
         IN new \in Lexers /\ new.pos = lx.pos /\ new.tmp = y /\ new.toks = x
BY DEF Lexers
LEMMA SetToksHd ==
  ASSUME NEW lx \in Lexers, NEW x \in Seq(Tokens), NEW n \in Nat
  PROVE  LET new == [lx EXCEPT !.toks = x, !.hd = n]
         IN new \in Lexers /\ new.pos = lx.pos /\ new.tmp = lx.tmp /\ new.toks = x
BY DEF Lexers
LEMMA SetHd ==
  ASSUME NEW lx \in Lexers, NEW n \in Nat
  PROVE  LET new == [lx EXCEPT !.hd = n]
         IN new \in Lexers /\ new.pos = lx.pos /\ new.tmp = lx.tmp /\ new.toks = lx.toks
BY DEF Lexers

\* Text delimited before a position is before every later one.
LEMMA WithinLater ==
  ASSUME NEW parts \in Seq(Parts), NEW a \in Nat, NEW b \in Nat, a <= b, Within(parts, a)
  PROVE  Within(parts, b)
BY PartsDef DEF Within

LEMMA BehindLater ==
  ASSUME NEW parts \in Seq(Parts), NEW toks \in Seq(Tokens),
         NEW a \in Nat, NEW b \in Nat, a <= b, Behind(parts, toks, a)
  PROVE  Behind(parts, toks, b)
<1>1. Within(parts, b)
  BY WithinLater DEF Behind
<1>2. ASSUME NEW t \in 1..Len(toks) PROVE Within(toks[t].parts, b)
  <2>1. toks[t].parts \in Seq(Parts) /\ Within(toks[t].parts, a)
    BY TokensDef DEF Behind
  <2>. QED BY <2>1, WithinLater
<1>. QED BY <1>1, <1>2 DEF Behind

\* A part, or a token, that is behind the position is added to those that are.
LEMMA AppendWithin ==
  ASSUME NEW parts \in Seq(Parts), NEW p \in Parts, NEW a \in Nat,
         Within(parts, a), p.start <= p.end, p.end <= a
  PROVE  Append(parts, p) \in Seq(Parts) /\ Within(Append(parts, p), a)
<1>1. /\ Append(parts, p) \in Seq(Parts) /\ Len(Append(parts, p)) = Len(parts) + 1
      /\ \A k \in 1..Len(parts) : Append(parts, p)[k] = parts[k]
      /\ Append(parts, p)[Len(parts) + 1] = p
  BY AppendProperties
<1>2. ASSUME NEW k \in 1..(Len(parts) + 1)
      PROVE  Append(parts, p)[k].start <= Append(parts, p)[k].end
             /\ Append(parts, p)[k].end <= a
  <2>1. CASE k \in 1..Len(parts)
    BY <1>1, <2>1 DEF Within
  <2>2. CASE k = Len(parts) + 1
    BY <1>1, <2>2
  <2>. QED BY <2>1, <2>2
<1>. QED BY <1>1, <1>2 DEF Within

LEMMA AppendBehind ==
  ASSUME NEW parts \in Seq(Parts), NEW toks \in Seq(Tokens), NEW t \in Tokens,
         NEW a \in Nat, Behind(parts, toks, a), Within(t.parts, a)
  PROVE  Append(toks, t) \in Seq(Tokens) /\ Behind(parts, Append(toks, t), a)
<1>1. /\ Append(toks, t) \in Seq(Tokens) /\ Len(Append(toks, t)) = Len(toks) + 1
      /\ \A k \in 1..Len(toks) : Append(toks, t)[k] = toks[k]
      /\ Append(toks, t)[Len(toks) + 1] = t
  BY AppendProperties
<1>2. ASSUME NEW k \in 1..(Len(toks) + 1) PROVE Within(Append(toks, t)[k].parts, a)
  <2>1. CASE k \in 1..Len(toks)
    BY <1>1, <2>1 DEF Behind
  <2>2. CASE k = Len(toks) + 1
    BY <1>1, <2>2
  <2>. QED BY <2>1, <2>2
<1>. QED BY <1>1, <1>2 DEF Behind

\* A stack without its top is a stack.
LEMMA PopType ==
  ASSUME NEW s \in Seq(Contexts)
  PROVE  Pop(s) \in Seq(Contexts)
<1>1. CASE s = <<>>
  BY <1>1 DEF Pop
<1>2. CASE s # <<>>
  BY <1>2, SubSeqProperties DEF Pop
<1>. QED BY <1>1, <1>2

\* A token as it is made, without parts or with those of a word.
LEMMA TokenType ==
  ASSUME NEW type \in TokTypes, NEW parts \in Seq(Parts)
  PROVE  Token(type, parts) \in Tokens /\ Token(type, parts).parts = parts
BY DEF Token, Tokens
-----------------------------------------------------------------------------
(* The operators on contexts, parts and tokens. *)

\* The mode and the contexts do not matter to parts.
LEMMA InGood ==
  ASSUME NEW lx, Good(lx), NEW m \in Modes
  PROVE  GoodAt(In(lx, m), lx, 0)
BY SetMode, LexersDef DEF Good, GoodAt, In
LEMMA SameAt ==
  ASSUME NEW b, NEW c, NEW p \in Nat, GoodAt(c, b, 0), NEW a, a.pos = p, b.pos = p + 1
  PROVE  GoodAt(c, a, 1)
BY DEF GoodAt
LEMMA ContextsGood ==
  ASSUME NEW lx, Good(lx), NEW s \in Seq(Contexts)
  PROVE  GoodAt([lx EXCEPT !.ctxs = s], lx, 0)
BY SetCtxs, LexersDef DEF Good, GoodAt
LEMMA AddContextGood ==
  ASSUME NEW lx, Good(lx), NEW c \in Contexts
  PROVE  GoodAt(AddContext(lx, c), lx, 0)
<1>1. Append(lx.ctxs, c) \in Seq(Contexts)
  BY LexersDef DEF Good
<1>. QED BY <1>1, ContextsGood DEF AddContext
LEMMA PopIfGood ==
  ASSUME NEW lx, Good(lx), NEW S
  PROVE  GoodAt([lx EXCEPT !.ctxs = PopIf(lx.ctxs, S)], lx, 0)
<1>1. PopIf(lx.ctxs, S) \in Seq(Contexts)
  BY LexersDef, PopType DEF Good, PopIf
<1>. QED BY <1>1, ContextsGood
LEMMA RemContextsGood ==
  ASSUME NEW lx, Good(lx)
  PROVE  /\ GoodAt(RemOpContext(lx), lx, 0)
         /\ GoodAt(RemSubContext(lx), lx, 0)
         /\ GoodAt(RemEscContext(lx), lx, 0)
BY PopIfGood DEF RemOpContext, RemSubContext, RemEscContext

\* The position goes on by one.
LEMMA AdvanceGood ==
  ASSUME NEW lx, Good(lx)
  PROVE  GoodAt(Advance(lx), lx, 1)
<1>1. /\ lx \in Lexers /\ lx.pos \in Nat /\ lx.pos + 1 \in Nat /\ lx.pos <= lx.pos + 1
      /\ lx.tmp \in Seq(Parts) /\ lx.toks \in Seq(Tokens)
  BY LexersDef DEF Good
<1>2. Behind(lx.tmp, lx.toks, lx.pos + 1)
  BY <1>1, BehindLater DEF Good
<1>. QED BY <1>1, <1>2, SetPos DEF Good, GoodAt, Advance

\* The part being read ends at the position.
LEMMA CloseTmpPartGood ==
  ASSUME NEW lx, Good(lx)
  PROVE  GoodAt(CloseTmpPart(lx), lx, 0)
<1>0. /\ lx \in Lexers /\ lx.pos \in Nat /\ lx.tmp \in Seq(Parts)
      /\ lx.toks \in Seq(Tokens) /\ Behind(lx.tmp, lx.toks, lx.pos)
  BY LexersDef DEF Good
<1>1. CASE lx.tmp = <<>>
  BY <1>0, <1>1 DEF CloseTmpPart, GoodAt, Good
<1>2. CASE lx.tmp # <<>>
  <2>. DEFINE n == Len(lx.tmp)
              p == [lx.tmp[n] EXCEPT !.end = lx.pos]
              closed == [lx.tmp EXCEPT ![n] = p]
  <2>1. n \in 1..n
    BY <1>0, <1>2
  <2>2. lx.tmp[n] \in Parts /\ lx.tmp[n].start \in Nat /\ lx.tmp[n].end \in Nat
    BY <1>0, <2>1, PartsDef
  <2>3. lx.tmp[n].start <= lx.pos
    BY <1>0, <2>1, <2>2 DEF Behind, Within
  <2>4. p \in Parts /\ p.start = lx.tmp[n].start /\ p.end = lx.pos
    BY <1>0, <2>2 DEF Parts
  <2>. HIDE DEF p
  <2>5. closed \in Seq(Parts) /\ Len(closed) = n
        /\ \A k \in 1..n : closed[k] = IF k = n THEN p ELSE lx.tmp[k]
    BY <1>0, <2>1, <2>4, ExceptSeq
  <2>. HIDE DEF closed
  <2>6. Within(closed, lx.pos)
    BY <1>0, <2>3, <2>4, <2>5 DEF Behind, Within
  <2>7. CloseTmpPart(lx) = [lx EXCEPT !.tmp = closed]
    BY <1>2 DEF CloseTmpPart, closed, p
  <2>8. /\ [lx EXCEPT !.tmp = closed] \in Lexers
        /\ [lx EXCEPT !.tmp = closed].pos = lx.pos
        /\ [lx EXCEPT !.tmp = closed].tmp = closed
        /\ [lx EXCEPT !.tmp = closed].toks = lx.toks
    BY <1>0, <2>5, SetTmp
  <2>. QED BY <1>0, <2>6, <2>7, <2>8 DEF GoodAt, Good, Behind
<1>. QED BY <1>1, <1>2

\* A new part is empty and at the position.
LEMMA TempPartCreateGood ==
  ASSUME NEW lx, Good(lx), NEW type \in PartTypes
  PROVE  GoodAt(TempPartCreate(lx, type), lx, 0)
<1>. DEFINE p == [type |-> type, start |-> lx.pos, end |-> lx.pos]
<1>1. /\ lx \in Lexers /\ lx.pos \in Nat /\ lx.tmp \in Seq(Parts)
      /\ lx.toks \in Seq(Tokens) /\ Behind(lx.tmp, lx.toks, lx.pos)
  BY LexersDef DEF Good
<1>2. p \in Parts /\ p.start <= p.end /\ p.end <= lx.pos
  BY <1>1 DEF Parts
<1>. HIDE DEF p
<1>3. Append(lx.tmp, p) \in Seq(Parts) /\ Within(Append(lx.tmp, p), lx.pos)
  BY <1>1, <1>2, AppendWithin DEF Behind
<1>4. TempPartCreate(lx, type) = [lx EXCEPT !.tmp = Append(lx.tmp, p)]
  BY DEF TempPartCreate, p
<1>5. /\ [lx EXCEPT !.tmp = Append(lx.tmp, p)] \in Lexers
      /\ [lx EXCEPT !.tmp = Append(lx.tmp, p)].pos = lx.pos
      /\ [lx EXCEPT !.tmp = Append(lx.tmp, p)].tmp = Append(lx.tmp, p)
      /\ [lx EXCEPT !.tmp = Append(lx.tmp, p)].toks = lx.toks
  BY <1>1, <1>3, SetTmp
<1>. QED BY <1>1, <1>3, <1>4, <1>5 DEF GoodAt, Good, Behind

\* A control operator, a redirection or a newline becomes a token without parts.
LEMMA EmitGood ==
  ASSUME NEW lx, Good(lx), NEW type \in TokTypes
  PROVE  GoodAt(Emit(lx, type), lx, 0)
<1>. DEFINE t == Token(type, <<>>)
            hd == IF type = "<<" THEN lx.hd + 1 ELSE lx.hd
            new == [lx EXCEPT !.toks = Append(lx.toks, t), !.hd = hd]
<1>1. /\ lx \in Lexers /\ lx.pos \in Nat /\ lx.tmp \in Seq(Parts)
      /\ lx.toks \in Seq(Tokens) /\ hd \in Nat /\ Behind(lx.tmp, lx.toks, lx.pos)
  BY LexersDef DEF Good
<1>2. t \in Tokens /\ t.parts = <<>>
  BY TokenType, <<>> \in Seq(Parts)
<1>. HIDE DEF t, hd
<1>3. Within(<<>>, lx.pos)
  BY DEF Within
<1>4. Append(lx.toks, t) \in Seq(Tokens) /\ Behind(lx.tmp, Append(lx.toks, t), lx.pos)
  BY <1>1, <1>2, <1>3, AppendBehind
<1>5. /\ new \in Lexers /\ new.pos = lx.pos /\ new.tmp = lx.tmp
      /\ new.toks = Append(lx.toks, t)
  BY <1>1, <1>4, SetToksHd
<1>6. Emit(lx, type) = new
  BY DEF Emit, hd, t
<1>. QED BY <1>1, <1>4, <1>5, <1>6 DEF GoodAt, Good

\* The parts read so far become a word.
LEMMA WordEmitGood ==
  ASSUME NEW lx, Good(lx)
  PROVE  GoodAt(WordEmit(lx), lx, 0)
<1>. DEFINE t == Token("WORD", lx.tmp)
            new == [lx EXCEPT !.toks = Append(lx.toks, t), !.tmp = <<>>]
<1>1. /\ lx \in Lexers /\ lx.pos \in Nat /\ lx.tmp \in Seq(Parts) /\ lx.hd \in Nat
      /\ lx.toks \in Seq(Tokens) /\ Behind(lx.tmp, lx.toks, lx.pos)
  BY LexersDef DEF Good
<1>2. CASE lx.tmp = <<>>
  BY <1>1, <1>2 DEF WordEmit, GoodAt, Good
<1>3. CASE lx.tmp # <<>>
  <2>1. t \in Tokens /\ t.parts = lx.tmp
    BY <1>1, TokenType, "WORD" \in TokTypes DEF TokTypes
  <2>. HIDE DEF t
  <2>2. Append(lx.toks, t) \in Seq(Tokens) /\ Behind(lx.tmp, Append(lx.toks, t), lx.pos)
    BY <1>1, <2>1, AppendBehind DEF Behind
  <2>3. Behind(<<>>, Append(lx.toks, t), lx.pos)
    BY <2>2 DEF Behind, Within
  <2>4. /\ new \in Lexers /\ new.pos = lx.pos /\ new.tmp = <<>>
        /\ new.toks = Append(lx.toks, t)
    <3>. DEFINE none == <<>>
                toks == Append(lx.toks, t)
    <3>1. none \in Seq(Parts) /\ toks \in Seq(Tokens)
      BY <2>2
    <3>. HIDE DEF none, toks
    <3>2. LET n == [lx EXCEPT !.toks = toks, !.tmp = none]
          IN n \in Lexers /\ n.pos = lx.pos /\ n.tmp = none /\ n.toks = toks
      <4>1. lx \in Lexers
        BY <1>1
      <4>. QED BY <3>1, <4>1 DEF Lexers
    <3>. QED BY <3>2 DEF none, toks
  <2>5. WordEmit(lx) = new
    BY <1>3 DEF WordEmit, t
  <2>. QED BY <1>1, <2>3, <2>4, <2>5 DEF GoodAt, Good
<1>. QED BY <1>2, <1>3

-----------------------------------------------------------------------------
(* The steps of the lexer, each a chain of the operators above. *)

\* An operator ends the word before it.
LEMMA EmitOperatorGood ==
  ASSUME NEW lx, Good(lx), NEW c \in Operators
  PROVE  GoodAt(EmitOperator(lx, c), lx, 1)
<1>. DEFINE before == IF c \in Redirs THEN RemOpContext(lx) ELSE lx
            closed == CloseTmpPart(before)
            word == WordEmit(closed)
            emitted == Emit(word, c)
            after == Advance(emitted)
<1>0. lx.pos \in Nat
  BY LexersDef DEF Good
<1>1. Good(before) /\ before.pos = lx.pos
  BY <1>0, RemContextsGood DEF GoodAt
<1>. HIDE DEF before
<1>2. Good(closed) /\ closed.pos = lx.pos
  BY <1>0, <1>1, CloseTmpPartGood DEF GoodAt
<1>. HIDE DEF closed
<1>3. Good(word) /\ word.pos = lx.pos
  BY <1>0, <1>2, WordEmitGood DEF GoodAt
<1>. HIDE DEF word
<1>4. Good(emitted) /\ emitted.pos = lx.pos
  <2>1. c \in TokTypes
    BY DEF TokTypes
  <2>. QED BY <1>0, <1>3, <2>1, EmitGood DEF GoodAt
<1>. HIDE DEF emitted
<1>5. Good(after) /\ after.pos = lx.pos + 1
  BY <1>0, <1>4, AdvanceGood DEF GoodAt
<1>. HIDE DEF after
<1>6. CASE c \in OpContexts \cup {"("}
  <2>1. c \in Contexts
    BY <1>6 DEF Contexts, OpContexts
  <2>2. EmitOperator(lx, c) = AddContext(after, c)
    BY <1>6 DEF EmitOperator, after, emitted, word, closed, before
  <2>. QED BY <1>0, <1>5, <2>1, <2>2, AddContextGood DEF GoodAt
<1>7. CASE c \notin OpContexts \cup {"("} /\ c = ")"
  <2>. DEFINE sub == RemSubContext(after)
  <2>1. Good(sub) /\ sub.pos = lx.pos + 1
    BY <1>0, <1>5, RemContextsGood DEF GoodAt
  <2>2. EmitOperator(lx, c) = RemOpContext(sub)
    BY <1>7 DEF EmitOperator, after, emitted, word, closed, before
  <2>. HIDE DEF sub
  <2>. QED BY <1>0, <2>1, <2>2, RemContextsGood DEF GoodAt
<1>8. CASE c \notin OpContexts \cup {"("} /\ c # ")"
  <2>1. EmitOperator(lx, c) = after
    BY <1>8 DEF EmitOperator, after, emitted, word, closed, before
  <2>. QED BY <1>5, <2>1 DEF GoodAt
<1>. QED BY <1>6, <1>7, <1>8

\* Quotes are entered and left, and passed through.
LEMMA EnterQuoteGood ==
  ASSUME NEW lx, Good(lx), NEW c \in Quotes
  PROVE  GoodAt(EnterQuote(lx, c), lx, 1)
<1>. DEFINE next == Advance(lx)
            in == In(next, c)
            rem == RemOpContext(in)
            add == AddContext(rem, c)
<1>0. lx.pos \in Nat /\ c \in Modes /\ c \in Contexts /\ c \in PartTypes
  BY LexersDef DEF Good, Quotes, Modes, Contexts, PartTypes
<1>1. Good(next) /\ next.pos = lx.pos + 1
  BY <1>0, AdvanceGood DEF GoodAt
<1>. HIDE DEF next
<1>2. Good(in) /\ in.pos = lx.pos + 1
  BY <1>0, <1>1, InGood DEF GoodAt
<1>. HIDE DEF in
<1>3. Good(rem) /\ rem.pos = lx.pos + 1
  BY <1>0, <1>2, RemContextsGood DEF GoodAt
<1>. HIDE DEF rem
<1>4. Good(add) /\ add.pos = lx.pos + 1
  BY <1>0, <1>3, AddContextGood DEF GoodAt
<1>. HIDE DEF add
<1>5. GoodAt(TempPartCreate(add, c), add, 0)
  BY <1>0, <1>4, TempPartCreateGood
<1>6. EnterQuote(lx, c) = TempPartCreate(add, c)
  BY DEF EnterQuote, add, rem, in, next
<1>. QED BY <1>0, <1>4, <1>5, <1>6 DEF GoodAt

LEMMA LeaveQuoteGood ==
  ASSUME NEW lx, Good(lx)
  PROVE  GoodAt(LeaveQuote(lx), lx, 1)
<1>. DEFINE closed == CloseTmpPart(lx)
            next == Advance(closed)
            popped == [next EXCEPT !.ctxs = Pop(next.ctxs)]
<1>0. lx.pos \in Nat
  BY LexersDef DEF Good
<1>1. Good(closed) /\ closed.pos = lx.pos
  BY <1>0, CloseTmpPartGood DEF GoodAt
<1>. HIDE DEF closed
<1>2. Good(next) /\ next.pos = lx.pos + 1
  BY <1>0, <1>1, AdvanceGood DEF GoodAt
<1>. HIDE DEF next
<1>3. Pop(next.ctxs) \in Seq(Contexts)
  BY <1>2, LexersDef, PopType DEF Good
<1>4. Good(popped) /\ popped.pos = lx.pos + 1
  BY <1>0, <1>2, <1>3, ContextsGood DEF GoodAt
<1>5. LeaveQuote(lx) = In(popped, "lex")
  BY DEF LeaveQuote, next, closed
<1>. HIDE DEF popped
<1>6. GoodAt(In(popped, "lex"), popped, 0)
  BY <1>4, InGood, "lex" \in Modes DEF Modes
<1>. QED BY <1>0, <1>4, <1>5, <1>6 DEF GoodAt

LEMMA InsideQuoteGood ==
  ASSUME NEW lx, Good(lx), NEW c, lx.mode \in Quotes \cup {"\"\\"}
  PROVE  GoodAt(InsideQuote(lx, c), lx, 1)
<1>. DEFINE next == Advance(lx)
<1>0. lx.pos \in Nat /\ Good(next) /\ next.pos = lx.pos + 1
  BY LexersDef, AdvanceGood DEF Good, GoodAt
<1>. HIDE DEF next
<1>1. ASSUME NEW m \in Modes PROVE GoodAt(In(next, m), lx, 1)
  <2>1. GoodAt(In(next, m), next, 0)
    BY <1>0, InGood
  <2>. QED BY <1>0, <2>1, SameAt
<1>2. CASE lx.mode # "\"\\" /\ c = lx.mode
  BY <1>2, LeaveQuoteGood DEF InsideQuote
<1>3. CASE ~(lx.mode # "\"\\" /\ c = lx.mode)
  <2>1. \E m \in Modes : InsideQuote(lx, c) = In(next, m)
    BY <1>3 DEF InsideQuote, next, Modes, Quotes
  <2>. QED BY <1>1, <2>1
<1>. QED BY <1>2, <1>3

\* A blank ends a word, and is a token if it is a newline.
LEMMA SeparatorGood ==
  ASSUME NEW lx, Good(lx), NEW c
  PROVE  GoodAt(Separator(lx, c), lx, 1)
<1>. DEFINE word == WordEmit(lx)
            new == IF c = "\n" THEN Emit(word, "NEWLINE") ELSE word
<1>0. lx.pos \in Nat
  BY LexersDef DEF Good
<1>1. Good(word) /\ word.pos = lx.pos
  BY <1>0, WordEmitGood DEF GoodAt
<1>. HIDE DEF word
<1>2. Good(new) /\ new.pos = lx.pos
  BY <1>0, <1>1, EmitGood, "NEWLINE" \in TokTypes DEF GoodAt, TokTypes
<1>3. Separator(lx, c) = Advance(new)
  BY DEF Separator, word
<1>. HIDE DEF new
<1>. QED BY <1>0, <1>2, <1>3, AdvanceGood DEF GoodAt

\* A symbol of a word.
LEMMA WordStepGood ==
  ASSUME NEW lx, Good(lx), NEW c
  PROVE  GoodAt(WordStep(lx, c), lx, 1)
<1>. DEFINE in == IF c = "\\" THEN In(lx, "esc") ELSE lx
<1>0. lx.pos \in Nat
  BY LexersDef DEF Good
<1>1. Good(in) /\ in.pos = lx.pos
  <2>1. GoodAt(In(lx, "esc"), lx, 0)
    BY InGood, "esc" \in Modes DEF Modes
  <2>. QED BY <1>0, <2>1 DEF GoodAt
<1>2. WordStep(lx, c) = Advance(in)
  BY DEF WordStep
<1>. HIDE DEF in
<1>. QED BY <1>0, <1>1, <1>2, AdvanceGood DEF GoodAt

\* A symbol between two words, or behind a part of one.
LEMMA LexNormalGood ==
  ASSUME NEW lx, Good(lx), NEW c \in Symbols
  PROVE  GoodAt(LexNormal(lx, c), lx, 1)
<1>0. lx.pos \in Nat
  BY LexersDef DEF Good
<1>1. CASE c \in Quotes
  BY <1>1, EnterQuoteGood DEF LexNormal
<1>2. CASE c \notin Quotes /\ c \in Operators
  BY <1>2, EmitOperatorGood DEF LexNormal
<1>3. CASE c \notin Quotes /\ c \notin Operators /\ c \in Blanks
  BY <1>3, SeparatorGood DEF LexNormal
<1>4. CASE c \notin Quotes /\ c \notin Operators /\ c \notin Blanks /\ c = "#"
  <2>. DEFINE closed == CloseTmpPart(lx)
              word == WordEmit(closed)
              next == Advance(word)
  <2>1. Good(closed) /\ closed.pos = lx.pos
    BY <1>0, CloseTmpPartGood DEF GoodAt
  <2>. HIDE DEF closed
  <2>2. Good(word) /\ word.pos = lx.pos
    BY <1>0, <2>1, WordEmitGood DEF GoodAt
  <2>. HIDE DEF word
  <2>3. Good(next) /\ next.pos = lx.pos + 1
    BY <1>0, <2>2, AdvanceGood DEF GoodAt
  <2>4. LexNormal(lx, c) = In(next, "#")
    BY <1>4 DEF LexNormal, next, word, closed
  <2>. HIDE DEF next
  <2>5. GoodAt(In(next, "#"), next, 0)
    BY <2>3, InGood, "#" \in Modes DEF Modes
  <2>. QED BY <1>0, <2>3, <2>4, <2>5 DEF GoodAt
<1>5. CASE c \notin Quotes /\ c \notin Operators /\ c \notin Blanks /\ c # "#"
  <2>. DEFINE part == TempPartCreate(lx, "UQUOTE")
              rem == RemOpContext(part)
              in == In(rem, "word")
  <2>1. Good(part) /\ part.pos = lx.pos
    BY <1>0, TempPartCreateGood, "UQUOTE" \in PartTypes DEF GoodAt, PartTypes
  <2>. HIDE DEF part
  <2>2. Good(rem) /\ rem.pos = lx.pos
    BY <1>0, <2>1, RemContextsGood DEF GoodAt
  <2>. HIDE DEF rem
  <2>3. GoodAt(In(rem, "word"), rem, 0)
    BY <2>2, InGood, "word" \in Modes DEF Modes
  <2>4. Good(in) /\ in.pos = lx.pos
    BY <1>0, <2>2, <2>3 DEF GoodAt
  <2>5. LexNormal(lx, c) = WordStep(in, c)
    BY <1>5 DEF LexNormal, in, rem, part
  <2>. HIDE DEF in
  <2>6. GoodAt(WordStep(in, c), in, 1)
    BY <2>4, WordStepGood
  <2>. QED BY <1>0, <2>4, <2>5, <2>6 DEF GoodAt
<1>. QED BY <1>1, <1>2, <1>3, <1>4, <1>5

\* Whatever the lexer is inside of, one symbol takes it from a well-formed state
\* to one that has gone on by this symbol.
THEOREM StepGood ==
  ASSUME NEW lx, Good(lx), NEW c \in Symbols
  PROVE  GoodAt(Step(lx, c), lx, 1)
<1>0. lx.pos \in Nat
  BY LexersDef DEF Good
<1>a. ASSUME NEW x, Good(x), x.pos = lx.pos, NEW m \in Modes
      PROVE  Good(In(x, m)) /\ In(x, m).pos = lx.pos
  <2>1. GoodAt(In(x, m), x, 0)
    BY <1>a, InGood
  <2>. QED BY <1>0, <1>a, <2>1 DEF GoodAt
<1>b. ASSUME NEW x, Good(x), x.pos = lx.pos PROVE GoodAt(LexNormal(x, c), lx, 1)
  <2>1. GoodAt(LexNormal(x, c), x, 1)
    BY <1>b, LexNormalGood
  <2>. QED BY <1>b, <2>1 DEF GoodAt
<1>1. CASE lx.mode \in Quotes \cup {"\"\\"}
  BY <1>1, InsideQuoteGood DEF Step
<1>2. CASE lx.mode \notin Quotes \cup {"\"\\"} /\ lx.mode = "#" /\ c # "\n"
  BY <1>2, AdvanceGood DEF Step
<1>3. CASE lx.mode \notin Quotes \cup {"\"\\"} /\ lx.mode \in {"word", "esc"}
           /\ ~(lx.mode = "#" /\ c # "\n")
  <2>1. CASE StaysInWord(lx, c)
    BY <1>3, <2>1, WordStepGood DEF Step
  <2>2. CASE ~StaysInWord(lx, c) /\ c \in Operators
    <3>. DEFINE emitted == EmitOperator(lx, c)
                m == IF lx.mode = "esc" THEN "escOut" ELSE "lex"
    <3>1. GoodAt(emitted, lx, 1)
      BY <2>2, EmitOperatorGood
    <3>2. m \in Modes
      BY DEF Modes
    <3>3. Step(lx, c) = In(emitted, m)
      BY <1>3, <2>2 DEF Step
    <3>. HIDE DEF emitted, m
    <3>4. GoodAt(In(emitted, m), emitted, 0)
      BY <3>1, <3>2, InGood DEF GoodAt
    <3>. QED BY <1>0, <3>1, <3>3, <3>4 DEF GoodAt
  <2>3. CASE ~StaysInWord(lx, c) /\ c \notin Operators
    <3>. DEFINE closed == CloseTmpPart(lx)
                rem == IF lx.mode = "esc" THEN RemEscContext(closed) ELSE closed
                in == In(rem, "lex")
    <3>1. Good(closed) /\ closed.pos = lx.pos
      BY <1>0, CloseTmpPartGood DEF GoodAt
    <3>. HIDE DEF closed
    <3>2. Good(rem) /\ rem.pos = lx.pos
      BY <1>0, <3>1, RemContextsGood DEF GoodAt
    <3>3. Step(lx, c) = LexNormal(in, c)
      BY <1>3, <2>3 DEF Step, closed
    <3>. HIDE DEF rem
    <3>4. Good(in) /\ in.pos = lx.pos
      BY <1>a, <3>2, "lex" \in Modes DEF Modes
    <3>. HIDE DEF in
    <3>. QED BY <1>b, <3>3, <3>4
  <2>. QED BY <2>1, <2>2, <2>3
<1>4. CASE lx.mode \notin Quotes \cup {"\"\\"} /\ lx.mode \notin {"word", "esc"}
           /\ ~(lx.mode = "#" /\ c # "\n")
  <2>. DEFINE rem == RemEscContext(lx)
              in == IF lx.mode = "escOut" THEN In(rem, "lex") ELSE In(lx, "lex")
  <2>1. Good(rem) /\ rem.pos = lx.pos
    BY <1>0, RemContextsGood DEF GoodAt
  <2>2. Step(lx, c) = LexNormal(in, c)
    BY <1>4 DEF Step, LexEscape
  <2>. HIDE DEF rem
  <2>3. Good(in) /\ in.pos = lx.pos
    BY <1>a, <2>1, "lex" \in Modes DEF Modes
  <2>. HIDE DEF in
  <2>. QED BY <1>b, <2>2, <2>3
<1>. QED BY <1>1, <1>2, <1>3, <1>4

-----------------------------------------------------------------------------
(* The ends of a line. *)

LEMMA NewLexerGood == Good(NewLexer) /\ NewLexer.pos = 0 /\ NewLexer.toks = <<>>
<1>1. NewLexer \in Lexers
  BY DEF NewLexer, Lexers, Modes
<1>. QED BY <1>1 DEF Good, Behind, Within, NewLexer

LEMMA BeginChunkGood ==
  ASSUME NEW lx, Good(lx)
  PROVE  GoodAt(BeginChunk(lx), lx, 0)
<1>1. lx \in Lexers /\ lx.pos \in Nat
  BY LexersDef DEF Good
<1>2. LET new == [lx EXCEPT !.hd = 0]
      IN new \in Lexers /\ new.pos = lx.pos /\ new.tmp = lx.tmp /\ new.toks = lx.toks
  BY <1>1, SetHd
<1>. QED BY <1>1, <1>2 DEF Good, GoodAt, BeginChunk

\* A line ends inside a word, behind a backslash, inside a quote or elsewhere.
THEOREM EndChunkGood ==
  ASSUME NEW lx, Good(lx), NEW tty \in BOOLEAN
  PROVE  GoodAt(EndChunk(lx, tty), lx, 0)
<1>. DEFINE closed == IF lx.mode \in {"word", "esc"} THEN CloseTmpPart(lx) ELSE lx
            emitted == WordEmit(closed)
            word == In(emitted, "lex")
            newline == IF tty THEN Emit(word, "NEWLINE") ELSE word
<1>0. lx.pos \in Nat
  BY LexersDef DEF Good
<1>a. ASSUME NEW x, Good(x), x.pos = lx.pos, NEW m \in Modes
      PROVE  Good(In(x, m)) /\ In(x, m).pos = lx.pos
  <2>1. GoodAt(In(x, m), x, 0)
    BY <1>a, InGood
  <2>. QED BY <1>0, <1>a, <2>1 DEF GoodAt
<1>1. Good(closed) /\ closed.pos = lx.pos
  BY <1>0, CloseTmpPartGood DEF GoodAt
<1>2. CASE lx.mode \in {"esc", "escOut"}
  <2>. DEFINE add == AddContext(closed, "\\")
  <2>1. EndChunk(lx, tty) = In(add, "escOut")
    BY <1>2 DEF EndChunk
  <2>. HIDE DEF closed
  <2>2. Good(add) /\ add.pos = lx.pos
    <3>1. GoodAt(add, closed, 0)
      BY <1>1, AddContextGood, "\\" \in Contexts DEF Contexts
    <3>. QED BY <1>0, <1>1, <3>1 DEF GoodAt
  <2>. HIDE DEF add
  <2>3. Good(In(add, "escOut")) /\ In(add, "escOut").pos = lx.pos
    BY <1>a, <2>2, "escOut" \in Modes DEF Modes
  <2>. QED BY <1>0, <2>1, <2>3 DEF GoodAt
<1>3. CASE lx.mode = "\"\\"
  <2>1. EndChunk(lx, tty) = In(lx, "\"")
    BY <1>3 DEF EndChunk
  <2>. QED BY <2>1, InGood, "\"" \in Modes DEF Modes
<1>4. CASE lx.mode \in Quotes
  <2>1. EndChunk(lx, tty) = lx
    BY <1>4 DEF EndChunk, Quotes
  <2>. QED BY <1>0, <2>1 DEF GoodAt
<1>5. CASE lx.mode \notin Quotes \cup {"esc", "escOut", "\"\\"}
  <2>1. EndChunk(lx, tty) = IF newline.ctxs = <<>> THEN Emit(newline, "EOF") ELSE newline
    BY <1>5 DEF EndChunk
  <2>. HIDE DEF closed
  <2>2. Good(emitted) /\ emitted.pos = lx.pos
    BY <1>0, <1>1, WordEmitGood DEF GoodAt
  <2>. HIDE DEF emitted
  <2>3. Good(word) /\ word.pos = lx.pos
    BY <1>a, <2>2, "lex" \in Modes DEF Modes
  <2>. HIDE DEF word
  <2>4. Good(newline) /\ newline.pos = lx.pos
    BY <1>0, <2>3, EmitGood, "NEWLINE" \in TokTypes DEF GoodAt, TokTypes
  <2>. HIDE DEF newline
  <2>5. GoodAt(Emit(newline, "EOF"), newline, 0)
    BY <2>4, EmitGood, "EOF" \in TokTypes DEF TokTypes
  <2>. QED BY <1>0, <2>1, <2>4, <2>5 DEF GoodAt
<1>. QED BY <1>2, <1>3, <1>4, <1>5

\* What the parser is given: the tokens, in a lexer that is at its beginning.
LEMMA SoftResetType ==
  ASSUME NEW lx \in Lexers
  PROVE  SoftReset(lx) \in Lexers /\ SoftReset(lx).toks = lx.toks
<1>1. lx.toks \in Seq(Tokens)
  BY LexersDef
<1>2. ASSUME NEW x \in Lexers, NEW toks \in Seq(Tokens)
      PROVE  [x EXCEPT !.toks = toks] \in Lexers /\ [x EXCEPT !.toks = toks].toks = toks
  BY DEF Lexers
<1>3. NewLexer \in Lexers
  BY NewLexerGood DEF Good
<1>. QED BY <1>1, <1>2, <1>3 DEF SoftReset

-----------------------------------------------------------------------------
(* What the operators of the lexer do to mode, tokens, parts and position.   *)

\* The parts of a word that ends at e.
EndAt(tmp, e) == IF tmp = <<>> THEN tmp ELSE [tmp EXCEPT ![Len(tmp)].end = e]

\* The word that ends: its parts go into a token, if there are any.
Worded(toks, tmp) == IF tmp = <<>> THEN toks ELSE Append(toks, Token("WORD", tmp))

\* The part that ends is as it was but for its end.
LEMMA EndAtParts ==
  ASSUME NEW s \in Seq(Parts), NEW e \in Nat
  PROVE  /\ EndAt(s, e) \in Seq(Parts) /\ Len(EndAt(s, e)) = Len(s)
         /\ (EndAt(s, e) = <<>>) <=> (s = <<>>)
         /\ \A p \in 1..Len(s) :
              /\ EndAt(s, e)[p].start = s[p].start
              /\ EndAt(s, e)[p].end = IF p = Len(s) THEN e ELSE s[p].end
<1>1. CASE s = <<>>
  BY <1>1 DEF EndAt
<1>2. CASE s # <<>>
  <2>. DEFINE n == Len(s)
              last == [s[n] EXCEPT !.end = e]
              new == [s EXCEPT ![n] = last]
  <2>1. n \in 1..n /\ n \in Nat
    BY <1>2
  <2>2. s[n] \in Parts
    BY <2>1, PartsDef
  <2>3. last \in Parts /\ last.start = s[n].start /\ last.end = e
    BY <2>2 DEF Parts
  <2>. HIDE DEF last
  <2>4. new \in Seq(Parts) /\ Len(new) = n
        /\ \A p \in 1..n : new[p] = IF p = n THEN last ELSE s[p]
    BY <2>1, <2>3, ExceptSeq
  <2>5. EndAt(s, e) = new
    BY <1>2 DEF EndAt, last
  <2>. HIDE DEF new
  <2>6. new # <<>>
    BY <2>1, <2>4
  <2>. QED BY <1>2, <2>3, <2>4, <2>5, <2>6
<1>. QED BY <1>1, <1>2

At(y, mode, toks, tmp, pos) ==
  Good(y) /\ y.mode = mode /\ y.toks = toks /\ y.tmp = tmp /\ y.pos = pos

LEMMA AtIn ==
  ASSUME NEW x, Good(x), NEW m \in Modes
  PROVE  At(In(x, m), m, x.toks, x.tmp, x.pos)
<1>1. Good(In(x, m))
  BY InGood DEF GoodAt
<1>2. x \in Lexers
  BY DEF Good
<1>. QED BY <1>1, <1>2 DEF At, In, Lexers

LEMMA AtAdvance ==
  ASSUME NEW x, Good(x)
  PROVE  At(Advance(x), x.mode, x.toks, x.tmp, x.pos + 1)
<1>1. Good(Advance(x))
  BY AdvanceGood DEF GoodAt
<1>2. x \in Lexers
  BY DEF Good
<1>. QED BY <1>1, <1>2 DEF At, Advance, Lexers

LEMMA AtContexts ==
  ASSUME NEW x, Good(x)
  PROVE  /\ At(RemOpContext(x), x.mode, x.toks, x.tmp, x.pos)
         /\ At(RemSubContext(x), x.mode, x.toks, x.tmp, x.pos)
         /\ At(RemEscContext(x), x.mode, x.toks, x.tmp, x.pos)
         /\ \A c \in Contexts : At(AddContext(x, c), x.mode, x.toks, x.tmp, x.pos)
<1>1. /\ Good(RemOpContext(x)) /\ Good(RemSubContext(x)) /\ Good(RemEscContext(x))
      /\ \A c \in Contexts : Good(AddContext(x, c))
  BY RemContextsGood, AddContextGood DEF GoodAt
<1>2. x \in Lexers
  BY DEF Good
<1>3. \A s : /\ [x EXCEPT !.ctxs = s].mode = x.mode /\ [x EXCEPT !.ctxs = s].toks = x.toks
             /\ [x EXCEPT !.ctxs = s].tmp = x.tmp /\ [x EXCEPT !.ctxs = s].pos = x.pos
  BY <1>2 DEF Lexers
<1>. QED BY <1>1, <1>3 DEF At, RemOpContext, RemSubContext, RemEscContext, AddContext

LEMMA AtClose ==
  ASSUME NEW x, Good(x)
  PROVE  At(CloseTmpPart(x), x.mode, x.toks, EndAt(x.tmp, x.pos), x.pos)
<1>1. Good(CloseTmpPart(x)) /\ x \in Lexers
  BY CloseTmpPartGood DEF GoodAt, Good
<1>2. CASE x.tmp = <<>>
  BY <1>1, <1>2 DEF At, CloseTmpPart, EndAt
<1>3. CASE x.tmp # <<>>
  <2>1. CloseTmpPart(x) = [x EXCEPT !.tmp = EndAt(x.tmp, x.pos)]
    BY <1>3 DEF CloseTmpPart, EndAt
  <2>2. \A s : /\ [x EXCEPT !.tmp = s].mode = x.mode /\ [x EXCEPT !.tmp = s].toks = x.toks
               /\ [x EXCEPT !.tmp = s].tmp = s /\ [x EXCEPT !.tmp = s].pos = x.pos
    BY <1>1 DEF Lexers
  <2>. QED BY <1>1, <2>1, <2>2 DEF At
<1>. QED BY <1>2, <1>3

LEMMA AtCreate ==
  ASSUME NEW x, Good(x), NEW type \in PartTypes
  PROVE  At(TempPartCreate(x, type), x.mode, x.toks,
            Append(x.tmp, [type |-> type, start |-> x.pos, end |-> x.pos]), x.pos)
<1>1. Good(TempPartCreate(x, type)) /\ x \in Lexers
  BY TempPartCreateGood DEF GoodAt, Good
<1>2. \A s : /\ [x EXCEPT !.tmp = s].mode = x.mode /\ [x EXCEPT !.tmp = s].toks = x.toks
             /\ [x EXCEPT !.tmp = s].tmp = s /\ [x EXCEPT !.tmp = s].pos = x.pos
  BY <1>1 DEF Lexers
<1>. QED BY <1>1, <1>2 DEF At, TempPartCreate

LEMMA AtEmit ==
  ASSUME NEW x, Good(x), NEW type \in TokTypes
  PROVE  At(Emit(x, type), x.mode, Append(x.toks, Token(type, <<>>)), x.tmp, x.pos)
<1>1. Good(Emit(x, type)) /\ x \in Lexers
  BY EmitGood DEF GoodAt, Good
<1>2. \A s, n : LET y == [x EXCEPT !.toks = s, !.hd = n]
                IN y.mode = x.mode /\ y.toks = s /\ y.tmp = x.tmp /\ y.pos = x.pos
  BY <1>1 DEF Lexers
<1>. QED BY <1>1, <1>2 DEF At, Emit

LEMMA AtWord ==
  ASSUME NEW x, Good(x)
  PROVE  At(WordEmit(x), x.mode, Worded(x.toks, x.tmp), <<>>, x.pos)
<1>1. Good(WordEmit(x)) /\ x \in Lexers
  BY WordEmitGood DEF GoodAt, Good
<1>2. \A s, n : LET y == [x EXCEPT !.toks = s, !.tmp = n]
                IN y.mode = x.mode /\ y.toks = s /\ y.tmp = n /\ y.pos = x.pos
  BY <1>1 DEF Lexers
<1>. QED BY <1>1, <1>2 DEF At, WordEmit, Worded

LEMMA AtOperator ==
  ASSUME NEW x, Good(x), NEW c \in Operators
  PROVE  At(EmitOperator(x, c), x.mode,
            Append(Worded(x.toks, EndAt(x.tmp, x.pos)), Token(c, <<>>)), <<>>, x.pos + 1)
<1>. DEFINE before == IF c \in Redirs THEN RemOpContext(x) ELSE x
            closed == CloseTmpPart(before)
            word == WordEmit(closed)
            emitted == Emit(word, c)
            after == Advance(emitted)
            tmp == EndAt(x.tmp, x.pos)
            toks == Append(Worded(x.toks, tmp), Token(c, <<>>))
<1>1. At(before, x.mode, x.toks, x.tmp, x.pos)
  BY AtContexts DEF At
<1>. HIDE DEF before
<1>2. At(closed, x.mode, x.toks, tmp, x.pos)
  BY <1>1, AtClose DEF At
<1>. HIDE DEF closed, tmp
<1>3. At(word, x.mode, Worded(x.toks, tmp), <<>>, x.pos)
  BY <1>2, AtWord DEF At
<1>. HIDE DEF word
<1>4. At(emitted, x.mode, toks, <<>>, x.pos)
  <2>1. c \in TokTypes
    BY DEF TokTypes
  <2>. QED BY <1>3, <2>1, AtEmit DEF At
<1>. HIDE DEF emitted, toks
<1>5. At(after, x.mode, toks, <<>>, x.pos + 1)
  BY <1>4, AtAdvance DEF At
<1>6. EmitOperator(x, c) = IF c \in OpContexts \cup {"("} THEN AddContext(after, c)
                           ELSE IF c = ")" THEN RemOpContext(RemSubContext(after))
                           ELSE after
  BY DEF EmitOperator, after, emitted, word, closed, before
<1>. HIDE DEF after
<1>7. OpContexts \cup {"("} \subseteq Contexts
  BY DEF OpContexts, Contexts
<1>8. At(RemOpContext(RemSubContext(after)), x.mode, toks, <<>>, x.pos + 1)
  <2>1. At(RemSubContext(after), x.mode, toks, <<>>, x.pos + 1)
    BY <1>5, AtContexts DEF At
  <2>. QED BY <2>1, AtContexts DEF At
<1>9. \A s \in Contexts : At(AddContext(after, s), x.mode, toks, <<>>, x.pos + 1)
  BY <1>5, AtContexts DEF At
<1>10. At(EmitOperator(x, c), x.mode, toks, <<>>, x.pos + 1)
  BY <1>5, <1>6, <1>7, <1>8, <1>9
<1>. QED BY <1>10 DEF toks, tmp

LEMMA AtEnterQuote ==
  ASSUME NEW x, Good(x), NEW c \in Quotes
  PROVE  At(EnterQuote(x, c), c, x.toks,
            Append(x.tmp, [type |-> c, start |-> x.pos + 1, end |-> x.pos + 1]), x.pos + 1)
<1>. DEFINE in == In(Advance(x), c)
            rem == RemOpContext(in)
            add == AddContext(rem, c)
<1>0. c \in Modes /\ c \in Contexts /\ c \in PartTypes
  BY DEF Modes, Contexts, PartTypes, Quotes
<1>1. At(in, c, x.toks, x.tmp, x.pos + 1)
  <2>1. At(Advance(x), x.mode, x.toks, x.tmp, x.pos + 1)
    BY AtAdvance
  <2>. QED BY <1>0, <2>1, AtIn DEF At
<1>. HIDE DEF in
<1>2. At(rem, c, x.toks, x.tmp, x.pos + 1)
  BY <1>1, AtContexts DEF At
<1>. HIDE DEF rem
<1>3. At(add, c, x.toks, x.tmp, x.pos + 1)
  BY <1>0, <1>2, AtContexts DEF At
<1>4. EnterQuote(x, c) = TempPartCreate(add, c)
  BY DEF EnterQuote, add, rem, in
<1>. HIDE DEF add
<1>. QED BY <1>0, <1>3, <1>4, AtCreate DEF At

LEMMA AtLeaveQuote ==
  ASSUME NEW x, Good(x)
  PROVE  At(LeaveQuote(x), "lex", x.toks, EndAt(x.tmp, x.pos), x.pos + 1)
<1>. DEFINE closed == Advance(CloseTmpPart(x))
            popped == [closed EXCEPT !.ctxs = Pop(closed.ctxs)]
            tmp == EndAt(x.tmp, x.pos)
<1>1. At(CloseTmpPart(x), x.mode, x.toks, tmp, x.pos)
  BY AtClose
<1>. HIDE DEF tmp
<1>2. At(closed, x.mode, x.toks, tmp, x.pos + 1)
  BY <1>1, AtAdvance DEF At
<1>. HIDE DEF closed
<1>3. closed \in Lexers /\ Pop(closed.ctxs) \in Seq(Contexts)
  BY <1>2, LexersDef, PopType DEF At, Good
<1>4. Good(popped)
  BY <1>2, <1>3, ContextsGood DEF At, GoodAt
<1>5. At(popped, x.mode, x.toks, tmp, x.pos + 1)
  BY <1>2, <1>3, <1>4 DEF At, Lexers
<1>6. LeaveQuote(x) = In(popped, "lex")
  BY DEF LeaveQuote, popped, closed
<1>. HIDE DEF popped
<1>7. At(In(popped, "lex"), "lex", x.toks, tmp, x.pos + 1)
  BY <1>5, AtIn, "lex" \in Modes DEF At, Modes
<1>. QED BY <1>6, <1>7 DEF tmp

-----------------------------------------------------------------------------
\* Induction, over a set of numbers.
LEMMA NatSetInduction ==
  ASSUME NEW S, 0 \in S, \A m \in Nat : m \in S => m + 1 \in S
  PROVE  \A m \in Nat : m \in S
<1>. DEFINE less == OpToRel(<, Nat)
            T == {m \in Nat : m \notin S}
<1>. SUFFICES ASSUME T # {} PROVE FALSE
  OBVIOUS
<1>1. IsWellFoundedOn(less, Nat) /\ T \subseteq Nat
  BY NatLessThanWellFounded
<1>. HIDE DEF less, T
<1>2. PICK m \in T : \A k \in T : <<k, m>> \notin less
  BY <1>1, WFMin
<1>. USE DEF less
<1>3. \A k \in T : ~(k < m)
  <2>. TAKE k \in T
  <2>1. k \in Nat /\ m \in Nat /\ <<k, m>> \notin less
    BY <1>1, <1>2
  <2>. QED BY <2>1 DEF OpToRel
<1>. HIDE DEF less
<1>4. m \in Nat /\ m \notin S
  BY DEF T
<1>5. m # 0
  BY <1>4
<1>6. m - 1 \in Nat /\ (m - 1) + 1 = m /\ m - 1 < m
  BY <1>4, <1>5
<1>7. m - 1 \notin S
  BY <1>4, <1>6
<1>8. m - 1 \in T
  BY <1>6, <1>7 DEF T
<1>. QED BY <1>3, <1>6, <1>8
=============================================================================
