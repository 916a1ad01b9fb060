--------------------------- MODULE FrontEndProofs --------------------------
(***************************************************************************)
(* FrontEnd, for every alphabet and texts of any length and any number of  *)
(* lines.                                                                  *)
(*                                                                         *)
(* The lexer enters and leaves a quote in one step and the contexts are a  *)
(* stack of which anything may be the top.  What holds them together is    *)
(* that no quote lies on the stack outside of quotes, and one only, on its *)
(* top, inside (QuoteInv); that the end of a line leaves a state in which  *)
(* an empty stack means an empty word (EndChunkNormal); and that a line    *)
(* nobody has typed into yet is in such a state (StartInv).                *)
(*                                                                         *)
(* That no symbol is lost relates the parts of all tokens to what a reader *)
(* of the text is inside of (LossInv): the state of the lexer tells what   *)
(* that is (Told) and where a comment may begin (Bounded), and every step  *)
(* keeps which symbols the parts take, counted as if the word that is      *)
(* being read ended here (Takes, Shut), and adds the new symbol once.      *)
(*                                                                         *)
(* That the contexts tell whether a text is unfinished is true only of the *)
(* lists the checker lets through.  The stack is the operators and         *)
(* parentheses that are open if the tokens are in order (Kept), where an   *)
(* operator lies on top exactly while the last token is one; and a list    *)
(* that is walked to its end is in order (CheckedOrdered).                 *)
(***************************************************************************)
EXTENDS FrontEnd, LexerProofs, FiniteSetTheorems

Unquoted == Contexts \ Quotes

\* Outside of quotes.
Calm(x, m) == Good(x) /\ x.mode = m /\ x.ctxs \in Seq(Unquoted)

QuoteInv(x) ==
  /\ Good(x)
  /\ Opener(x.mode) \notin Quotes => x.ctxs \in Seq(Unquoted)
  /\ Opener(x.mode) \in Quotes =>
       TopIn(x.ctxs, {Opener(x.mode)}) /\ Pop(x.ctxs) \in Seq(Unquoted)

OutsideModes == {"lex", "word", "esc", "escOut", "#"}

\* The states of the lexer outside of quotes are those with such an opener.
LEMMA Openers ==
  /\ \A m \in OutsideModes : m \in Modes /\ Opener(m) \notin Quotes
  /\ \A m \in Modes : m \in OutsideModes \/ m \in Quotes \cup {"\"\\"}
  /\ \A m \in Quotes \cup {"\"\\"} : Opener(m) \in Quotes /\ m \in Modes
  /\ \A m \in Quotes : Opener(m) = m
BY DEF OutsideModes, Modes, Opener, Quotes

LEMMA CalmIsInv ==
  ASSUME NEW x, NEW m \in OutsideModes, Calm(x, m)
  PROVE  QuoteInv(x)
BY Openers DEF Calm, QuoteInv

-----------------------------------------------------------------------------
(* The operators of the lexer that leave the contexts as they are or change  *)
(* them outside of quotes.                                                   *)

\* Parts, tokens and the position have nothing to do with contexts and mode.
LEMMA SameContexts ==
  ASSUME NEW x \in Lexers
  PROVE  /\ Advance(x).ctxs = x.ctxs /\ Advance(x).mode = x.mode
         /\ CloseTmpPart(x).ctxs = x.ctxs /\ CloseTmpPart(x).mode = x.mode
         /\ WordEmit(x).ctxs = x.ctxs /\ WordEmit(x).mode = x.mode
         /\ BeginChunk(x).ctxs = x.ctxs /\ BeginChunk(x).mode = x.mode
         /\ BeginChunk(x).tmp = x.tmp
         /\ \A type : Emit(x, type).ctxs = x.ctxs /\ Emit(x, type).mode = x.mode
                      /\ Emit(x, type).tmp = x.tmp
         /\ \A type : TempPartCreate(x, type).ctxs = x.ctxs
                      /\ TempPartCreate(x, type).mode = x.mode
BY DEF Lexers, Advance, CloseTmpPart, WordEmit, BeginChunk, Emit, TempPartCreate

LEMMA KeepsCalm ==
  ASSUME NEW x, NEW m, Calm(x, m)
  PROVE  /\ Calm(Advance(x), m)
         /\ Calm(CloseTmpPart(x), m)
         /\ Calm(WordEmit(x), m)
         /\ \A type \in TokTypes : Calm(Emit(x, type), m)
         /\ \A type \in PartTypes : Calm(TempPartCreate(x, type), m)
<1>1. Good(x) /\ x \in Lexers
  BY DEF Calm, Good
<1>2. /\ Good(Advance(x)) /\ Good(CloseTmpPart(x)) /\ Good(WordEmit(x))
      /\ \A type \in TokTypes : Good(Emit(x, type))
      /\ \A type \in PartTypes : Good(TempPartCreate(x, type))
  BY <1>1, AdvanceGood, CloseTmpPartGood, WordEmitGood, EmitGood, TempPartCreateGood
     DEF GoodAt
<1>. QED BY <1>1, <1>2, SameContexts DEF Calm

LEMMA InCalm ==
  ASSUME NEW x, NEW m, Calm(x, m), NEW k \in Modes
  PROVE  Calm(In(x, k), k)
<1>1. Good(In(x, k))
  BY InGood DEF Calm, GoodAt
<1>2. In(x, k).ctxs = x.ctxs /\ In(x, k).mode = k
  BY DEF Calm, Good, Lexers, In
<1>. QED BY <1>1, <1>2 DEF Calm

\* A stack without its top has its elements.
LEMMA PopSeq ==
  ASSUME NEW S, NEW s \in Seq(S)
  PROVE  /\ s # <<>> => Pop(s) \in Seq(S) /\ Top(s) \in S
         /\ \A T : PopIf(s, T) \in Seq(S)
<1>1. ASSUME s # <<>> PROVE Pop(s) \in Seq(S) /\ Top(s) \in S
  <2>1. Len(s) \in Nat /\ Len(s) \in 1..Len(s)
    BY <1>1
  <2>2. Top(s) \in S
    BY <2>1, ElementOfSeq DEF Top
  <2>3. Pop(s) \in Seq(S)
    BY <1>1, SubSeqProperties DEF Pop
  <2>. QED BY <2>2, <2>3
<1>. QED BY <1>1 DEF PopIf, TopIn

LEMMA AddPop ==
  ASSUME NEW S, NEW s \in Seq(S), NEW c
  PROVE  /\ Append(s, c) # <<>> /\ Top(Append(s, c)) = c /\ Pop(Append(s, c)) = s
<1>1. s \in Seq(S \cup {c}) /\ c \in S \cup {c}
  BY SeqMonotonic
<1>2. /\ Append(s, c) \in Seq(S \cup {c}) /\ Len(Append(s, c)) = Len(s) + 1
      /\ \A k \in 1..Len(s) : Append(s, c)[k] = s[k]
      /\ Append(s, c)[Len(s) + 1] = c /\ Append(s, c) # <<>> /\ Len(s) \in Nat
  BY <1>1, AppendProperties
<1>3. Top(Append(s, c)) = c
  BY <1>2 DEF Top
<1>4. Pop(Append(s, c)) = s
  <2>. DEFINE n == Len(s)
              both == Append(s, c)
  <2>1. n \in Nat /\ 1 \in Int /\ n \in Int /\ \A i \in 1..n : both[i] \in S \cup {c}
    BY <1>2
  <2>2. Pop(both) = SubSeq(both, 1, n)
    BY <1>2 DEF Pop
  <2>. HIDE DEF both
  <2>3. /\ SubSeq(both, 1, n) \in Seq(S \cup {c}) /\ Len(SubSeq(both, 1, n)) = n
        /\ \A i \in 1..n : SubSeq(both, 1, n)[i] = both[i]
    BY <2>1, SubSeqProperties
  <2>. QED BY <1>1, <1>2, <2>2, <2>3, SeqEqual DEF both
<1>. QED BY <1>2, <1>3, <1>4

LEMMA ContextsCalm ==
  ASSUME NEW x, NEW m, Calm(x, m)
  PROVE  /\ Calm(RemOpContext(x), m) /\ Calm(RemSubContext(x), m)
         /\ Calm(RemEscContext(x), m)
         /\ \A c \in Unquoted : Calm(AddContext(x, c), m)
<1>1. x \in Lexers /\ x.ctxs \in Seq(Unquoted) /\ x.mode = m
  BY DEF Calm, Good
<1>2. \A s : [x EXCEPT !.ctxs = s].ctxs = s /\ [x EXCEPT !.ctxs = s].mode = m
  BY <1>1 DEF Lexers
<1>3. \A T : PopIf(x.ctxs, T) \in Seq(Unquoted)
  BY <1>1, PopSeq
<1>4. Good(RemOpContext(x)) /\ Good(RemSubContext(x)) /\ Good(RemEscContext(x))
  BY RemContextsGood DEF Calm, GoodAt
<1>5. /\ Calm(RemOpContext(x), m) /\ Calm(RemSubContext(x), m)
      /\ Calm(RemEscContext(x), m)
  BY <1>2, <1>3, <1>4 DEF Calm, RemOpContext, RemSubContext, RemEscContext
<1>6. ASSUME NEW c \in Unquoted PROVE Calm(AddContext(x, c), m)
  <2>1. c \in Contexts
    BY DEF Unquoted
  <2>2. Good(AddContext(x, c))
    BY <2>1, AddContextGood DEF Calm, GoodAt
  <2>3. Append(x.ctxs, c) \in Seq(Unquoted)
    BY <1>1
  <2>. QED BY <1>2, <2>2, <2>3 DEF Calm, AddContext
<1>. QED BY <1>5, <1>6

\* An operator ends the word before it.
LEMMA EmitOperatorCalm ==
  ASSUME NEW x, NEW m, Calm(x, m), NEW c \in Operators
  PROVE  Calm(EmitOperator(x, c), m)
<1>. DEFINE before == IF c \in Redirs THEN RemOpContext(x) ELSE x
            after == Advance(Emit(WordEmit(CloseTmpPart(before)), c))
<1>1. Calm(before, m)
  BY ContextsCalm
<1>2. c \in TokTypes
  BY DEF TokTypes
<1>. HIDE DEF before
<1>3. Calm(WordEmit(CloseTmpPart(before)), m)
  <2>1. Calm(CloseTmpPart(before), m)
    BY <1>1, KeepsCalm
  <2>. QED BY <2>1, KeepsCalm
<1>4. Calm(Emit(WordEmit(CloseTmpPart(before)), c), m)
  BY <1>2, <1>3, KeepsCalm
<1>5. Calm(after, m)
  BY <1>4, KeepsCalm
<1>6. EmitOperator(x, c) = IF c \in OpContexts \cup {"("} THEN AddContext(after, c)
                           ELSE IF c = ")" THEN RemOpContext(RemSubContext(after))
                           ELSE after
  BY DEF EmitOperator, before
<1>. HIDE DEF after
<1>7. OpContexts \cup {"("} \subseteq Unquoted
  BY DEF OpContexts, Unquoted, Contexts, Quotes
<1>8. Calm(RemOpContext(RemSubContext(after)), m)
  <2>1. Calm(RemSubContext(after), m)
    BY <1>5, ContextsCalm
  <2>. QED BY <2>1, ContextsCalm
<1>. QED BY <1>5, <1>6, <1>7, <1>8, ContextsCalm

-----------------------------------------------------------------------------
(* One symbol. *)

\* A quote is entered from outside of quotes, and left.
LEMMA EnterQuoteInv ==
  ASSUME NEW x, NEW m, Calm(x, m), NEW c \in Quotes
  PROVE  QuoteInv(EnterQuote(x, c))
<1>. DEFINE rem == RemOpContext(In(Advance(x), c))
            add == AddContext(rem, c)
            new == TempPartCreate(add, c)
<1>1. c \in Modes /\ c \in Contexts /\ c \in PartTypes /\ Opener(c) = c
  BY Openers DEF Modes, Contexts, PartTypes, Quotes
<1>2. Calm(In(Advance(x), c), c)
  BY <1>1, KeepsCalm, InCalm
<1>3. Calm(rem, c)
  BY <1>2, ContextsCalm
<1>. HIDE DEF rem
<1>4. rem \in Lexers /\ Good(add) /\ add \in Lexers
  BY <1>1, <1>3, AddContextGood DEF Calm, Good, GoodAt
<1>5. add.ctxs = Append(rem.ctxs, c) /\ add.mode = c
  BY <1>3, <1>4 DEF AddContext, Lexers, Calm
<1>. HIDE DEF add
<1>6. /\ Good(new) /\ new.ctxs = add.ctxs /\ new.mode = c
  BY <1>1, <1>4, <1>5, TempPartCreateGood, SameContexts DEF GoodAt
<1>7. EnterQuote(x, c) = new
  BY DEF EnterQuote, new, add, rem
<1>. HIDE DEF new
<1>8. /\ new.ctxs # <<>> /\ Top(new.ctxs) = c /\ Pop(new.ctxs) \in Seq(Unquoted)
  <2>1. rem.ctxs \in Seq(Unquoted) /\ new.ctxs = Append(rem.ctxs, c)
    BY <1>3, <1>5, <1>6 DEF Calm
  <2>. QED BY <2>1, AddPop
<1>. QED BY <1>1, <1>6, <1>7, <1>8 DEF QuoteInv, TopIn

LEMMA InsideQuoteInv ==
  ASSUME NEW x, QuoteInv(x), NEW c, x.mode \in Quotes \cup {"\"\\"}
  PROVE  QuoteInv(InsideQuote(x, c))
<1>. DEFINE next == Advance(x)
            q == Opener(x.mode)
<1>1. /\ Good(x) /\ x \in Lexers /\ q \in Quotes
      /\ TopIn(x.ctxs, {q}) /\ Pop(x.ctxs) \in Seq(Unquoted)
  BY Openers DEF QuoteInv, Good
<1>2. Good(next) /\ next \in Lexers /\ next.ctxs = x.ctxs
  BY <1>1, AdvanceGood, SameContexts DEF GoodAt, Good
<1>. HIDE DEF next
<1>3. ASSUME NEW m \in Modes, Opener(m) = q PROVE QuoteInv(In(next, m))
  <2>1. Good(In(next, m)) /\ In(next, m).ctxs = x.ctxs /\ In(next, m).mode = m
    BY <1>2, InGood DEF In, Lexers, GoodAt
  <2>. QED BY <1>1, <1>3, <2>1 DEF QuoteInv
<1>4. CASE x.mode = "\"\\"
  <2>1. InsideQuote(x, c) = In(next, "\"")
    BY <1>4 DEF InsideQuote, next
  <2>. QED BY <1>3, <1>4, <2>1 DEF Opener, Modes
<1>5. CASE x.mode # "\"\\" /\ c = x.mode
  <2>. DEFINE closed == Advance(CloseTmpPart(x))
              popped == [closed EXCEPT !.ctxs = Pop(closed.ctxs)]
  <2>1. /\ Good(CloseTmpPart(x)) /\ CloseTmpPart(x) \in Lexers
        /\ CloseTmpPart(x).ctxs = x.ctxs
    BY <1>1, CloseTmpPartGood, SameContexts DEF GoodAt, Good
  <2>2. Good(closed) /\ closed \in Lexers /\ closed.ctxs = x.ctxs
    BY <2>1, AdvanceGood, SameContexts DEF GoodAt, Good
  <2>. HIDE DEF closed
  <2>3. Pop(closed.ctxs) \in Seq(Contexts)
    BY <2>2, PopType DEF Lexers
  <2>4. Good(popped) /\ popped.ctxs = Pop(x.ctxs)
    BY <2>2, <2>3, ContextsGood DEF GoodAt, Lexers
  <2>5. Calm(popped, popped.mode)
    BY <1>1, <2>4 DEF Calm
  <2>6. Calm(In(popped, "lex"), "lex")
    BY <2>5, InCalm DEF Modes
  <2>7. InsideQuote(x, c) = In(popped, "lex")
    BY <1>5 DEF InsideQuote, LeaveQuote, popped, closed
  <2>. QED BY <2>6, <2>7, CalmIsInv DEF OutsideModes
<1>6. CASE x.mode # "\"\\" /\ c # x.mode
  <2>. DEFINE m == IF x.mode = "\"" /\ c = "\\" THEN "\"\\" ELSE x.mode
  <2>1. InsideQuote(x, c) = In(next, m)
    BY <1>6 DEF InsideQuote, next
  <2>2. m \in Modes /\ Opener(m) = q
    BY DEF Modes, Quotes, Opener
  <2>. QED BY <1>3, <2>1, <2>2
<1>. QED BY <1>4, <1>5, <1>6

\* A symbol between two words, or behind a part of one.
LEMMA LexNormalInv ==
  ASSUME NEW x, Calm(x, "lex"), NEW c \in Symbols
  PROVE  QuoteInv(LexNormal(x, c))
<1>1. CASE c \in Quotes
  BY <1>1, EnterQuoteInv DEF LexNormal
<1>2. CASE c \notin Quotes /\ c \in Operators
  <2>1. Calm(LexNormal(x, c), "lex")
    BY <1>2, EmitOperatorCalm DEF LexNormal
  <2>. QED BY <2>1, CalmIsInv DEF OutsideModes
<1>3. CASE c \notin Quotes /\ c \notin Operators /\ c \in Blanks
  <2>. DEFINE new == IF c = "\n" THEN Emit(WordEmit(x), "NEWLINE") ELSE WordEmit(x)
  <2>1. Calm(WordEmit(x), "lex")
    BY KeepsCalm
  <2>2. Calm(new, "lex")
    BY <2>1, KeepsCalm DEF TokTypes
  <2>3. Calm(Advance(new), "lex")
    BY <2>2, KeepsCalm
  <2>4. LexNormal(x, c) = Advance(new)
    BY <1>3 DEF LexNormal, Separator
  <2>. QED BY <2>3, <2>4, CalmIsInv DEF OutsideModes
<1>4. CASE c \notin Quotes /\ c \notin Operators /\ c \notin Blanks /\ c = "#"
  <2>1. Calm(WordEmit(CloseTmpPart(x)), "lex")
    BY KeepsCalm
  <2>2. Calm(Advance(WordEmit(CloseTmpPart(x))), "lex")
    BY <2>1, KeepsCalm
  <2>3. Calm(LexNormal(x, c), "#")
    BY <1>4, <2>2, InCalm DEF LexNormal, Modes
  <2>. QED BY <2>3, CalmIsInv DEF OutsideModes
<1>5. CASE c \notin Quotes /\ c \notin Operators /\ c \notin Blanks /\ c # "#"
  <2>. DEFINE in == In(RemOpContext(TempPartCreate(x, "UQUOTE")), "word")
  <2>1. Calm(TempPartCreate(x, "UQUOTE"), "lex")
    BY KeepsCalm DEF PartTypes
  <2>2. Calm(in, "word")
    BY <2>1, ContextsCalm, InCalm DEF Modes
  <2>3. LexNormal(x, c) = WordStep(in, c)
    BY <1>5 DEF LexNormal
  <2>. HIDE DEF in
  <2>4. \E m \in {"word", "esc"} : Calm(WordStep(in, c), m)
    BY <2>2, InCalm, KeepsCalm DEF WordStep, Modes
  <2>. QED BY <2>3, <2>4, CalmIsInv DEF OutsideModes
<1>. QED BY <1>1, <1>2, <1>3, <1>4, <1>5

\* Whatever the lexer is inside of.
LEMMA StepInv ==
  ASSUME NEW x, QuoteInv(x), NEW c \in Symbols
  PROVE  QuoteInv(Step(x, c))
<1>0. x \in Lexers /\ x.mode \in Modes
  BY LexersDef DEF QuoteInv, Good
<1>1. CASE x.mode \in Quotes \cup {"\"\\"}
  BY <1>1, InsideQuoteInv DEF Step
<1>2. CASE x.mode \in OutsideModes
  <2>1. x.mode \notin Quotes \cup {"\"\\"} /\ Calm(x, x.mode)
    BY <1>2, Openers DEF OutsideModes, Quotes, QuoteInv, Calm
  <2>2. CASE x.mode = "#" /\ c # "\n"
    BY <2>1, <2>2, KeepsCalm, CalmIsInv DEF Step, OutsideModes
  <2>3. CASE x.mode \in {"word", "esc"} /\ StaysInWord(x, c)
    <3>1. \E m \in {"word", "esc"} : Calm(WordStep(x, c), m)
      BY <2>1, <2>3, InCalm, KeepsCalm DEF WordStep, Modes
    <3>2. Step(x, c) = WordStep(x, c)
      BY <2>1, <2>3 DEF Step
    <3>. QED BY <3>1, <3>2, CalmIsInv DEF OutsideModes
  <2>4. CASE x.mode \in {"word", "esc"} /\ ~StaysInWord(x, c) /\ c \in Operators
    <3>. DEFINE m == IF x.mode = "esc" THEN "escOut" ELSE "lex"
    <3>1. Step(x, c) = In(EmitOperator(x, c), m)
      BY <2>1, <2>4 DEF Step
    <3>2. Calm(EmitOperator(x, c), x.mode) /\ m \in Modes /\ m \in OutsideModes
      BY <2>1, <2>4, EmitOperatorCalm DEF Modes, OutsideModes
    <3>. HIDE DEF m
    <3>. QED BY <3>1, <3>2, InCalm, CalmIsInv
  <2>5. CASE x.mode \in {"word", "esc"} /\ ~StaysInWord(x, c) /\ c \notin Operators
    <3>. DEFINE closed == CloseTmpPart(x)
                rem == IF x.mode = "esc" THEN RemEscContext(closed) ELSE closed
    <3>1. Step(x, c) = LexNormal(In(rem, "lex"), c)
      BY <2>1, <2>5 DEF Step
    <3>2. Calm(closed, x.mode)
      BY <2>1, KeepsCalm
    <3>. HIDE DEF closed
    <3>3. Calm(rem, x.mode)
      BY <3>2, ContextsCalm
    <3>. HIDE DEF rem
    <3>4. Calm(In(rem, "lex"), "lex")
      BY <3>3, InCalm DEF Modes
    <3>. QED BY <3>1, <3>4, LexNormalInv
  <2>6. CASE x.mode \notin {"word", "esc"} /\ ~(x.mode = "#" /\ c # "\n")
    <3>. DEFINE in == IF x.mode = "escOut" THEN LexEscape(x) ELSE In(x, "lex")
    <3>1. Step(x, c) = LexNormal(in, c)
      BY <2>1, <2>6 DEF Step
    <3>2. Calm(RemEscContext(x), x.mode)
      BY <2>1, ContextsCalm
    <3>3. Calm(in, "lex")
      BY <2>1, <3>2, InCalm DEF LexEscape, Modes
    <3>. HIDE DEF in
    <3>. QED BY <3>1, <3>3, LexNormalInv
  <2>. QED BY <2>2, <2>3, <2>4, <2>5, <2>6
<1>. QED BY <1>0, <1>1, <1>2, Openers

-----------------------------------------------------------------------------
(* The end of a line. *)

LEMMA EndChunkInv ==
  ASSUME NEW x, QuoteInv(x), NEW t \in BOOLEAN
  PROVE  QuoteInv(EndChunk(x, t))
<1>. DEFINE closed == IF x.mode \in {"word", "esc"} THEN CloseTmpPart(x) ELSE x
            word == In(WordEmit(closed), "lex")
            newline == IF t THEN Emit(word, "NEWLINE") ELSE word
<1>0. x \in Lexers /\ x.mode \in Modes
  BY LexersDef DEF QuoteInv, Good
<1>1. CASE x.mode \in Quotes
  BY <1>1 DEF EndChunk, Quotes
<1>2. CASE x.mode = "\"\\"
  <2>1. EndChunk(x, t) = In(x, "\"")
    BY <1>2 DEF EndChunk
  <2>2. Good(In(x, "\"")) /\ In(x, "\"").ctxs = x.ctxs /\ In(x, "\"").mode = "\""
    BY <1>0, InGood DEF In, Lexers, GoodAt, QuoteInv, Modes
  <2>. QED BY <1>2, <2>1, <2>2 DEF QuoteInv, Opener
<1>3. CASE x.mode \in OutsideModes
  <2>1. Calm(x, x.mode) /\ x.mode \notin Quotes \cup {"\"\\"}
    BY <1>3, Openers DEF QuoteInv, Calm, OutsideModes, Quotes
  <2>2. Calm(closed, x.mode)
    BY <2>1, KeepsCalm
  <2>3. CASE x.mode \in {"esc", "escOut"}
    <3>1. EndChunk(x, t) = In(AddContext(closed, "\\"), "escOut")
      BY <2>3 DEF EndChunk
    <3>. HIDE DEF closed
    <3>2. Calm(AddContext(closed, "\\"), x.mode)
      BY <2>2, ContextsCalm DEF Unquoted, Contexts, Quotes
    <3>3. Calm(In(AddContext(closed, "\\"), "escOut"), "escOut")
      BY <3>2, InCalm DEF Modes
    <3>. QED BY <3>1, <3>3, CalmIsInv DEF OutsideModes
  <2>4. CASE x.mode \notin {"esc", "escOut"}
    <3>1. EndChunk(x, t) = IF newline.ctxs = <<>> THEN Emit(newline, "EOF") ELSE newline
      BY <2>1, <2>4 DEF EndChunk
    <3>. HIDE DEF closed
    <3>2. Calm(WordEmit(closed), x.mode)
      BY <2>2, KeepsCalm
    <3>3. Calm(word, "lex")
      BY <3>2, InCalm DEF Modes
    <3>. HIDE DEF word
    <3>4. Calm(newline, "lex")
      BY <3>3, KeepsCalm DEF TokTypes
    <3>. HIDE DEF newline
    <3>5. Calm(EndChunk(x, t), "lex")
      BY <3>1, <3>4, KeepsCalm DEF TokTypes
    <3>. QED BY <3>5, CalmIsInv DEF OutsideModes
  <2>. QED BY <2>3, <2>4
<1>. QED BY <1>0, <1>1, <1>2, <1>3, Openers

\* If nothing is open then no word is either: the last one has been emitted.
Settled(x) == x.ctxs = <<>> => x.mode = "lex" /\ x.tmp = <<>>
LEMMA EndChunkNormal ==
  ASSUME NEW x, QuoteInv(x), NEW t \in BOOLEAN
  PROVE  Settled(EndChunk(x, t))
<1>. DEFINE closed == IF x.mode \in {"word", "esc"} THEN CloseTmpPart(x) ELSE x
            word == In(WordEmit(closed), "lex")
            newline == IF t THEN Emit(word, "NEWLINE") ELSE word
<1>0. x \in Lexers /\ x.mode \in Modes /\ Good(x)
  BY LexersDef DEF QuoteInv, Good
<1>1. Good(closed) /\ closed \in Lexers
  BY <1>0, CloseTmpPartGood DEF GoodAt, Good
<1>2. CASE x.mode \in Quotes \cup {"\"\\"}
  <2>1. x.ctxs # <<>>
    BY <1>2, Openers DEF QuoteInv, TopIn
  <2>2. EndChunk(x, t).ctxs = x.ctxs
    BY <1>0, <1>2 DEF EndChunk, In, Lexers, Quotes
  <2>. QED BY <2>1, <2>2 DEF Settled
<1>3. CASE x.mode \in {"esc", "escOut"}
  <2>1. EndChunk(x, t) = In(AddContext(closed, "\\"), "escOut")
    BY <1>3 DEF EndChunk
  <2>. HIDE DEF closed
  <2>2. closed.ctxs \in Seq(Contexts)
    BY <1>1 DEF Lexers
  <2>3. In(AddContext(closed, "\\"), "escOut").ctxs = Append(closed.ctxs, "\\")
    BY <1>1 DEF AddContext, In, Lexers
  <2>. QED BY <2>1, <2>2, <2>3, AddPop DEF Settled
<1>4. CASE x.mode \notin Quotes \cup {"\"\\", "esc", "escOut"}
  <2>1. EndChunk(x, t) = IF newline.ctxs = <<>> THEN Emit(newline, "EOF") ELSE newline
    BY <1>4 DEF EndChunk
  <2>. HIDE DEF closed
  <2>2. Good(WordEmit(closed)) /\ WordEmit(closed) \in Lexers
    BY <1>1, WordEmitGood DEF GoodAt, Good
  <2>3. WordEmit(closed).tmp = <<>>
    BY <1>1 DEF WordEmit, Lexers
  <2>4. word \in Lexers /\ Good(word) /\ word.mode = "lex" /\ word.tmp = <<>>
    <3>. DEFINE emitted == WordEmit(closed)
    <3>. HIDE DEF emitted
    <3>1. GoodAt(In(emitted, "lex"), emitted, 0)
      BY <2>2, InGood DEF Modes, emitted
    <3>2. In(emitted, "lex").mode = "lex" /\ In(emitted, "lex").tmp = <<>>
      BY <2>2, <2>3 DEF In, Lexers, emitted
    <3>. QED BY <3>1, <3>2 DEF emitted, GoodAt, Good
  <2>. HIDE DEF word
  <2>5. newline \in Lexers /\ newline.mode = "lex" /\ newline.tmp = <<>>
    BY <2>4, EmitGood, SameContexts DEF GoodAt, Good, TokTypes
  <2>. HIDE DEF newline
  <2>6. EndChunk(x, t).mode = "lex" /\ EndChunk(x, t).tmp = <<>>
    BY <2>1, <2>5, SameContexts
  <2>. QED BY <2>6 DEF Settled
<1>. QED BY <1>2, <1>3, <1>4

\* Both, and the position.
LEMMA EndsAs ==
  ASSUME NEW x, QuoteInv(x), NEW t \in BOOLEAN, NEW y, y = EndChunk(x, t)
  PROVE  QuoteInv(y) /\ Settled(y) /\ y.pos = x.pos
<1>1. Good(x) /\ x.pos \in Nat
  BY LexersDef DEF QuoteInv, Good
<1>2. GoodAt(y, x, 0)
  BY <1>1, EndChunkGood
<1>3. y.pos = x.pos
  BY <1>1, <1>2 DEF GoodAt
<1>. QED BY <1>3, EndChunkInv, EndChunkNormal

-----------------------------------------------------------------------------
(* The texts. *)

\* A line begins where the last one ended, and what was typed before is settled.
StartInv ==
  /\ starts \in Seq(Nat) /\ starts # <<>> /\ Top(starts) <= lx.pos
  /\ status = "typing" /\ lx.pos = Top(starts) => Settled(lx)

FrontInv == TypeOK /\ AtEndOfBuffer /\ QuoteInv(lx) /\ StartInv /\ CompleteIsNormal

LEMMA SymbolsType == Alphabet \subseteq Symbols /\ "\n" \in Symbols
BY AlphabetAssumption DEF Symbols, Blanks

LEMMA FrontInit == Init => FrontInv
<1>. SUFFICES ASSUME Init PROVE FrontInv
  OBVIOUS
<1>1. /\ Good(NewLexer) /\ NewLexer \in Lexers /\ NewLexer.pos = 0
      /\ NewLexer.ctxs = <<>> /\ NewLexer.mode = "lex" /\ NewLexer.tmp = <<>>
  BY NewLexerGood DEF Good, NewLexer
<1>2. /\ Good(lx) /\ lx.pos = 0 /\ lx \in Lexers
      /\ lx.ctxs = <<>> /\ lx.mode = "lex" /\ lx.tmp = <<>>
  BY <1>1, BeginChunkGood, SameContexts DEF Init, GoodAt, Good
<1>3. QuoteInv(lx)
  <2>1. Calm(lx, "lex")
    BY <1>2 DEF Calm
  <2>. QED BY <2>1, CalmIsInv DEF OutsideModes
<1>4. text = <<>> /\ starts = <<0>> /\ status = "typing" /\ tty \in BOOLEAN
  BY DEF Init
<1>. QED BY <1>2, <1>3, <1>4
         DEF FrontInv, TypeOK, AtEndOfBuffer, StartInv, CompleteIsNormal, Settled, Top

\* What run_lexer leaves, of every line that can be ended.
LEMMA LexedInv ==
  ASSUME FrontInv, status = "typing"
  PROVE  /\ QuoteInv(Lexed) /\ Settled(Lexed) /\ LexedText \in Seq(Symbols)
         /\ Lexed.pos = Len(LexedText) /\ lx.pos <= Lexed.pos /\ lx.pos \in Nat
<1>0. /\ QuoteInv(lx) /\ Good(lx) /\ lx.pos = Len(text) /\ text \in Seq(Symbols)
      /\ lx.pos \in Nat /\ tty \in BOOLEAN
  BY LexersDef DEF FrontInv, TypeOK, AtEndOfBuffer, QuoteInv, Good
<1>1. CASE ~tty
  <2>. DEFINE read == Step(lx, "\n")
  <2>1. QuoteInv(read) /\ Good(read) /\ read.pos = lx.pos + 1
    BY <1>0, StepInv, StepGood, SymbolsType DEF GoodAt
  <2>2. Lexed = EndChunk(read, FALSE) /\ LexedText = Append(text, "\n")
    BY <1>1 DEF Lexed, LexedText
  <2>. HIDE DEF read
  <2>3. QuoteInv(Lexed) /\ Settled(Lexed) /\ Lexed.pos = read.pos
    BY <2>1, <2>2, EndsAs
  <2>4. LexedText \in Seq(Symbols) /\ Len(LexedText) = Len(text) + 1
    BY <1>0, <2>2, SymbolsType, AppendProperties
  <2>. QED BY <1>0, <2>1, <2>3, <2>4
<1>2. CASE tty /\ lx.pos = Top(starts)
  BY <1>0, <1>2 DEF Lexed, LexedText, FrontInv, StartInv
<1>3. CASE tty /\ lx.pos # Top(starts)
  <2>1. Lexed = EndChunk(lx, TRUE) /\ LexedText = text
    BY <1>3 DEF Lexed, LexedText
  <2>2. QuoteInv(Lexed) /\ Settled(Lexed) /\ Lexed.pos = lx.pos
    BY <1>0, <2>1, EndsAs
  <2>3. LexedText \in Seq(Symbols) /\ Lexed.pos = Len(LexedText) /\ lx.pos <= Lexed.pos
    <3>1. LexedText = text
      BY <2>1
    <3>. QED BY <1>0, <2>2, <3>1
  <2>. QED BY <1>0, <2>2, <2>3
<1>. QED BY <1>0, <1>1, <1>2, <1>3

\* The text has ended, and is complete only if nothing is open.
LEMMA EndOfTextInv ==
  ASSUME FrontInv, status = "typing", NEW what \in {"complete", "refused", "exited"},
         EndOfText(what), what = "complete" => Lexed.ctxs = <<>>
  PROVE  FrontInv'
<1>1. /\ QuoteInv(Lexed) /\ Settled(Lexed) /\ LexedText \in Seq(Symbols)
      /\ Lexed.pos = Len(LexedText) /\ lx.pos <= Lexed.pos /\ lx.pos \in Nat
  BY LexedInv
<1>2. status' = what /\ lx' = Lexed /\ text' = LexedText /\ tty' = tty /\ starts' = starts
  BY DEF EndOfText
<1>3. Lexed \in Lexers /\ Lexed.pos \in Nat
  BY <1>1, LexersDef DEF QuoteInv, Good
<1>. HIDE DEF Lexed, LexedText
<1>4. TypeOK'
  BY <1>1, <1>2, <1>3 DEF FrontInv, TypeOK
<1>5. QuoteInv(lx')
  BY <1>1, <1>2
<1>6. Top(starts) \in Nat /\ starts # <<>> /\ Top(starts) <= lx.pos
  BY PopSeq DEF FrontInv, StartInv
<1>7. StartInv'
  BY <1>1, <1>2, <1>3, <1>6 DEF FrontInv, StartInv
<1>8. CompleteIsNormal'
  BY <1>1, <1>2 DEF CompleteIsNormal, Settled, IsNormal
<1>9. AtEndOfBuffer'
  BY <1>1, <1>2 DEF AtEndOfBuffer
<1>. QED BY <1>4, <1>5, <1>7, <1>8, <1>9 DEF FrontInv

\* Every symbol and every end of a line keeps FrontInv.
LEMMA FrontStep == FrontInv /\ [Next]_vars => FrontInv'
<1>. SUFFICES ASSUME FrontInv, [Next]_vars PROVE FrontInv'
  OBVIOUS
<1>0. /\ QuoteInv(lx) /\ Good(lx) /\ lx.pos = Len(text) /\ text \in Seq(Symbols)
      /\ lx.pos \in Nat /\ tty \in BOOLEAN /\ starts \in Seq(Nat) /\ starts # <<>>
      /\ Top(starts) <= lx.pos /\ Top(starts) \in Nat
  BY LexersDef, PopSeq
     DEF FrontInv, TypeOK, AtEndOfBuffer, QuoteInv, Good, StartInv
<1>1. ASSUME NEW c \in Alphabet, TypeSymbol(c) PROVE FrontInv'
  <2>1. /\ status = "typing" /\ text' = Append(text, c) /\ lx' = Step(lx, c)
        /\ UNCHANGED <<tty, starts, status>> /\ c \in Symbols
    BY <1>1, SymbolsType DEF TypeSymbol
  <2>2. QuoteInv(lx') /\ lx' \in Lexers /\ lx'.pos = lx.pos + 1
    BY <1>0, <2>1, StepInv, StepGood DEF GoodAt, Good
  <2>3. text' \in Seq(Symbols) /\ Len(text') = Len(text) + 1
    BY <1>0, <2>1, AppendProperties
  <2>4. TypeOK'
    BY <1>0, <2>1, <2>2, <2>3 DEF FrontInv, TypeOK
  <2>5. StartInv'
    BY <1>0, <2>1, <2>2 DEF StartInv
  <2>6. AtEndOfBuffer' /\ CompleteIsNormal'
    BY <1>0, <2>1, <2>2, <2>3 DEF AtEndOfBuffer, CompleteIsNormal
  <2>. QED BY <2>2, <2>4, <2>5, <2>6 DEF FrontInv
<1>2. CASE Refuse
  BY <1>2, EndOfTextInv DEF Refuse
<1>3. CASE GiveUp
  BY <1>3, EndOfTextInv DEF GiveUp, Accepted
<1>4. CASE Complete
  BY <1>4, EndOfTextInv DEF Complete, Accepted
<1>5. CASE Continue
  <2>. DEFINE normal == IsNormal(Lexed)
              next == IF normal THEN Lexed ELSE PendingNewline(Lexed)
  <2>1. /\ status = "typing" /\ Lexed.ctxs # <<>>
        /\ lx' = BeginChunk(next)
        /\ text' = IF normal THEN LexedText ELSE Append(LexedText, "\n")
        /\ starts' = Append(starts, lx'.pos) /\ UNCHANGED <<tty, status>>
    BY <1>5 DEF Continue, Accepted
  <2>2. /\ QuoteInv(Lexed) /\ LexedText \in Seq(Symbols) /\ Lexed.pos = Len(LexedText)
        /\ lx.pos <= Lexed.pos
    BY <2>1, LexedInv
  <2>3. Good(Lexed) /\ Lexed \in Lexers /\ Lexed.pos \in Nat
    BY <2>2, LexersDef DEF QuoteInv, Good
  <2>. HIDE DEF Lexed, LexedText, normal
  <2>4. /\ Good(next) /\ next \in Lexers /\ next.ctxs = Lexed.ctxs /\ next.mode = Lexed.mode
        /\ next.pos = IF normal THEN Lexed.pos ELSE Lexed.pos + 1
    BY <2>3, AdvanceGood, SameContexts DEF PendingNewline, GoodAt, Good
  <2>. HIDE DEF next
  <2>5. /\ Good(lx') /\ lx' \in Lexers /\ lx'.ctxs = Lexed.ctxs /\ lx'.mode = Lexed.mode
        /\ lx'.pos = IF normal THEN Lexed.pos ELSE Lexed.pos + 1
    BY <2>1, <2>3, <2>4, BeginChunkGood, SameContexts DEF GoodAt, Good
  <2>6. QuoteInv(lx')
    BY <2>2, <2>5 DEF QuoteInv
  <2>7. text' \in Seq(Symbols) /\ lx'.pos = Len(text')
    BY <2>1, <2>2, <2>5, SymbolsType, AppendProperties
  <2>8. lx'.pos \in Nat
    BY <2>3, <2>5
  <2>9. starts' \in Seq(Nat) /\ starts' # <<>> /\ Top(starts') = lx'.pos
    BY <1>0, <2>1, <2>8, AddPop
  <2>10. StartInv'
    BY <2>1, <2>5, <2>8, <2>9 DEF StartInv, Settled
  <2>11. TypeOK'
    BY <2>1, <2>5, <2>7, <2>9, <1>0 DEF FrontInv, TypeOK
  <2>. QED BY <2>1, <2>6, <2>7, <2>10, <2>11
           DEF FrontInv, AtEndOfBuffer, CompleteIsNormal
<1>6. CASE UNCHANGED vars
  BY <1>6 DEF vars, FrontInv, TypeOK, AtEndOfBuffer, StartInv, CompleteIsNormal
<1>. QED BY <1>1, <1>2, <1>3, <1>4, <1>5, <1>6 DEF Next

\* Tokens, contexts and positions are what their types say, whatever is typed.
THEOREM FrontEndTypes == Spec => []TypeOK
<1>1. FrontInv => TypeOK
  BY DEF FrontInv
<1>. QED BY FrontInit, FrontStep, <1>1, PTL DEF Spec

\* The lexer is at the end of the buffer whenever a line may be added to it, with the
\* newlines that manage_pendings puts back.
THEOREM TheBufferIsRead == Spec => []AtEndOfBuffer
<1>1. FrontInv => AtEndOfBuffer
  BY DEF FrontInv
<1>. QED BY FrontInit, FrontStep, <1>1, PTL DEF Spec

\* The stack of contexts and the state of the lexer agree on whether a quote is open
\* (enter_quote_state, leave_quote_state and every removal in between).
THEOREM ContextsAgreeWithState == Spec => []QuoteIsInnermost
<1>1. FrontInv => QuoteIsInnermost
  <2>. SUFFICES ASSUME FrontInv PROVE QuoteIsInnermost
    OBVIOUS
  <2>0. QuoteInv(lx) /\ lx.ctxs \in Seq(Contexts) /\ Len(lx.ctxs) \in Nat
    BY LexersDef DEF FrontInv, QuoteInv, Good
  <2>1. ASSUME NEW k \in 1..Len(lx.ctxs), lx.ctxs[k] \in Quotes
        PROVE  k = Len(lx.ctxs) /\ lx.ctxs[k] = Opener(lx.mode)
    <3>1. Opener(lx.mode) \in Quotes
      <4>1. CASE lx.ctxs \in Seq(Unquoted)
        BY <2>1, <4>1, ElementOfSeq DEF Unquoted
      <4>. QED BY <2>0, <4>1 DEF QuoteInv
    <3>2. lx.ctxs # <<>> /\ Top(lx.ctxs) = Opener(lx.mode) /\ Pop(lx.ctxs) \in Seq(Unquoted)
      BY <2>0, <3>1 DEF QuoteInv, TopIn
    <3>3. CASE k = Len(lx.ctxs)
      BY <3>2, <3>3 DEF Top
    <3>4. CASE k # Len(lx.ctxs)
      <4>. DEFINE n == Len(lx.ctxs) - 1
                  s == lx.ctxs
      <4>1. n \in Int /\ 1 \in Int /\ k \in 1..n /\ \A i \in 1..n : s[i] \in Contexts
        BY <2>0, <3>4, ElementOfSeq
      <4>. HIDE DEF s
      <4>2. /\ Len(SubSeq(s, 1, n)) = IF 1 <= n THEN n ELSE 0
            /\ \A i \in 1..n : SubSeq(s, 1, n)[i] = s[i]
        BY <4>1, SubSeqProperties
      <4>3. k \in 1..Len(Pop(s)) /\ Pop(s)[k] = s[k]
        BY <4>1, <4>2 DEF Pop, s
      <4>4. s[k] \in Unquoted
        BY <3>2, <4>3, ElementOfSeq DEF s
      <4>. QED BY <2>1, <4>4 DEF Unquoted, s
    <3>. QED BY <3>3, <3>4
  <2>. QED BY <2>0, <2>1 DEF QuoteIsInnermost, QuoteInv
<1>. QED BY FrontInit, FrontStep, <1>1, PTL DEF Spec

\* A text that is handed to the parser was not cut inside a quote or a word.
THEOREM CompleteTextsEnd == Spec => []CompleteIsNormal
<1>1. FrontInv => CompleteIsNormal
  BY DEF FrontInv
<1>. QED BY FrontInit, FrontStep, <1>1, PTL DEF Spec
-----------------------------------------------------------------------------
(* The symbols of words.                                                     *)

\* Parts t of a text: those of token t, and behind the last token those of the word
\* that is being read.  Takes: part p of them holds the k-th symbol.
PartsAt(toks, tmp, t) == IF t \in 1..Len(toks) THEN toks[t].parts ELSE tmp
Takes(toks, tmp, t, p, k) ==
  /\ t \in 1..(Len(toks) + 1) /\ p \in 1..Len(PartsAt(toks, tmp, t))
  /\ PartsAt(toks, tmp, t)[p].start < k /\ k <= PartsAt(toks, tmp, t)[p].end

\* The parts of the word as they would be if it ended here: the last one reaches to the
\* position, in the states of the lexer in which every symbol becomes part of it.
Growing == {"word", "esc", "\"\\"} \cup Quotes
Shut(x) == IF x.mode \in Growing THEN EndAt(x.tmp, x.pos) ELSE x.tmp

\* One turn of Inside, and the functions that make these turns.
LineAt(ss, k) == \E j \in 1..Len(ss) : ss[j] = k
Turn(tx, ss, k, before) ==
  LET c == tx[k]
      s == IF LineAt(ss, k - 1) /\ before = "#" THEN "" ELSE before
  IN CASE s \in {"'", "#"} -> IF c = (IF s = "#" THEN "\n" ELSE s) THEN "" ELSE s
       [] s = "\"" -> IF c = s THEN "" ELSE IF c = "\\" THEN "\"\\" ELSE s
       [] s = "\"\\" -> "\""
       [] s = "\\" -> ""
       [] OTHER -> IF c \in Quotes \cup {"\\"} THEN c
                   ELSE IF c = "#" /\ (k = 1 \/ LineAt(ss, k - 1) \/
                          tx[k - 1] \in Blanks \cup Operators \cup Quotes)
                   THEN "#" ELSE ""
Traces(f, tx, ss) == f[0] = "" /\ \A k \in 1..Len(tx) : f[k] = Turn(tx, ss, k, f[k - 1])

\* A symbol of a word is in one part, one of a comment in none.
TakenOnce(x, k) ==
  \E t, p : /\ Takes(x.toks, Shut(x), t, p, k)
              /\ \A u, q : Takes(x.toks, Shut(x), u, q, k) => u = t /\ q = p
Free(x, k) == \A t, p : ~Takes(x.toks, Shut(x), t, p, k)
Cover(f, x, tx) ==
  \A k \in 1..Len(tx) : tx[k] \in Plain => IF f[k] = "#" THEN Free(x, k) ELSE TakenOnce(x, k)

\* No word has more parts than the text has symbols.
Short(toks, tmp, n) ==
  /\ Len(tmp) <= n
  /\ \A t \in 1..Len(toks) : Len(toks[t].parts) <= n

\* No symbol of a word lies behind the last part.
Reaches(tmp, n, tx) ==
  tmp # <<>> => \A k \in 1..n : tx[k] \in Plain => k <= tmp[Len(tmp)].end

\* The parts of the word that is being read, by the state of the lexer.
Parted(x, tx) ==
  /\ x.mode \in Growing => x.tmp # <<>>
  /\ x.mode = "#" => x.tmp = <<>>
  /\ x.mode \in {"lex", "escOut"} => Reaches(x.tmp, x.pos, tx)

\* What the reader of the text is inside of, by the state of the lexer, and where a
\* word may begin.
ToldPlainly(f, x) ==
  /\ x.mode \in {"lex", "word", "#"} \cup Quotes
  /\ x.mode \in Quotes \cup {"#"} => f[x.pos] = x.mode
  /\ x.mode = "word" => f[x.pos] = ""
  /\ x.mode = "lex" => f[x.pos] \in {"", "#"}
Ends == Blanks \cup Operators \cup Quotes
BoundedPlainly(f, x, tx, ss) ==
  /\ x.mode = "lex" =>
       \/ f[x.pos] = "" /\ (x.pos = 0 \/ tx[x.pos] \in Ends)
       \/ LineAt(ss, x.pos)
  /\ x.mode = "word" => x.pos # 0 /\ tx[x.pos] \notin Ends
  /\ x.mode \in {"word", "#"} => ~LineAt(ss, x.pos)

\* If there are backslashes, lexer and reader agree about comments alone, because there
\* are none; and a line begins in the states in which EndChunk leaves the lexer.
Escapes == "\\" \in Alphabet
Comments == "#" \in Alphabet
Told(f, x) ==
  IF Escapes THEN f[x.pos] # "#" /\ x.mode # "#" ELSE ToldPlainly(f, x)
Resting == {"lex", "escOut"} \cup Quotes
Bounded(f, x, tx, ss) ==
  IF Escapes THEN LineAt(ss, x.pos) => x.mode \in Resting ELSE BoundedPlainly(f, x, tx, ss)

\* The state after the next symbol.
Stays(m, c) == /\ m \in {"word", "esc"} /\ c \notin Operators \cup Quotes
               /\ c \in Blanks => m = "esc"
NextMode(m, c) ==
  IF m = "\"\\" THEN "\""
  ELSE IF m \in Quotes THEN IF c = m THEN "lex"
                            ELSE IF m = "\"" /\ c = "\\" THEN "\"\\" ELSE m
  ELSE IF m = "#" /\ c # "\n" THEN "#"
  ELSE IF Stays(m, c) THEN IF c = "\\" THEN "esc" ELSE m
  ELSE IF m = "esc" /\ c \in Operators THEN "escOut"
  ELSE IF c \in Quotes THEN c
  ELSE IF c \in Operators \cup Blanks THEN "lex"
  ELSE IF c = "#" THEN "#"
  ELSE IF c = "\\" THEN "esc" ELSE "word"

\* Which symbols are taken depends on what the parts delimit.
LEMMA TakesAlike ==
  ASSUME NEW toks, NEW a \in Seq(Parts), NEW b \in Seq(Parts), Len(a) = Len(b), NEW k,
         \A p \in 1..Len(a) : (a[p].start < k /\ k <= a[p].end) <=> (b[p].start < k /\ k <= b[p].end)
  PROVE  \A t, p : Takes(toks, a, t, p, k) <=> Takes(toks, b, t, p, k)
BY DEF Takes, PartsAt

\* A token that is made of the parts read so far takes what they took; one without
\* parts takes nothing.
LEMMA TakesToken ==
  ASSUME NEW toks \in Seq(Tokens), NEW tmp \in Seq(Parts), NEW type \in TokTypes
  PROVE  \A t, p, k : Takes(Append(toks, Token(type, tmp)), <<>>, t, p, k) <=> Takes(toks, tmp, t, p, k)
<1>. DEFINE token == Token(type, tmp)
            more == Append(toks, token)
<1>1. token \in Tokens /\ token.parts = tmp
  BY TokenType
<1>. HIDE DEF token
<1>2. /\ Len(more) = Len(toks) + 1 /\ more[Len(toks) + 1] = token
      /\ \A k \in 1..Len(toks) : more[k] = toks[k]
      /\ Len(toks) \in Nat
  BY <1>1, AppendProperties
<1>. HIDE DEF more
<1>3. ASSUME NEW t \in 1..(Len(toks) + 1)
      PROVE  PartsAt(more, <<>>, t) = PartsAt(toks, tmp, t)
  <2>1. CASE t \in 1..Len(toks)
    BY <1>2, <2>1 DEF PartsAt
  <2>2. CASE t = Len(toks) + 1
    BY <1>1, <1>2, <2>2 DEF PartsAt
  <2>. QED BY <2>1, <2>2
<1>4. ASSUME NEW t, NEW p, NEW k, Takes(more, <<>>, t, p, k)
      PROVE  t \in 1..(Len(toks) + 1)
  <2>1. CASE t = Len(more) + 1
    <3>1. PartsAt(more, <<>>, t) = <<>>
      BY <1>2, <2>1 DEF PartsAt
    <3>. QED BY <1>4, <3>1 DEF Takes
  <2>2. t \in 1..(Len(more) + 1)
    BY <1>4 DEF Takes
  <2>. QED BY <1>2, <2>1, <2>2
<1>5. ASSUME NEW t, NEW p, NEW k
      PROVE  Takes(more, <<>>, t, p, k) <=> Takes(toks, tmp, t, p, k)
  <2>1. CASE t \in 1..(Len(toks) + 1)
    BY <1>2, <1>3, <2>1 DEF Takes
  <2>2. CASE t \notin 1..(Len(toks) + 1)
    BY <1>4, <2>2 DEF Takes
  <2>. QED BY <2>1, <2>2
<1>. QED BY <1>5 DEF more, token

LEMMA TakesWorded ==
  ASSUME NEW toks \in Seq(Tokens), NEW tmp \in Seq(Parts)
  PROVE  /\ Worded(toks, tmp) \in Seq(Tokens)
         /\ \A t, p, k : Takes(Worded(toks, tmp), <<>>, t, p, k) <=> Takes(toks, tmp, t, p, k)
<1>1. "WORD" \in TokTypes /\ Token("WORD", tmp) \in Tokens
  BY TokenType DEF TokTypes
<1>2. Append(toks, Token("WORD", tmp)) \in Seq(Tokens)
  BY <1>1
<1>3. \A t, p, k : Takes(Append(toks, Token("WORD", tmp)), <<>>, t, p, k) <=> Takes(toks, tmp, t, p, k)
  BY <1>1, TakesToken
<1>4. CASE tmp = <<>>
  BY <1>4 DEF Worded
<1>5. CASE tmp # <<>>
  BY <1>2, <1>3, <1>5 DEF Worded
<1>. QED BY <1>4, <1>5

\* A part that does not take a symbol changes nothing for it.
LEMMA TakesAppend ==
  ASSUME NEW toks \in Seq(Tokens), NEW tmp \in Seq(Parts), NEW new \in Parts, NEW k,
         ~(new.start < k /\ k <= new.end)
  PROVE  \A t, p : Takes(toks, Append(tmp, new), t, p, k) <=> Takes(toks, tmp, t, p, k)
<1>. DEFINE more == Append(tmp, new)
<1>1. /\ Len(more) = Len(tmp) + 1 /\ more[Len(tmp) + 1] = new /\ Len(tmp) \in Nat
      /\ \A p \in 1..Len(tmp) : more[p] = tmp[p]
      /\ Len(toks) \in Nat
  BY AppendProperties
<1>. HIDE DEF more
<1>2. ASSUME NEW t, NEW p
      PROVE  Takes(toks, more, t, p, k) <=> Takes(toks, tmp, t, p, k)
  <2>1. CASE t \in 1..Len(toks)
    BY <2>1 DEF Takes, PartsAt
  <2>2. CASE t \notin 1..Len(toks)
    <3>1. PartsAt(toks, more, t) = more /\ PartsAt(toks, tmp, t) = tmp
      BY <2>2 DEF PartsAt
    <3>2. CASE p \in 1..Len(tmp)
      BY <1>1, <3>1, <3>2 DEF Takes
    <3>3. CASE p = Len(tmp) + 1
      BY <1>1, <3>1, <3>3 DEF Takes
    <3>4. CASE p \notin 1..(Len(tmp) + 1)
      BY <1>1, <3>1, <3>4 DEF Takes
    <3>. QED BY <1>1, <3>2, <3>3, <3>4
  <2>. QED BY <2>1, <2>2
<1>. QED BY <1>2 DEF more

-----------------------------------------------------------------------------
(* Parts that end, words that end, parts that begin. *)

\* The symbols of words among the first n are taken alike.
SameTaken(toks, tmp, newToks, newTmp, n, tx) ==
  \A k \in 1..n : tx[k] \in Plain =>
    \A t, p : Takes(toks, tmp, t, p, k) <=> Takes(newToks, newTmp, t, p, k)

LEMMA SameTakenTwice ==
  ASSUME NEW toks, NEW tmp, NEW toks1, NEW tmp1, NEW toks2, NEW tmp2, NEW n, NEW tx,
         SameTaken(toks, tmp, toks1, tmp1, n, tx), SameTaken(toks1, tmp1, toks2, tmp2, n, tx)
  PROVE  SameTaken(toks, tmp, toks2, tmp2, n, tx)
BY DEF SameTaken

LEMMA EndAtTaken ==
  ASSUME NEW toks, NEW tmp \in Seq(Parts), NEW n \in Nat, NEW e \in Nat, n <= e, NEW tx,
         Reaches(tmp, n, tx)
  PROVE  SameTaken(toks, tmp, toks, EndAt(tmp, e), n, tx)
<1>. DEFINE b == EndAt(tmp, e)
<1>1. /\ b \in Seq(Parts) /\ Len(b) = Len(tmp)
      /\ \A p \in 1..Len(tmp) : /\ b[p].start = tmp[p].start
                                /\ b[p].end = IF p = Len(tmp) THEN e ELSE tmp[p].end
  BY EndAtParts
<1>. HIDE DEF b
<1>2. ASSUME NEW k \in 1..n, tx[k] \in Plain
      PROVE  \A t, p : Takes(toks, tmp, t, p, k) <=> Takes(toks, b, t, p, k)
  <2>1. ASSUME NEW p \in 1..Len(tmp)
        PROVE  (tmp[p].start < k /\ k <= tmp[p].end) <=> (b[p].start < k /\ k <= b[p].end)
    <3>1. CASE p = Len(tmp)
      <4>1. k <= tmp[p].end
        BY <1>2, <3>1 DEF Reaches
      <4>. QED BY <1>1, <3>1, <4>1
    <3>2. CASE p # Len(tmp)
      BY <1>1, <3>2
    <3>. QED BY <3>1, <3>2
  <2>. QED BY <1>1, <2>1, TakesAlike
<1>. QED BY <1>2 DEF SameTaken, b

\* A part that begins at n, or later, takes none of the first n symbols.
LEMMA AppendTaken ==
  ASSUME NEW toks \in Seq(Tokens), NEW tmp \in Seq(Parts), NEW new \in Parts,
         NEW n \in Nat, n <= new.start, NEW tx
  PROVE  SameTaken(toks, tmp, toks, Append(tmp, new), n, tx)
<1>1. ASSUME NEW k \in 1..n
      PROVE  \A t, p : Takes(toks, tmp, t, p, k) <=> Takes(toks, Append(tmp, new), t, p, k)
  <2>1. new.start \in Nat
    BY DEF Parts
  <2>2. ~(new.start < k /\ k <= new.end)
    BY <2>1
  <2>3. \A t, p : Takes(toks, Append(tmp, new), t, p, k) <=> Takes(toks, tmp, t, p, k)
    BY <2>2, TakesAppend
  <2>. QED BY <2>3
<1>. QED BY <1>1 DEF SameTaken

\* A word that ends, and the token without parts behind it.
LEMMA WordTaken ==
  ASSUME NEW toks \in Seq(Tokens), NEW tmp \in Seq(Parts), NEW n, NEW tx
  PROVE  /\ Worded(toks, tmp) \in Seq(Tokens)
         /\ SameTaken(toks, tmp, Worded(toks, tmp), <<>>, n, tx)
         /\ \A type \in TokTypes :
              SameTaken(toks, tmp, Append(Worded(toks, tmp), Token(type, <<>>)), <<>>, n, tx)
<1>. DEFINE more == Worded(toks, tmp)
<1>1. more \in Seq(Tokens)
      /\ \A t, p, k : Takes(more, <<>>, t, p, k) <=> Takes(toks, tmp, t, p, k)
  BY TakesWorded
<1>. HIDE DEF more
<1>2. SameTaken(toks, tmp, more, <<>>, n, tx)
  BY <1>1 DEF SameTaken
<1>3. ASSUME NEW type \in TokTypes
      PROVE  SameTaken(toks, tmp, Append(more, Token(type, <<>>)), <<>>, n, tx)
  <2>1. <<>> \in Seq(Parts)
    OBVIOUS
  <2>2. \A t, p, k : Takes(Append(more, Token(type, <<>>)), <<>>, t, p, k) <=> Takes(more, <<>>, t, p, k)
    BY <1>1, <2>1, TakesToken
  <2>. QED BY <1>1, <2>2 DEF SameTaken
<1>. QED BY <1>1, <1>2, <1>3 DEF more

LEMMA ShortToken ==
  ASSUME NEW toks \in Seq(Tokens), NEW tmp \in Seq(Parts), NEW n, NEW type \in TokTypes,
         Short(toks, tmp, n), 0 <= n
  PROVE  Short(Append(toks, Token(type, tmp)), <<>>, n)
<1>. DEFINE token == Token(type, tmp)
            more == Append(toks, token)
<1>1. token \in Tokens /\ token.parts = tmp
  BY TokenType
<1>. HIDE DEF token
<1>2. /\ Len(more) = Len(toks) + 1 /\ more[Len(toks) + 1] = token
      /\ \A k \in 1..Len(toks) : more[k] = toks[k]
      /\ Len(toks) \in Nat
  BY <1>1, AppendProperties
<1>. HIDE DEF more
<1>3. ASSUME NEW t \in 1..(Len(toks) + 1) PROVE Len(more[t].parts) <= n
  <2>1. CASE t \in 1..Len(toks)
    BY <1>2, <2>1 DEF Short
  <2>2. CASE t = Len(toks) + 1
    BY <1>1, <1>2, <2>2 DEF Short
  <2>. QED BY <2>1, <2>2
<1>4. Short(more, <<>>, n)
  BY <1>2, <1>3 DEF Short
<1>. QED BY <1>4 DEF more, token

LEMMA ShortWorded ==
  ASSUME NEW toks \in Seq(Tokens), NEW tmp \in Seq(Parts), NEW n,
         Short(toks, tmp, n), 0 <= n
  PROVE  /\ Short(Worded(toks, tmp), <<>>, n)
         /\ \A type \in TokTypes : Short(Append(Worded(toks, tmp), Token(type, <<>>)), <<>>, n)
<1>. DEFINE more == Worded(toks, tmp)
<1>1. more \in Seq(Tokens)
  BY TakesWorded
<1>2. Short(more, <<>>, n)
  <2>1. CASE tmp = <<>>
    BY <2>1 DEF Worded
  <2>2. CASE tmp # <<>>
    BY <2>2, ShortToken, "WORD" \in TokTypes DEF Worded, TokTypes
  <2>. QED BY <2>1, <2>2
<1>. HIDE DEF more
<1>3. <<>> \in Seq(Parts)
  OBVIOUS
<1>4. \A type \in TokTypes : Short(Append(more, Token(type, <<>>)), <<>>, n)
  BY <1>1, <1>2, <1>3, ShortToken
<1>. QED BY <1>2, <1>4 DEF more

LEMMA ShortLater ==
  ASSUME NEW toks \in Seq(Tokens), NEW tmp \in Seq(Parts), NEW n \in Nat, NEW m \in Nat,
         n <= m, Short(toks, tmp, n)
  PROVE  Short(toks, tmp, m)
<1>1. \A t \in 1..Len(toks) : Len(toks[t].parts) \in Nat
  BY TokensDef
<1>. QED BY <1>1 DEF Short

\* The last part alone takes a symbol that lies behind all others.
LEMMA LastTakes ==
  ASSUME NEW y, NEW k \in Nat, k # 0,
         y.toks \in Seq(Tokens), Shut(y) \in Seq(Parts), Shut(y) # <<>>,
         Shut(y)[Len(Shut(y))].start < k, k <= Shut(y)[Len(Shut(y))].end,
         \A p \in 1..(Len(Shut(y)) - 1) : Shut(y)[p].end < k,
         \A t \in 1..Len(y.toks) : Within(y.toks[t].parts, k - 1)
  PROVE  TakenOnce(y, k)
<1>. DEFINE b == Shut(y)
            n == Len(b)
            m == Len(y.toks)
<1>0. /\ n \in Nat /\ m \in Nat /\ n # 0
      /\ \A p \in 1..n : b[p].end \in Nat
  BY PartsDef
<1>1. Takes(y.toks, b, m + 1, n, k)
  BY <1>0 DEF Takes, PartsAt
<1>2. ASSUME NEW t, NEW p, Takes(y.toks, b, t, p, k)
      PROVE  t = m + 1 /\ p = n
  <2>1. t \in 1..(m + 1)
    BY <1>2 DEF Takes
  <2>2. CASE t \in 1..m
    <3>1. /\ p \in 1..Len(y.toks[t].parts) /\ k <= y.toks[t].parts[p].end
      BY <1>2, <2>2 DEF Takes, PartsAt
    <3>2. y.toks[t].parts \in Seq(Parts)
      BY <2>2, TokensDef
    <3>3. y.toks[t].parts[p].end <= k - 1 /\ y.toks[t].parts[p].end \in Nat
      BY <2>2, <3>1, <3>2, PartsDef DEF Within
    <3>. QED BY <3>1, <3>3
  <2>3. CASE t = m + 1
    <3>1. p \in 1..n /\ k <= b[p].end
      BY <1>0, <1>2, <2>3 DEF Takes, PartsAt
    <3>2. CASE p # n
      <4>1. p \in 1..(n - 1)
        BY <1>0, <3>1, <3>2
      <4>2. b[p].end < k
        BY <4>1
      <4>. QED BY <1>0, <3>1, <4>2
    <3>. QED BY <2>3, <3>2
  <2>. QED BY <1>0, <2>1, <2>2, <2>3
<1>. QED BY <1>1, <1>2 DEF TakenOnce

-----------------------------------------------------------------------------
(* One symbol. *)

\* Up to position n, the parts of y take what those of toks and tmp did.
Moved(toks, tmp, n, y, tx) ==
  /\ Good(y) /\ y.pos = n + 1
  /\ SameTaken(toks, tmp, y.toks, Shut(y), n, tx)
  /\ Short(toks, tmp, n) => Short(y.toks, y.tmp, n + 1)

LEMMA MovedWord ==
  ASSUME NEW z, Good(z), NEW y, NEW tmp \in Seq(Parts), NEW m \in {"lex", "escOut", "#"}, NEW tx,
         SameTaken(z.toks, z.tmp, z.toks, tmp, z.pos, tx), Len(tmp) = Len(z.tmp),
         \/ At(y, m, Worded(z.toks, tmp), <<>>, z.pos + 1)
         \/ \E type \in TokTypes :
              At(y, m, Append(Worded(z.toks, tmp), Token(type, <<>>)), <<>>, z.pos + 1)
  PROVE  Moved(z.toks, z.tmp, z.pos, y, tx)
<1>. DEFINE n == z.pos
<1>0. z.toks \in Seq(Tokens) /\ z.tmp \in Seq(Parts) /\ n \in Nat
  BY LexersDef DEF Good
<1>1. /\ SameTaken(z.toks, tmp, Worded(z.toks, tmp), <<>>, n, tx)
      /\ \A type \in TokTypes :
           SameTaken(z.toks, tmp, Append(Worded(z.toks, tmp), Token(type, <<>>)), <<>>, n, tx)
  BY <1>0, WordTaken
<1>2. SameTaken(z.toks, tmp, y.toks, <<>>, n, tx)
  BY <1>1 DEF At
<1>3. SameTaken(z.toks, z.tmp, y.toks, <<>>, n, tx)
  BY <1>2, SameTakenTwice
<1>4. Good(y) /\ y.pos = n + 1 /\ y.tmp = <<>> /\ y.mode = m
  BY DEF At
<1>5. Shut(y) = <<>>
  BY <1>4 DEF Shut, EndAt
<1>6. ASSUME Short(z.toks, z.tmp, n) PROVE Short(y.toks, y.tmp, n + 1)
  <2>1. Short(z.toks, tmp, n)
    BY <1>6 DEF Short
  <2>2. /\ Short(Worded(z.toks, tmp), <<>>, n)
        /\ \A type \in TokTypes : Short(Append(Worded(z.toks, tmp), Token(type, <<>>)), <<>>, n)
    BY <1>0, <2>1, ShortWorded
  <2>3. Short(y.toks, y.tmp, n)
    BY <2>2 DEF At
  <2>4. y.toks \in Seq(Tokens) /\ y.tmp \in Seq(Parts) /\ n <= n + 1 /\ n + 1 \in Nat
    BY <1>0, <1>4, LexersDef DEF Good
  <2>. QED BY <1>0, <2>3, <2>4, ShortLater
<1>. QED BY <1>3, <1>4, <1>5, <1>6 DEF Moved

\* A part begins, with a quote before the next symbol or with this symbol.
LEMMA MovedPart ==
  ASSUME NEW z, Good(z), NEW y, NEW new \in Parts, NEW m \in Growing, NEW tx,
         new.start \in {z.pos, z.pos + 1}, new.end = new.start,
         At(y, m, z.toks, Append(z.tmp, new), z.pos + 1)
  PROVE  Moved(z.toks, z.tmp, z.pos, y, tx)
<1>. DEFINE n == z.pos
            more == Append(z.tmp, new)
            b == EndAt(more, n + 1)
<1>0. /\ z.toks \in Seq(Tokens) /\ z.tmp \in Seq(Parts) /\ n \in Nat /\ n + 1 \in Nat
      /\ Len(z.tmp) \in Nat
  BY LexersDef DEF Good
<1>1. /\ more \in Seq(Parts) /\ Len(more) = Len(z.tmp) + 1 /\ more[Len(z.tmp) + 1] = new
      /\ more # <<>> /\ \A p \in 1..Len(z.tmp) : more[p] = z.tmp[p]
  BY <1>0, AppendProperties
<1>2. SameTaken(z.toks, z.tmp, z.toks, more, n, tx)
  <2>1. n <= new.start
    BY <1>0
  <2>. QED BY <1>0, <2>1, AppendTaken
<1>. HIDE DEF more
<1>3. Reaches(more, n, tx)
  BY <1>0, <1>1 DEF Reaches
<1>4. SameTaken(z.toks, more, z.toks, b, n, tx)
  BY <1>0, <1>1, <1>3, EndAtTaken
<1>5. SameTaken(z.toks, z.tmp, z.toks, b, n, tx)
  BY <1>2, <1>4, SameTakenTwice
<1>6. /\ Good(y) /\ y.pos = n + 1 /\ y.tmp = more /\ y.mode = m /\ y.toks = z.toks
  BY DEF At, more
<1>7. Shut(y) = b
  BY <1>6 DEF Shut
<1>8. Short(z.toks, z.tmp, n) => Short(y.toks, y.tmp, n + 1)
  <2>. SUFFICES ASSUME Short(z.toks, z.tmp, n) PROVE Short(z.toks, more, n + 1)
    BY <1>6
  <2>1. \A t \in 1..Len(z.toks) : Len(z.toks[t].parts) \in Nat
    BY <1>0, TokensDef
  <2>. QED BY <1>0, <1>1, <2>1 DEF Short
<1>. QED BY <1>1, <1>5, <1>6, <1>7, <1>8 DEF Moved

\* A part that begins with a symbol takes it, alone.
LEMMA PartTakes ==
  ASSUME NEW z, Good(z), NEW y, NEW new \in Parts, NEW m \in Growing,
         new.start = z.pos, new.end = new.start,
         At(y, m, z.toks, Append(z.tmp, new), z.pos + 1)
  PROVE  TakenOnce(y, z.pos + 1)
<1>. DEFINE n == z.pos
            more == Append(z.tmp, new)
            b == EndAt(more, n + 1)
<1>1. /\ z.toks \in Seq(Tokens) /\ z.tmp \in Seq(Parts) /\ n \in Nat /\ n + 1 \in Nat
      /\ Len(z.tmp) \in Nat
  BY LexersDef DEF Good
<1>2. /\ more \in Seq(Parts) /\ Len(more) = Len(z.tmp) + 1 /\ more[Len(z.tmp) + 1] = new
      /\ more # <<>> /\ \A p \in 1..Len(z.tmp) : more[p] = z.tmp[p]
  BY <1>1, AppendProperties
<1>3. /\ Good(y) /\ y.pos = n + 1 /\ y.tmp = more /\ y.mode = m /\ y.toks = z.toks
  BY DEF At
<1>. HIDE DEF more
<1>4. Shut(y) = b
  BY <1>3 DEF Shut
<1>5. /\ b \in Seq(Parts) /\ Len(b) = Len(more)
      /\ \A p \in 1..Len(more) : /\ b[p].start = more[p].start
                                 /\ b[p].end = IF p = Len(more) THEN n + 1 ELSE more[p].end
  BY <1>1, <1>2, EndAtParts
<1>6. b # <<>>
  BY <1>1, <1>2, <1>5
<1>. HIDE DEF b
<1>7. b[Len(b)].start < n + 1 /\ n + 1 <= b[Len(b)].end
  BY <1>1, <1>2, <1>5
<1>8. ASSUME NEW p \in 1..(Len(b) - 1) PROVE b[p].end < n + 1
  <2>1. p \in 1..Len(z.tmp) /\ p \in 1..Len(more) /\ p # Len(more)
    BY <1>1, <1>2, <1>5
  <2>2. b[p].end = z.tmp[p].end
    BY <1>2, <1>5, <2>1
  <2>3. z.tmp[p].end <= n /\ z.tmp[p].end \in Nat
    BY <1>1, <2>1, PartsDef DEF Good, Behind, Within
  <2>. QED BY <1>1, <2>2, <2>3
<1>9. \A t \in 1..Len(y.toks) : Within(y.toks[t].parts, (n + 1) - 1)
  BY <1>1, <1>3 DEF Good, Behind
<1>. DEFINE k == n + 1
<1>10. /\ k \in Nat /\ k # 0 /\ y.toks \in Seq(Tokens)
      /\ \A t \in 1..Len(y.toks) : Within(y.toks[t].parts, k - 1)
  BY <1>1, <1>3, <1>9
<1>11. /\ Shut(y) \in Seq(Parts) /\ Shut(y) # <<>>
      /\ Shut(y)[Len(Shut(y))].start < k /\ k <= Shut(y)[Len(Shut(y))].end
      /\ \A p \in 1..(Len(Shut(y)) - 1) : Shut(y)[p].end < k
  BY <1>4, <1>5, <1>6, <1>7, <1>8
<1>. HIDE DEF k
<1>12. TakenOnce(y, k)
  BY <1>10, <1>11, LastTakes
<1>. QED BY <1>12 DEF k

\* A symbol between two words, or behind a part of one.
Read(z, c, y, tx) ==
  /\ Moved(z.toks, z.tmp, z.pos, y, tx)
  /\ c \in Quotes => y.mode = c /\ y.tmp # <<>>
  /\ c \in Operators \cup Blanks => y.mode = "lex" /\ y.tmp = <<>>
  /\ c = "#" => y.mode = "#" /\ y.tmp = <<>>
  /\ c = "\\" => y.mode = "esc" /\ y.tmp # <<>>
  /\ c \in Plain => y.mode = "word" /\ y.tmp # <<>> /\ TakenOnce(y, z.pos + 1)

LEMMA LexNormalTakes ==
  ASSUME NEW z, Good(z), z.mode = "lex", NEW c \in Symbols, NEW tx,
         Reaches(z.tmp, z.pos, tx), NEW y, y = LexNormal(z, c)
  PROVE  Read(z, c, y, tx)
<1>. DEFINE n == z.pos
            tmp == EndAt(z.tmp, n)
<1>1. z.toks \in Seq(Tokens) /\ z.tmp \in Seq(Parts) /\ n \in Nat
  BY LexersDef DEF Good
<1>2. tmp \in Seq(Parts) /\ Len(tmp) = Len(z.tmp)
  BY <1>1, EndAtParts
<1>3. SameTaken(z.toks, z.tmp, z.toks, tmp, n, tx)
  BY <1>1, EndAtTaken
<1>4. SameTaken(z.toks, z.tmp, z.toks, z.tmp, n, tx)
  BY DEF SameTaken
<1>5. /\ c \in Quotes => c \notin Operators \cup Blanks \cup Plain \cup {"#", "\\"}
      /\ c \in Operators => c \notin Blanks \cup Plain \cup {"#", "\\"}
      /\ c \in Blanks => c \notin Plain \cup {"#", "\\"}
      /\ {"#", "\\"} \cap Plain = {}
      /\ c \in Quotes \cup Operators \cup Blanks \cup Plain \cup {"#", "\\"}
  BY DEF Symbols, Quotes, Operators, CtrlOps, Redirs, Parens, Blanks, Plain
<1>. HIDE DEF tmp
<1>6. CASE c \in Quotes
  <2>. DEFINE new == [type |-> c, start |-> n + 1, end |-> n + 1]
  <2>1. new \in Parts /\ new.start = n + 1 /\ new.end = n + 1
    BY <1>1, <1>6 DEF Parts, PartTypes
  <2>2. At(y, c, z.toks, Append(z.tmp, new), n + 1)
    BY <1>6, AtEnterQuote DEF LexNormal
  <2>. HIDE DEF new
  <2>3. /\ c \in Growing /\ new.end = new.start
        /\ new.start \in {z.pos, z.pos + 1}
    BY <1>6, <2>1 DEF Growing
  <2>4. Moved(z.toks, z.tmp, z.pos, y, tx)
    BY <2>1, <2>2, <2>3, MovedPart
  <2>5. y.tmp # <<>>
    BY <1>1, <2>1, <2>2, AppendProperties DEF At
  <2>. QED BY <1>6, <1>5, <2>2, <2>4, <2>5 DEF At, Read
<1>7. CASE c \in Operators
  <2>1. At(y, "lex", Append(Worded(z.toks, tmp), Token(c, <<>>)), <<>>, n + 1)
    BY <1>7, <1>5, AtOperator DEF LexNormal, tmp
  <2>2. c \in TokTypes
    BY <1>7 DEF TokTypes
  <2>3. Moved(z.toks, z.tmp, n, y, tx)
    BY <1>2, <1>3, <2>1, <2>2, MovedWord
  <2>. QED BY <1>7, <1>5, <2>1, <2>3 DEF At, Read
<1>8. CASE c \in Blanks
  <2>. DEFINE word == WordEmit(z)
              new == IF c = "\n" THEN Emit(word, "NEWLINE") ELSE word
  <2>1. At(word, "lex", Worded(z.toks, z.tmp), <<>>, n)
    BY AtWord DEF At
  <2>. HIDE DEF word
  <2>2. \/ At(new, "lex", Worded(z.toks, z.tmp), <<>>, n)
        \/ At(new, "lex", Append(Worded(z.toks, z.tmp), Token("NEWLINE", <<>>)), <<>>, n)
    BY <2>1, AtEmit, "NEWLINE" \in TokTypes DEF At, TokTypes
  <2>3. y = Advance(new)
    BY <1>8, <1>5 DEF LexNormal, Separator, word
  <2>. HIDE DEF new
  <2>4. \/ At(y, "lex", Worded(z.toks, z.tmp), <<>>, n + 1)
        \/ At(y, "lex", Append(Worded(z.toks, z.tmp), Token("NEWLINE", <<>>)), <<>>, n + 1)
    BY <2>2, <2>3, AtAdvance DEF At
  <2>5. \/ At(y, "lex", Worded(z.toks, z.tmp), <<>>, n + 1)
        \/ \E type \in TokTypes :
             At(y, "lex", Append(Worded(z.toks, z.tmp), Token(type, <<>>)), <<>>, n + 1)
    BY <2>4, "NEWLINE" \in TokTypes DEF TokTypes
  <2>6. Moved(z.toks, z.tmp, n, y, tx)
    BY <1>1, <1>4, <2>5, MovedWord
  <2>. QED BY <1>8, <1>5, <2>4, <2>6 DEF At, Read
<1>9. CASE c = "#"
  <2>1. At(CloseTmpPart(z), "lex", z.toks, tmp, n)
    BY AtClose DEF tmp
  <2>2. At(WordEmit(CloseTmpPart(z)), "lex", Worded(z.toks, tmp), <<>>, n)
    BY <2>1, AtWord DEF At
  <2>. DEFINE next == Advance(WordEmit(CloseTmpPart(z)))
  <2>3. At(next, "lex", Worded(z.toks, tmp), <<>>, n + 1)
    BY <2>2, AtAdvance DEF At
  <2>4. At(y, "#", Worded(z.toks, tmp), <<>>, n + 1)
    <3>1. y = In(next, "#")
      BY <1>9, <1>5 DEF LexNormal
    <3>. HIDE DEF next
    <3>2. At(In(next, "#"), "#", next.toks, next.tmp, next.pos)
      BY <2>3, AtIn, "#" \in Modes DEF At, Modes
    <3>. QED BY <2>3, <3>1, <3>2 DEF At
  <2>5. Moved(z.toks, z.tmp, n, y, tx)
    BY <1>2, <1>3, <2>4, MovedWord
  <2>. QED BY <1>9, <1>5, <2>4, <2>5 DEF At, Read
<1>10. CASE c \in Plain \cup {"\\"}
  <2>. DEFINE new == [type |-> "UQUOTE", start |-> n, end |-> n]
              part == TempPartCreate(z, "UQUOTE")
              m == IF c = "\\" THEN "esc" ELSE "word"
              word == In(RemOpContext(part), "word")
              in == IF c = "\\" THEN In(word, "esc") ELSE word
  <2>1. new \in Parts /\ new.start = n /\ new.end = n
    BY <1>1 DEF Parts, PartTypes
  <2>2. At(part, "lex", z.toks, Append(z.tmp, new), n)
    BY AtCreate, "UQUOTE" \in PartTypes DEF At, PartTypes
  <2>. HIDE DEF part, new
  <2>3. At(RemOpContext(part), "lex", z.toks, Append(z.tmp, new), n)
    BY <2>2, AtContexts DEF At
  <2>4. At(word, "word", z.toks, Append(z.tmp, new), n)
    BY <2>3, AtIn, "word" \in Modes DEF At, Modes
  <2>5. y = Advance(in)
    BY <1>10, <1>5 DEF LexNormal, WordStep, part
  <2>. HIDE DEF word
  <2>6. At(in, m, z.toks, Append(z.tmp, new), n)
    <3>1. At(In(word, "esc"), "esc", word.toks, word.tmp, word.pos)
      BY <2>4, AtIn, "esc" \in Modes DEF At, Modes
    <3>. QED BY <2>4, <3>1 DEF At
  <2>. HIDE DEF in
  <2>7. At(y, m, z.toks, Append(z.tmp, new), z.pos + 1)
    BY <2>5, <2>6, AtAdvance DEF At
  <2>8. /\ m \in Growing /\ new.end = new.start /\ new.start = z.pos
        /\ new.start \in {z.pos, z.pos + 1}
    BY <2>1 DEF Growing
  <2>9. (c = "\\" => m = "esc") /\ (c \in Plain => m = "word")
    BY <1>5
  <2>. HIDE DEF m
  <2>10. Moved(z.toks, z.tmp, z.pos, y, tx)
    BY <2>1, <2>7, <2>8, MovedPart
  <2>11. TakenOnce(y, z.pos + 1)
    BY <2>1, <2>7, <2>8, PartTakes
  <2>12. y.tmp # <<>> /\ y.mode = m
    BY <1>1, <2>1, <2>7, AppendProperties DEF At
  <2>. QED BY <1>10, <1>5, <2>9, <2>10, <2>11, <2>12 DEF Read
<1>. QED BY <1>6, <1>7, <1>8, <1>9, <1>10, <1>5

\* No part takes a symbol behind the position.
LEMMA FreeAhead ==
  ASSUME NEW toks \in Seq(Tokens), NEW tmp \in Seq(Parts), NEW n \in Nat,
         Behind(tmp, toks, n)
  PROVE  \A t, p : ~Takes(toks, tmp, t, p, n + 1)
<1>. SUFFICES ASSUME NEW t, NEW p, Takes(toks, tmp, t, p, n + 1) PROVE FALSE
  OBVIOUS
<1>1. /\ PartsAt(toks, tmp, t) \in Seq(Parts) /\ Within(PartsAt(toks, tmp, t), n)
  BY TokensDef DEF PartsAt, Behind
<1>2. /\ PartsAt(toks, tmp, t)[p].end \in Nat /\ PartsAt(toks, tmp, t)[p].end <= n
      /\ n + 1 <= PartsAt(toks, tmp, t)[p].end
  BY <1>1, PartsDef DEF Takes, Within
<1>. QED BY <1>2

\* Inside a word or a quote the last part takes the next symbol.
LEMMA ContinueTakes ==
  ASSUME NEW x, Good(x), x.mode \in Growing, x.tmp # <<>>, NEW y, NEW m \in Growing,
         At(y, m, x.toks, x.tmp, x.pos + 1)
  PROVE  /\ \A tx : Moved(x.toks, Shut(x), x.pos, y, tx)
         /\ TakenOnce(y, x.pos + 1)
<1>. DEFINE n == x.pos
            a == EndAt(x.tmp, n)
            b == EndAt(x.tmp, n + 1)
            k == n + 1
<1>1. /\ x.toks \in Seq(Tokens) /\ x.tmp \in Seq(Parts) /\ n \in Nat /\ n + 1 \in Nat
      /\ Len(x.tmp) \in Nat /\ Len(x.tmp) # 0
  BY LexersDef DEF Good
<1>2. /\ Good(y) /\ y.pos = n + 1 /\ y.tmp = x.tmp /\ y.mode = m /\ y.toks = x.toks
  BY DEF At
<1>3. Shut(x) = a /\ Shut(y) = b
  BY <1>2 DEF Shut
<1>4. /\ a \in Seq(Parts) /\ Len(a) = Len(x.tmp)
      /\ \A p \in 1..Len(x.tmp) : /\ a[p].start = x.tmp[p].start
                                  /\ a[p].end = IF p = Len(x.tmp) THEN n ELSE x.tmp[p].end
  BY <1>1, EndAtParts
<1>5. /\ b \in Seq(Parts) /\ Len(b) = Len(x.tmp) /\ b # <<>>
      /\ \A p \in 1..Len(x.tmp) : /\ b[p].start = x.tmp[p].start
                                  /\ b[p].end = IF p = Len(x.tmp) THEN n + 1 ELSE x.tmp[p].end
  BY <1>1, EndAtParts
<1>6. \A p \in 1..Len(x.tmp) : /\ x.tmp[p].start \in Nat /\ x.tmp[p].end \in Nat
                               /\ x.tmp[p].start <= n /\ x.tmp[p].end <= n
  BY <1>1, PartsDef DEF Good, Behind, Within
<1>. HIDE DEF a, b
<1>7. ASSUME NEW tx PROVE SameTaken(x.toks, a, x.toks, b, n, tx)
  <2>1. ASSUME NEW i \in 1..n
        PROVE  \A t, p : Takes(x.toks, a, t, p, i) <=> Takes(x.toks, b, t, p, i)
    <3>1. \A p \in 1..Len(a) : (a[p].start < i /\ i <= a[p].end) <=> (b[p].start < i /\ i <= b[p].end)
      BY <1>1, <1>4, <1>5
    <3>. QED BY <1>4, <1>5, <3>1, TakesAlike
  <2>. QED BY <2>1 DEF SameTaken
<1>8. Short(x.toks, a, n) => Short(y.toks, y.tmp, n + 1)
  <2>. SUFFICES ASSUME Short(x.toks, a, n) PROVE Short(x.toks, x.tmp, n + 1)
    BY <1>2
  <2>1. Short(x.toks, x.tmp, n)
    BY <1>4 DEF Short
  <2>. QED BY <1>1, <2>1, ShortLater
<1>9. \A tx : Moved(x.toks, Shut(x), n, y, tx)
  BY <1>2, <1>3, <1>7, <1>8 DEF Moved
<1>10. /\ k \in Nat /\ k # 0 /\ y.toks \in Seq(Tokens)
       /\ \A t \in 1..Len(y.toks) : Within(y.toks[t].parts, k - 1)
  BY <1>1, <1>2 DEF Good, Behind
<1>11. b[Len(b)].start < k /\ k <= b[Len(b)].end
  BY <1>1, <1>5, <1>6
<1>12. \A p \in 1..(Len(b) - 1) : b[p].end < k
  BY <1>1, <1>5, <1>6
<1>13. /\ Shut(y) \in Seq(Parts) /\ Shut(y) # <<>>
       /\ Shut(y)[Len(Shut(y))].start < k /\ k <= Shut(y)[Len(Shut(y))].end
       /\ \A p \in 1..(Len(Shut(y)) - 1) : Shut(y)[p].end < k
  BY <1>3, <1>5, <1>11, <1>12
<1>. HIDE DEF k
<1>14. TakenOnce(y, k)
  BY <1>10, <1>13, LastTakes
<1>. QED BY <1>9, <1>14 DEF k

\* What one symbol does to the parts, whatever the lexer is inside of.
Turned(x, y, c, tx) ==
  /\ Moved(x.toks, Shut(x), x.pos, y, tx) /\ y.mode = NextMode(x.mode, c)
  /\ Parted(y, Append(tx, c))
  /\ c \in Plain => IF y.mode = "#" THEN Free(y, x.pos + 1) ELSE TakenOnce(y, x.pos + 1)

LEMMA SymbolKinds ==
  ASSUME NEW c \in Symbols
  PROVE  /\ c \in Quotes => c \notin Operators \cup Blanks \cup Plain \cup {"#", "\n", "\\"}
         /\ c \in Operators => c \notin Blanks \cup Plain \cup {"#", "\n", "\\"}
         /\ c \in Blanks => c \notin Plain \cup {"#", "\\"}
         /\ c \in Plain => c \notin {"#", "\n", "\\"}
         /\ "\n" \in Blanks
         /\ c \in Quotes \cup Operators \cup Blanks \cup Plain \cup {"#", "\\"}
BY DEF Symbols, Quotes, Operators, CtrlOps, Redirs, Parens, Blanks, Plain

\* The states of the lexer are different, and which of them grow and rest.
LEMMA ModeKinds ==
  /\ {"lex", "word", "#", "esc", "escOut", "\"\\"} \cap Quotes = {}
  /\ {"lex", "#", "escOut"} \cap Growing = {} /\ Quotes \subseteq Growing
  /\ {"word", "esc", "\"\\"} \subseteq Growing
  /\ Modes = {"lex", "#", "escOut"} \cup Growing /\ Growing \subseteq Modes
BY DEF Quotes, Growing, Modes

\* Outside of quotes and comments.
LEMMA LexNormalTurns ==
  ASSUME NEW x, Good(x), NEW c \in Symbols, NEW tx \in Seq(Symbols),
         Len(tx) = x.pos, NEW z, At(z, "lex", x.toks, Shut(x), x.pos),
         Reaches(z.tmp, z.pos, tx), NEW y, y = LexNormal(z, c),
         x.mode \notin Quotes \cup {"\"\\"}, ~(x.mode = "#" /\ c # "\n"), ~Stays(x.mode, c),
         ~(x.mode = "esc" /\ c \in Operators)
  PROVE  Turned(x, y, c, tx)
<1>1. Good(z) /\ z.mode = "lex" /\ z.toks = x.toks /\ z.tmp = Shut(x) /\ z.pos = x.pos
  BY DEF At
<1>2. /\ Moved(z.toks, z.tmp, z.pos, y, tx)
      /\ c \in Quotes => y.mode = c /\ y.tmp # <<>>
      /\ c \in Operators \cup Blanks => y.mode = "lex" /\ y.tmp = <<>>
      /\ c = "#" => y.mode = "#" /\ y.tmp = <<>>
      /\ c = "\\" => y.mode = "esc" /\ y.tmp # <<>>
      /\ c \in Plain => y.mode = "word" /\ y.tmp # <<>> /\ TakenOnce(y, z.pos + 1)
  <2>1. Read(z, c, y, tx)
    BY <1>1, LexNormalTakes
  <2>. QED BY <2>1 DEF Read
<1>3. y.mode = NextMode(x.mode, c)
  BY <1>2, SymbolKinds DEF NextMode
<1>4. Parted(y, Append(tx, c))
  BY <1>2, SymbolKinds, ModeKinds DEF Parted, Reaches
<1>. QED BY <1>1, <1>2, <1>3, <1>4 DEF Turned

\* Inside of a word or a quote, which goes on.
LEMMA ContinueTurns ==
  ASSUME NEW x, Good(x), x.mode \in Growing, NEW c \in Symbols, NEW tx, Parted(x, tx),
         NEW y, NEW m \in Growing, m = NextMode(x.mode, c),
         y = In(Advance(x), m) \/ y = Advance(In(x, m)) \/ (m = x.mode /\ y = Advance(x))
  PROVE  Turned(x, y, c, tx)
<1>1. m \in Modes
  BY ModeKinds
<1>2. At(y, m, x.toks, x.tmp, x.pos + 1)
  <2>. DEFINE in == In(x, m)
              next == Advance(x)
  <2>1. At(in, m, x.toks, x.tmp, x.pos)
    BY <1>1, AtIn DEF At
  <2>2. At(next, x.mode, x.toks, x.tmp, x.pos + 1)
    BY AtAdvance
  <2>. HIDE DEF in, next
  <2>3. At(Advance(in), m, x.toks, x.tmp, x.pos + 1)
    BY <2>1, AtAdvance DEF At
  <2>4. At(In(next, m), m, x.toks, x.tmp, x.pos + 1)
    BY <1>1, <2>2, AtIn DEF At
  <2>5. y = In(next, m) \/ y = Advance(in) \/ (m = x.mode /\ y = next)
    BY DEF in, next
  <2>. QED BY <2>2, <2>3, <2>4, <2>5
<1>3. x.tmp # <<>>
  BY DEF Parted
<1>4. Moved(x.toks, Shut(x), x.pos, y, tx) /\ TakenOnce(y, x.pos + 1)
  BY <1>2, <1>3, ContinueTakes
<1>5. y.mode = m /\ y.tmp = x.tmp
  BY <1>2 DEF At
<1>6. m \notin {"lex", "#", "escOut"}
  BY ModeKinds
<1>7. Parted(y, Append(tx, c))
  BY <1>3, <1>5, <1>6 DEF Parted
<1>. QED BY <1>4, <1>5, <1>6, <1>7 DEF Turned

LEMMA StepTurns ==
  ASSUME NEW x, Good(x), NEW c \in Symbols, NEW tx \in Seq(Symbols),
         Len(tx) = x.pos, Parted(x, tx), NEW y, y = Step(x, c)
  PROVE  Turned(x, y, c, tx)
<1>. DEFINE n == x.pos
            m == NextMode(x.mode, c)
<1>1. /\ x.toks \in Seq(Tokens) /\ x.tmp \in Seq(Parts) /\ n \in Nat
      /\ Len(x.tmp) \in Nat /\ x.mode \in Modes
  BY LexersDef DEF Good
<1>2. /\ \A new : Append(tx, c)[n + 1] = c
      /\ \A k \in 1..n : Append(tx, c)[k] = tx[k]
  BY AppendProperties
<1>3. CASE x.mode = "\"\\" \/ (x.mode \in Quotes /\ c # x.mode)
  <2>1. m = IF x.mode = "\"\\" THEN "\"" ELSE IF x.mode = "\"" /\ c = "\\" THEN "\"\\" ELSE x.mode
    BY <1>3, ModeKinds DEF NextMode
  <2>2. y = In(Advance(x), m)
    BY <1>3, <2>1, ModeKinds DEF Step, InsideQuote
  <2>3. x.mode \in Growing /\ m \in Growing
    BY <1>3, <2>1 DEF Growing, Quotes
  <2>. HIDE DEF m
  <2>4. m = NextMode(x.mode, c)
    BY DEF m
  <2>. QED BY <2>2, <2>3, <2>4, ContinueTurns
<1>4. CASE x.mode \in Quotes /\ c = x.mode
  <2>1. At(y, "lex", x.toks, EndAt(x.tmp, n), n + 1)
    BY <1>4, AtLeaveQuote, ModeKinds DEF Step, InsideQuote
  <2>2. Shut(x) = EndAt(x.tmp, n) /\ Shut(y) = EndAt(x.tmp, n)
    BY <1>4, <2>1, ModeKinds DEF Shut, At
  <2>3. x.tmp # <<>>
    BY <1>4, ModeKinds DEF Parted
  <2>4. /\ Len(EndAt(x.tmp, n)) = Len(x.tmp) /\ EndAt(x.tmp, n)[Len(x.tmp)].end = n
        /\ EndAt(x.tmp, n) \in Seq(Parts)
    BY <1>1, <2>3, EndAtParts
  <2>5. Short(x.toks, Shut(x), n) => Short(y.toks, y.tmp, n + 1)
    <3>1. y.toks = x.toks /\ y.tmp = Shut(x)
      BY <2>1, <2>2 DEF At
    <3>. QED BY <1>1, <2>2, <2>4, <3>1, ShortLater
  <2>6. Moved(x.toks, Shut(x), n, y, tx)
    BY <2>1, <2>2, <2>5 DEF Moved, SameTaken, At
  <2>7. Reaches(y.tmp, y.pos, Append(tx, c))
    <3>1. y.pos = n + 1 /\ y.tmp = EndAt(x.tmp, n)
      BY <1>1, <2>1 DEF At
    <3>2. c \notin Plain
      BY <1>4, SymbolKinds
    <3>3. ASSUME NEW k \in 1..(n + 1), Append(tx, c)[k] \in Plain PROVE k <= n
      BY <1>1, <1>2, <3>2, <3>3
    <3>. QED BY <2>4, <3>1, <3>3 DEF Reaches
  <2>8. Parted(y, Append(tx, c)) /\ y.mode = NextMode(x.mode, c)
    BY <1>4, <2>1, <2>7, ModeKinds DEF Parted, NextMode, At
  <2>. QED BY <1>4, <2>6, <2>8, SymbolKinds DEF Turned
<1>5. CASE x.mode = "#" /\ c # "\n"
  <2>1. At(y, "#", x.toks, x.tmp, n + 1)
    <3>1. y = Advance(x)
      BY <1>5, ModeKinds DEF Step
    <3>. QED BY <1>5, <3>1, AtAdvance
  <2>2. x.tmp = <<>> /\ Shut(x) = <<>> /\ Shut(y) = <<>>
    BY <1>5, <2>1 DEF Parted, Shut, At, EndAt
  <2>3. Short(x.toks, Shut(x), n) => Short(y.toks, y.tmp, n + 1)
    <3>1. y.toks = x.toks /\ y.tmp = x.tmp /\ Shut(x) = x.tmp
      BY <2>1, <2>2 DEF At
    <3>. QED BY <1>1, <3>1, ShortLater
  <2>4. Moved(x.toks, Shut(x), n, y, tx)
    BY <2>1, <2>2, <2>3 DEF Moved, SameTaken, At
  <2>5. Free(y, n + 1)
    <3>1. Behind(<<>>, x.toks, n) /\ <<>> \in Seq(Parts)
      BY <2>2 DEF Good
    <3>2. \A t, p : ~Takes(x.toks, <<>>, t, p, n + 1)
      BY <1>1, <3>1, FreeAhead
    <3>. QED BY <2>1, <2>2, <3>2 DEF Free, At
  <2>6. Parted(y, Append(tx, c)) /\ y.mode = NextMode(x.mode, c) /\ y.mode = "#"
    BY <1>5, <2>1, <2>2, ModeKinds DEF Parted, NextMode, At
  <2>. QED BY <2>4, <2>5, <2>6 DEF Turned
<1>6. CASE Stays(x.mode, c)
  <2>1. m = IF c = "\\" THEN "esc" ELSE x.mode
    BY <1>6, ModeKinds DEF NextMode, Stays
  <2>2. y = Advance(In(x, m)) \/ (m = x.mode /\ y = Advance(x))
    BY <1>6, <2>1, ModeKinds DEF Step, StaysInWord, WordStep, Stays
  <2>3. x.mode \in Growing /\ m \in Growing
    BY <1>6, <2>1 DEF Growing, Stays
  <2>. HIDE DEF m
  <2>4. m = NextMode(x.mode, c)
    BY DEF m
  <2>. QED BY <2>2, <2>3, <2>4, ContinueTurns
<1>7. CASE x.mode \in {"word", "esc"} /\ ~Stays(x.mode, c)
  <2>. DEFINE closed == CloseTmpPart(x)
              kept == IF x.mode = "esc" THEN RemEscContext(closed) ELSE closed
              z == In(kept, "lex")
  <2>0. x.mode \in Growing /\ Shut(x) = EndAt(x.tmp, n) /\ x.tmp # <<>>
    BY <1>7, ModeKinds DEF Shut, Parted
  <2>1. At(closed, x.mode, x.toks, Shut(x), n)
    BY <2>0, AtClose
  <2>. HIDE DEF closed
  <2>2. At(kept, x.mode, x.toks, Shut(x), n)
    BY <2>1, AtContexts DEF At
  <2>. HIDE DEF kept
  <2>3. At(z, "lex", x.toks, Shut(x), n)
    <3>1. At(In(kept, "lex"), "lex", kept.toks, kept.tmp, kept.pos)
      BY <2>2, AtIn, "lex" \in Modes DEF At, Modes
    <3>. QED BY <2>2, <3>1 DEF At
  <2>4. /\ Good(z) /\ z.toks = x.toks /\ z.tmp = EndAt(x.tmp, n) /\ z.tmp = Shut(x)
        /\ z.pos = n
    BY <2>0, <2>3 DEF At
  <2>5. Reaches(z.tmp, z.pos, tx)
    <3>1. Len(z.tmp) = Len(x.tmp) /\ z.tmp[Len(x.tmp)].end = n
      BY <1>1, <2>0, <2>4, EndAtParts
    <3>. QED BY <1>1, <2>4, <3>1 DEF Reaches
  <2>6. CASE c \in Operators
    <3>. DEFINE out == EmitOperator(x, c)
                toks == Append(Worded(x.toks, EndAt(x.tmp, n)), Token(c, <<>>))
                last == IF x.mode = "esc" THEN "escOut" ELSE "lex"
    <3>1. y = In(out, last)
      BY <1>7, <2>6, ModeKinds DEF Step, StaysInWord
    <3>2. At(out, x.mode, toks, <<>>, n + 1)
      BY <2>6, AtOperator
    <3>3. last \in Modes /\ last \in {"lex", "escOut", "#"} /\ last # "#"
      BY DEF Modes
    <3>4. last = NextMode(x.mode, c)
      BY <1>7, <2>6, SymbolKinds, ModeKinds DEF NextMode, Stays
    <3>. HIDE DEF out, last
    <3>5. At(y, last, toks, <<>>, n + 1)
      <4>1. At(In(out, last), last, out.toks, out.tmp, out.pos)
        BY <3>2, <3>3, AtIn DEF At
      <4>. QED BY <3>1, <3>2, <4>1 DEF At
    <3>. HIDE DEF z
    <3>6. \E type \in TokTypes :
            At(y, last, Append(Worded(z.toks, z.tmp), Token(type, <<>>)), <<>>, z.pos + 1)
      BY <2>4, <2>6, <3>5 DEF TokTypes
    <3>7. SameTaken(z.toks, z.tmp, z.toks, z.tmp, z.pos, tx) /\ z.tmp \in Seq(Parts)
      BY <2>4, LexersDef DEF SameTaken, Good
    <3>8. Moved(z.toks, z.tmp, z.pos, y, tx)
      BY <2>4, <3>3, <3>6, <3>7, MovedWord
    <3>9. y.mode = last /\ y.tmp = <<>> /\ c \notin Plain
      BY <2>6, <3>5, SymbolKinds DEF At
    <3>10. Parted(y, Append(tx, c))
      BY <3>3, <3>9, ModeKinds DEF Parted, Reaches
    <3>. QED BY <2>4, <3>4, <3>8, <3>9, <3>10 DEF Turned
  <2>7. CASE c \notin Operators
    <3>1. ~StaysInWord(x, c)
      BY <1>7 DEF StaysInWord, Stays
    <3>2. y = LexNormal(z, c)
      BY <1>7, <2>7, <3>1, ModeKinds DEF Step, closed, kept
    <3>3. x.mode \notin Quotes \cup {"\"\\"} /\ x.mode # "#"
      BY <1>7, ModeKinds
    <3>. HIDE DEF z
    <3>. QED BY <1>7, <2>3, <2>5, <2>7, <3>2, <3>3, LexNormalTurns
  <2>. QED BY <2>6, <2>7
<1>8. CASE x.mode \in {"lex", "escOut"} \/ (x.mode = "#" /\ c = "\n")
  <2>. DEFINE kept == IF x.mode = "escOut" THEN RemEscContext(x) ELSE x
              z == In(kept, "lex")
  <2>1. At(kept, x.mode, x.toks, x.tmp, n)
    BY AtContexts DEF At
  <2>2. y = LexNormal(z, c)
    BY <1>8, ModeKinds DEF Step, LexEscape
  <2>. HIDE DEF kept
  <2>3. At(z, "lex", x.toks, x.tmp, n)
    <3>1. At(In(kept, "lex"), "lex", kept.toks, kept.tmp, kept.pos)
      BY <2>1, AtIn, "lex" \in Modes DEF At, Modes
    <3>. QED BY <2>1, <3>1 DEF At
  <2>. HIDE DEF z
  <2>4. Shut(x) = x.tmp
    BY <1>8, ModeKinds DEF Shut
  <2>5. Reaches(z.tmp, z.pos, tx)
    BY <1>8, <2>3 DEF Parted, Reaches, At
  <2>6. At(z, "lex", x.toks, Shut(x), x.pos)
    BY <2>3, <2>4
  <2>7. /\ x.mode \notin Quotes \cup {"\"\\"} /\ ~(x.mode = "#" /\ c # "\n") /\ ~Stays(x.mode, c)
        /\ x.mode # "esc"
    BY <1>8, ModeKinds DEF Stays
  <2>. QED BY <2>2, <2>5, <2>6, <2>7, LexNormalTurns
<1>9. x.mode \in {"word", "esc"} \/ ~Stays(x.mode, c)
  BY DEF Stays
<1>. QED BY <1>1, <1>3, <1>4, <1>5, <1>6, <1>7, <1>8, <1>9, ModeKinds DEF Growing

-----------------------------------------------------------------------------
(* What a reader of the text is inside of, one symbol and one line more. *)

\* Nothing but # begins a comment.
LEMMA TurnSilent ==
  ASSUME NEW tx, NEW ss, NEW k, NEW before, before # "#", tx[k] # "#"
  PROVE  Turn(tx, ss, k, before) # "#"
BY DEF Turn, Quotes

LEMMA TurnTellsPlainly ==
  ASSUME NEW x, x.pos \in Nat, NEW tx \in Seq(Symbols), Len(tx) = x.pos, NEW ss, NEW f,
         ToldPlainly(f, x), BoundedPlainly(f, x, tx, ss), NEW c \in Symbols, c # "\\",
         f[x.pos + 1] = Turn(Append(tx, c), ss, x.pos + 1, f[x.pos]),
         ~LineAt(ss, x.pos + 1), NEW y, y.pos = x.pos + 1, y.mode = NextMode(x.mode, c)
  PROVE  /\ ToldPlainly(f, y) /\ BoundedPlainly(f, y, Append(tx, c), ss)
         /\ c \in Plain => ((f[x.pos + 1] = "#") <=> (y.mode = "#"))
<1>. DEFINE n == x.pos
            more == Append(tx, c)
            next == f[n + 1]
<1>0. /\ more[n + 1] = c /\ (n + 1) - 1 = n /\ n + 1 # 0 /\ ((n + 1 = 1) <=> (n = 0))
      /\ n # 0 => more[n] = tx[n]
  BY AppendProperties
<1>. HIDE DEF more
<1>1. CASE x.mode \in Quotes
  <2>1. f[n] = x.mode /\ f[n] # "#"
    BY <1>1, SymbolKinds, ModeKinds DEF ToldPlainly
  <2>2. next = IF c = x.mode THEN "" ELSE x.mode
    BY <1>0, <1>1, <2>1 DEF Turn, Quotes, more
  <2>3. y.mode = IF c = x.mode THEN "lex" ELSE x.mode
    BY <1>1, ModeKinds DEF NextMode
  <2>4. ToldPlainly(f, y)
    BY <1>1, <2>2, <2>3, SymbolKinds, ModeKinds DEF ToldPlainly
  <2>5. BoundedPlainly(f, y, more, ss)
    BY <1>0, <1>1, <2>2, <2>3, SymbolKinds, ModeKinds DEF BoundedPlainly, Ends
  <2>. QED BY <1>1, <2>2, <2>3, <2>4, <2>5, SymbolKinds, ModeKinds DEF more
<1>2. CASE x.mode = "#" /\ c # "\n"
  <2>1. f[n] = "#" /\ ~LineAt(ss, n)
    BY <1>2 DEF ToldPlainly, BoundedPlainly
  <2>2. next = "#"
    BY <1>0, <1>2, <2>1 DEF Turn, more
  <2>3. y.mode = "#"
    BY <1>2, SymbolKinds, ModeKinds DEF NextMode, Stays
  <2>. QED BY <2>2, <2>3, SymbolKinds, ModeKinds DEF ToldPlainly, BoundedPlainly
<1>3. CASE x.mode = "#" /\ c = "\n"
  <2>1. f[n] = "#" /\ ~LineAt(ss, n)
    BY <1>3 DEF ToldPlainly, BoundedPlainly
  <2>2. next = ""
    BY <1>0, <1>3, <2>1 DEF Turn, more
  <2>3. y.mode = "lex"
    BY <1>3, SymbolKinds, ModeKinds DEF NextMode, Stays
  <2>4. ToldPlainly(f, y)
    BY <2>2, <2>3, SymbolKinds, ModeKinds DEF ToldPlainly
  <2>5. BoundedPlainly(f, y, more, ss)
    BY <1>0, <1>3, <2>2, <2>3, SymbolKinds, ModeKinds DEF BoundedPlainly, Ends
  <2>. QED BY <1>3, <2>4, <2>5, SymbolKinds, ModeKinds DEF more
<1>4. CASE x.mode \in {"lex", "word"}
  <2>. DEFINE begins == n = 0 \/ LineAt(ss, n) \/ tx[n] \in Ends
  <2>1. (IF LineAt(ss, n) /\ f[n] = "#" THEN "" ELSE f[n]) = ""
    BY <1>4 DEF ToldPlainly, BoundedPlainly
  <2>2. next = IF c \in Quotes THEN c ELSE IF c = "#" /\ begins THEN "#" ELSE ""
    BY <1>0, <2>1 DEF Turn, Ends, Quotes, more
  <2>3. (x.mode = "lex" => begins) /\ (x.mode = "word" => ~begins)
    BY <1>4, SymbolKinds, ModeKinds DEF BoundedPlainly
  <2>. HIDE DEF begins
  <2>4. y.mode = IF x.mode = "word" /\ c \notin Ends THEN "word"
                 ELSE IF c \in Quotes THEN c ELSE IF c \in Operators \cup Blanks THEN "lex"
                 ELSE IF c = "#" THEN "#" ELSE "word"
    BY <1>4, SymbolKinds, ModeKinds DEF NextMode, Stays, Ends
  <2>5. ToldPlainly(f, y)
    BY <1>4, <2>2, <2>3, <2>4, SymbolKinds, ModeKinds DEF ToldPlainly, Ends
  <2>6. BoundedPlainly(f, y, more, ss)
    BY <1>0, <1>4, <2>2, <2>3, <2>4, SymbolKinds, ModeKinds DEF BoundedPlainly, Ends
  <2>7. c \in Plain => next # "#" /\ y.mode = "word"
    BY <1>4, <2>2, <2>4, SymbolKinds, ModeKinds DEF Ends
  <2>. QED BY <2>5, <2>6, <2>7 DEF more
<1>. QED BY <1>1, <1>2, <1>3, <1>4 DEF ToldPlainly

LEMMA TurnTells ==
  ASSUME ~Escapes \/ ~Comments, NEW x, x.pos \in Nat, NEW tx \in Seq(Symbols),
         Len(tx) = x.pos, NEW ss, NEW f, Told(f, x), Bounded(f, x, tx, ss),
         NEW c \in Alphabet \cup {"\n"},
         f[x.pos + 1] = Turn(Append(tx, c), ss, x.pos + 1, f[x.pos]),
         ~LineAt(ss, x.pos + 1), NEW y, y.pos = x.pos + 1, y.mode = NextMode(x.mode, c)
  PROVE  /\ Told(f, y) /\ Bounded(f, y, Append(tx, c), ss)
         /\ c \in Plain => ((f[x.pos + 1] = "#") <=> (y.mode = "#"))
<1>1. c \in Symbols
  BY SymbolsType
<1>2. CASE Escapes
  <2>1. c # "#" /\ f[x.pos] # "#" /\ x.mode # "#"
    BY <1>2 DEF Comments, Told
  <2>2. f[x.pos + 1] # "#"
    <3>1. Append(tx, c)[x.pos + 1] = c /\ (x.pos + 1) - 1 = x.pos
      BY <1>1, AppendProperties
    <3>. QED BY <2>1, <3>1, TurnSilent
  <2>3. y.mode # "#"
    BY <2>1, ModeKinds DEF NextMode, Stays
  <2>. QED BY <1>2, <2>2, <2>3 DEF Told, Bounded
<1>3. CASE ~Escapes
  <2>1. c # "\\"
    BY <1>3 DEF Escapes
  <2>2. ToldPlainly(f, x) /\ BoundedPlainly(f, x, tx, ss)
    BY <1>3 DEF Told, Bounded
  <2>3. /\ ToldPlainly(f, y) /\ BoundedPlainly(f, y, Append(tx, c), ss)
        /\ c \in Plain => ((f[x.pos + 1] = "#") <=> (y.mode = "#"))
    BY <1>1, <2>1, <2>2, TurnTellsPlainly
  <2>. QED BY <1>3, <2>3 DEF Told, Bounded
<1>. QED BY <1>2, <1>3

\* The turns of a text are those of its beginning.
LEMMA TurnAlike ==
  ASSUME NEW tx, NEW more, NEW ss, NEW k, NEW b,
         more[k] = tx[k], k = 1 \/ more[k - 1] = tx[k - 1]
  PROVE  Turn(more, ss, k, b) = Turn(tx, ss, k, b)
<1>1. CASE k = 1
  BY <1>1 DEF Turn
<1>2. CASE more[k - 1] = tx[k - 1]
  BY <1>2 DEF Turn
<1>. QED BY <1>1, <1>2

LEMMA TurnEarlier ==
  ASSUME NEW tx \in Seq(Symbols), NEW c \in Symbols, NEW k \in 1..Len(tx), NEW ss, NEW b
  PROVE  Turn(Append(tx, c), ss, k, b) = Turn(tx, ss, k, b)
<1>1. \A i \in 1..Len(tx) : Append(tx, c)[i] = tx[i]
  BY AppendProperties
<1>2. k = 1 \/ k - 1 \in 1..Len(tx)
  OBVIOUS
<1>. DEFINE more == Append(tx, c)
<1>3. more[k] = tx[k] /\ (k = 1 \/ more[k - 1] = tx[k - 1])
  BY <1>1, <1>2
<1>. HIDE DEF more
<1>4. Turn(more, ss, k, b) = Turn(tx, ss, k, b)
  BY <1>3, TurnAlike
<1>. QED BY <1>4 DEF more

LEMMA TracesMore ==
  ASSUME NEW tx \in Seq(Symbols), NEW c \in Symbols, NEW ss
  PROVE  /\ \A f : Traces(f, Append(tx, c), ss) =>
              /\ Traces(f, tx, ss)
              /\ f[Len(tx) + 1] = Turn(Append(tx, c), ss, Len(tx) + 1, f[Len(tx)])
         /\ (\E f : Traces(f, tx, ss)) => \E f : Traces(f, Append(tx, c), ss)
<1>. DEFINE n == Len(tx)
            more == Append(tx, c)
<1>1. Len(more) = n + 1 /\ n \in Nat /\ (n + 1) - 1 = n
  BY AppendProperties
<1>2. \A k \in 1..n : \A b : Turn(more, ss, k, b) = Turn(tx, ss, k, b)
  BY TurnEarlier
<1>. HIDE DEF more
<1>3. ASSUME NEW f, Traces(f, more, ss)
      PROVE  Traces(f, tx, ss) /\ f[n + 1] = Turn(more, ss, n + 1, f[n])
  <2>1. f[0] = "" /\ \A k \in 1..(n + 1) : f[k] = Turn(more, ss, k, f[k - 1])
    BY <1>1, <1>3 DEF Traces
  <2>2. ASSUME NEW k \in 1..n PROVE f[k] = Turn(tx, ss, k, f[k - 1])
    <3>1. k \in 1..(n + 1)
      BY <1>1
    <3>2. f[k] = Turn(more, ss, k, f[k - 1])
      BY <2>1, <3>1
    <3>3. Turn(more, ss, k, f[k - 1]) = Turn(tx, ss, k, f[k - 1])
      BY <1>2
    <3>. QED BY <3>2, <3>3
  <2>3. n + 1 \in 1..(n + 1)
    BY <1>1
  <2>4. f[n + 1] = Turn(more, ss, n + 1, f[(n + 1) - 1])
    BY <2>1, <2>3
  <2>5. f[n + 1] = Turn(more, ss, n + 1, f[n])
    BY <1>1, <2>4
  <2>. QED BY <2>1, <2>2, <2>5 DEF Traces
<1>4. ASSUME NEW f, Traces(f, tx, ss) PROVE \E g : Traces(g, more, ss)
  <2>. DEFINE last == Turn(more, ss, n + 1, f[n])
              g == [k \in 0..(n + 1) |-> IF k = n + 1 THEN last ELSE f[k]]
  <2>. HIDE DEF last
  <2>0. f[0] = ""
    BY <1>4 DEF Traces
  <2>1. g[0] = "" /\ g[n + 1] = last /\ \A k \in 0..n : g[k] = f[k]
    <3>1. 0 \in 0..(n + 1) /\ n + 1 \in 0..(n + 1) /\ 0 # n + 1
          /\ \A k \in 0..n : k \in 0..(n + 1) /\ k # n + 1
      BY <1>1
    <3>. HIDE DEF n
    <3>. QED BY <2>0, <3>1
  <2>. HIDE DEF g
  <2>2. ASSUME NEW k \in 1..(n + 1) PROVE g[k] = Turn(more, ss, k, g[k - 1])
    <3>1. CASE k = n + 1
      <4>0. k - 1 = n /\ n \in 0..n
        BY <1>1, <3>1
      <4>1. g[k - 1] = f[n]
        BY <2>1, <4>0
      <4>. QED BY <1>1, <2>1, <3>1, <4>1 DEF last
    <3>2. CASE k # n + 1
      <4>1. k \in 1..n /\ k \in 0..n /\ k - 1 \in 0..n
        BY <1>1, <3>2
      <4>2. g[k] = f[k] /\ g[k - 1] = f[k - 1]
        BY <2>1, <4>1
      <4>3. f[k] = Turn(tx, ss, k, f[k - 1])
        BY <1>4, <4>1 DEF Traces
      <4>. QED BY <1>2, <4>1, <4>2, <4>3
    <3>. QED BY <3>1, <3>2
  <2>3. Traces(g, more, ss)
    BY <1>1, <2>1, <2>2 DEF Traces
  <2>. QED BY <2>3
<1>. QED BY <1>3, <1>4 DEF more

\* A line that begins behind the text does not change what was read.
LEMMA TracesLine ==
  ASSUME NEW tx \in Seq(Symbols), NEW ss \in Seq(Nat), NEW m \in Nat, Len(tx) <= m
  PROVE  /\ \A f : Traces(f, tx, Append(ss, m)) <=> Traces(f, tx, ss)
         /\ LineAt(Append(ss, m), m)
<1>. DEFINE more == Append(ss, m)
<1>1. /\ Len(more) = Len(ss) + 1 /\ more[Len(ss) + 1] = m /\ Len(ss) \in Nat
      /\ \A j \in 1..Len(ss) : more[j] = ss[j]
  BY AppendProperties
<1>. HIDE DEF more
<1>2. ASSUME NEW k \in 1..Len(tx)
      PROVE  LineAt(more, k - 1) <=> LineAt(ss, k - 1)
  BY <1>1 DEF LineAt
<1>3. ASSUME NEW k \in 1..Len(tx), NEW b
      PROVE  Turn(tx, more, k, b) = Turn(tx, ss, k, b)
  BY <1>2 DEF Turn
<1>4. LineAt(more, m)
  BY <1>1 DEF LineAt
<1>. QED BY <1>3, <1>4 DEF Traces, more

-----------------------------------------------------------------------------
(* The text that was read. *)

\* What holds of a text whose lines were read, and while symbols are added to it.
ReadSoFar(x, tx, ss) ==
  /\ Good(x) /\ tx \in Seq(Symbols) /\ Len(tx) = x.pos
  /\ Parted(x, tx) /\ Short(x.toks, x.tmp, x.pos)
  /\ ss \in Seq(Nat) /\ \A j \in 1..Len(ss) : ss[j] <= x.pos
  /\ \E f : Traces(f, tx, ss)
  /\ \A f : Traces(f, tx, ss) => Told(f, x) /\ Cover(f, x, tx)
Reading(x, tx, ss) ==
  ReadSoFar(x, tx, ss) /\ \A f : Traces(f, tx, ss) => Bounded(f, x, tx, ss)

\* Parts that take the same symbols cover the same.
LEMMA SameCover ==
  ASSUME NEW x, NEW y, NEW n \in Nat, NEW tx, SameTaken(x.toks, Shut(x), y.toks, Shut(y), n, tx),
         NEW k \in 1..n, tx[k] \in Plain
  PROVE  /\ Free(x, k) => Free(y, k)
         /\ TakenOnce(x, k) => TakenOnce(y, k)
<1>1. \A t, p : Takes(x.toks, Shut(x), t, p, k) <=> Takes(y.toks, Shut(y), t, p, k)
  BY DEF SameTaken
<1>. QED BY <1>1 DEF Free, TakenOnce

LEMMA CoverKept ==
  ASSUME NEW x, NEW y, NEW f, NEW tx \in Seq(Symbols), Cover(f, x, tx),
         SameTaken(x.toks, Shut(x), y.toks, Shut(y), Len(tx), tx)
  PROVE  Cover(f, y, tx)
BY SameCover DEF Cover

LEMMA CoverMore ==
  ASSUME NEW y, NEW f, NEW tx \in Seq(Symbols), Cover(f, y, tx), NEW c \in Symbols,
         c \in Plain => IF f[Len(tx) + 1] = "#" THEN Free(y, Len(tx) + 1)
                        ELSE TakenOnce(y, Len(tx) + 1)
  PROVE  Cover(f, y, Append(tx, c))
<1>. DEFINE more == Append(tx, c)
            n == Len(tx)
<1>1. /\ Len(more) = n + 1 /\ more[n + 1] = c /\ n \in Nat
      /\ \A k \in 1..n : more[k] = tx[k]
  BY AppendProperties
<1>. HIDE DEF more
<1>2. ASSUME NEW k \in 1..(n + 1), more[k] \in Plain
      PROVE  IF f[k] = "#" THEN Free(y, k) ELSE TakenOnce(y, k)
  <2>1. CASE k \in 1..n
    BY <1>1, <1>2, <2>1 DEF Cover
  <2>2. CASE k = n + 1
    BY <1>1, <1>2, <2>2
  <2>. QED BY <1>1, <2>1, <2>2
<1>3. Cover(f, y, more)
  BY <1>1, <1>2 DEF Cover
<1>. QED BY <1>3 DEF more

\* One symbol more.
LEMMA ReadStep ==
  ASSUME ~Escapes \/ ~Comments, NEW x, NEW tx, NEW ss, Reading(x, tx, ss),
         NEW c \in Alphabet \cup {"\n"}
  PROVE  Reading(Step(x, c), Append(tx, c), ss)
<1>. DEFINE y == Step(x, c)
            n == x.pos
            more == Append(tx, c)
<1>1. /\ Good(x) /\ tx \in Seq(Symbols) /\ Len(tx) = n /\ n \in Nat /\ Parted(x, tx)
      /\ Short(x.toks, x.tmp, n)
      /\ ss \in Seq(Nat) /\ (\A j \in 1..Len(ss) : ss[j] <= n) /\ (\E f : Traces(f, tx, ss))
      /\ \A f : Traces(f, tx, ss) => /\ Told(f, x) /\ Cover(f, x, tx)
                                     /\ Bounded(f, x, tx, ss)
  BY LexersDef DEF Reading, ReadSoFar, Good
<1>2. c \in Symbols /\ Turned(x, y, c, tx)
  BY <1>1, StepTurns, SymbolsType
<1>. HIDE DEF y
<1>3. /\ Good(y) /\ y.pos = n + 1 /\ y.mode = NextMode(x.mode, c) /\ Parted(y, more)
      /\ SameTaken(x.toks, Shut(x), y.toks, Shut(y), n, tx)
      /\ Short(x.toks, Shut(x), n) => Short(y.toks, y.tmp, n + 1)
  BY <1>2 DEF Turned, Moved
<1>4. c \in Plain => IF y.mode = "#" THEN Free(y, n + 1) ELSE TakenOnce(y, n + 1)
  BY <1>2 DEF Turned
<1>5. Short(y.toks, y.tmp, n + 1)
  <2>1. x.tmp \in Seq(Parts)
    BY <1>1, LexersDef DEF Good
  <2>2. Len(Shut(x)) = Len(x.tmp)
    BY <1>1, <2>1, EndAtParts DEF Shut
  <2>3. Short(x.toks, Shut(x), n)
    BY <1>1, <2>2 DEF Short
  <2>. QED BY <1>3, <2>3
<1>6. more \in Seq(Symbols) /\ Len(more) = n + 1
  BY <1>1, <1>2, AppendProperties
<1>7. ~LineAt(ss, n + 1) /\ \A j \in 1..Len(ss) : ss[j] <= n + 1
  <2>1. \A j \in 1..Len(ss) : ss[j] # n + 1
    BY <1>1
  <2>2. ASSUME NEW j \in 1..Len(ss) PROVE ss[j] <= n + 1
    <3>1. ss[j] \in Nat /\ ss[j] <= n
      BY <1>1
    <3>. QED BY <1>1, <3>1
  <2>. QED BY <2>1, <2>2 DEF LineAt
<1>8. \E f : Traces(f, more, ss)
  BY <1>1, <1>2, TracesMore
<1>9. ASSUME NEW f, Traces(f, more, ss)
      PROVE  Told(f, y) /\ Cover(f, y, more) /\ Bounded(f, y, more, ss)
  <2>1. Traces(f, tx, ss) /\ f[n + 1] = Turn(more, ss, n + 1, f[n])
    BY <1>1, <1>2, <1>9, TracesMore
  <2>2. Told(f, x) /\ Cover(f, x, tx) /\ Bounded(f, x, tx, ss)
    BY <1>1, <2>1
  <2>3. /\ Told(f, y) /\ Bounded(f, y, more, ss)
        /\ c \in Plain => ((f[n + 1] = "#") <=> (y.mode = "#"))
    BY <1>1, <1>3, <1>7, <2>1, <2>2, TurnTells
  <2>4. Cover(f, y, tx)
    BY <1>1, <1>3, <2>2, CoverKept
  <2>5. c \in Plain => IF f[n + 1] = "#" THEN Free(y, n + 1) ELSE TakenOnce(y, n + 1)
    BY <1>4, <2>3
  <2>6. Cover(f, y, more)
    BY <1>1, <1>2, <2>4, <2>5, CoverMore
  <2>. QED BY <2>3, <2>6
<1>10. ReadSoFar(y, more, ss)
  BY <1>1, <1>3, <1>5, <1>6, <1>7, <1>8, <1>9 DEF ReadSoFar
<1>11. Reading(y, more, ss)
  BY <1>9, <1>10 DEF Reading
<1>. QED BY <1>11 DEF y, more

\* A line ends: the word does, if it is not in quotes.
LEMMA EndChunkTaken ==
  ASSUME NEW x, Good(x), IsNormal(x), NEW t \in BOOLEAN, NEW y,
         y = EndChunk(x, t)
  PROVE  /\ Good(y) /\ y.mode = "lex" /\ y.tmp = <<>> /\ y.pos = x.pos
         /\ \A tx : SameTaken(x.toks, Shut(x), y.toks, <<>>, x.pos, tx)
         /\ Short(x.toks, x.tmp, x.pos) => Short(y.toks, <<>>, x.pos)
<1>. DEFINE n == x.pos
            closed == IF x.mode \in {"word", "esc"} THEN CloseTmpPart(x) ELSE x
            emitted == WordEmit(closed)
            word == In(emitted, "lex")
            newline == IF t THEN Emit(word, "NEWLINE") ELSE word
            toks == Worded(x.toks, Shut(x))
            Kept(z) == /\ Good(z) /\ z.mode = "lex" /\ z.tmp = <<>> /\ z.pos = n
                       /\ \A tx : SameTaken(x.toks, Shut(x), z.toks, <<>>, n, tx)
                       /\ Short(x.toks, x.tmp, n) => Short(z.toks, <<>>, n)
<1>1. /\ x.toks \in Seq(Tokens) /\ x.tmp \in Seq(Parts) /\ n \in Nat
      /\ Shut(x) \in Seq(Parts) /\ Len(Shut(x)) = Len(x.tmp)
  BY LexersDef, EndAtParts DEF Good, Shut
<1>2. x.mode \notin Quotes \cup {"esc", "escOut", "\"\\"}
  BY ModeKinds DEF IsNormal
<1>3. y = IF newline.ctxs = <<>> THEN Emit(newline, "EOF") ELSE newline
  BY <1>2 DEF EndChunk
<1>4. At(closed, x.mode, x.toks, Shut(x), n)
  BY <1>2, AtClose, ModeKinds DEF At, Shut, IsNormal
<1>. HIDE DEF closed
<1>5. At(emitted, x.mode, toks, <<>>, n)
  BY <1>4, AtWord DEF At
<1>. HIDE DEF emitted
<1>6. At(word, "lex", toks, <<>>, n)
  <2>1. At(In(emitted, "lex"), "lex", emitted.toks, emitted.tmp, emitted.pos)
    BY <1>5, AtIn, "lex" \in Modes DEF At, Modes
  <2>. QED BY <1>5, <2>1 DEF At
<1>. HIDE DEF word
<1>7. Kept(word)
  <2>1. \A tx : SameTaken(x.toks, Shut(x), toks, <<>>, n, tx)
    BY <1>1, WordTaken
  <2>2. Short(x.toks, x.tmp, n) => Short(toks, <<>>, n)
    <3>. SUFFICES ASSUME Short(x.toks, x.tmp, n) PROVE Short(toks, <<>>, n)
      OBVIOUS
    <3>1. Short(x.toks, Shut(x), n)
      BY <1>1 DEF Short
    <3>. QED BY <1>1, <3>1, ShortWorded
  <2>. QED BY <1>6, <2>1, <2>2 DEF At
<1>8. ASSUME NEW z, Kept(z), NEW type \in TokTypes PROVE Kept(Emit(z, type))
  <2>. DEFINE next == Emit(z, type)
              more == Append(z.toks, Token(type, <<>>))
  <2>1. At(next, "lex", more, <<>>, n) /\ z.toks \in Seq(Tokens)
    BY <1>8, AtEmit, LexersDef DEF At, Good
  <2>. HIDE DEF next
  <2>2. <<>> \in Seq(Parts)
    OBVIOUS
  <2>3. \A i, p, k : Takes(more, <<>>, i, p, k) <=> Takes(z.toks, <<>>, i, p, k)
    BY <2>1, <2>2, TakesToken
  <2>4. Short(z.toks, <<>>, n) => Short(more, <<>>, n)
    <3>. DEFINE none == <<>>
    <3>1. none \in Seq(Parts) /\ 0 <= n /\ z.toks \in Seq(Tokens)
      BY <1>1, <2>1
    <3>. HIDE DEF none, n
    <3>2. Short(z.toks, none, n) => Short(Append(z.toks, Token(type, none)), <<>>, n)
      BY <3>1, ShortToken
    <3>. QED BY <3>2 DEF none
  <2>. HIDE DEF more
  <2>5. \A tx : SameTaken(z.toks, <<>>, more, <<>>, n, tx)
    BY <2>3 DEF SameTaken
  <2>6. \A tx : SameTaken(x.toks, Shut(x), more, <<>>, n, tx)
    BY <1>8, <2>5, SameTakenTwice
  <2>. QED BY <1>8, <2>1, <2>4, <2>6 DEF At, next
<1>. HIDE DEF Kept
<1>9. Kept(newline)
  BY <1>7, <1>8, "NEWLINE" \in TokTypes DEF TokTypes
<1>. HIDE DEF newline
<1>10. Kept(y)
  BY <1>3, <1>8, <1>9, "EOF" \in TokTypes DEF TokTypes
<1>. QED BY <1>10 DEF Kept

\* In quotes or behind a backslash a line ends, but not the word.
LEMMA EndChunkKeeps ==
  ASSUME NEW x, Good(x), ~IsNormal(x), NEW tx, Parted(x, tx), NEW t \in BOOLEAN, NEW y,
         y = EndChunk(x, t)
  PROVE  /\ Good(y) /\ y.mode \in Resting /\ y.mode # "lex" /\ y.pos = x.pos
         /\ x.mode \in Quotes => y.mode = x.mode
         /\ y.toks = x.toks /\ Len(y.tmp) = Len(x.tmp) /\ Shut(y) = Shut(x) /\ Parted(y, tx)
<1>. DEFINE n == x.pos
<1>0. /\ x.toks \in Seq(Tokens) /\ x.tmp \in Seq(Parts) /\ n \in Nat
      /\ Len(x.tmp) \in Nat /\ x.mode \in Modes
  BY LexersDef DEF Good
<1>1. CASE x.mode \in Quotes
  <2>1. y = x
    BY <1>1, ModeKinds DEF EndChunk
  <2>. QED BY <1>1, <2>1, ModeKinds DEF Resting
<1>2. CASE x.mode = "\"\\"
  <2>1. y = In(x, "\"")
    BY <1>2, ModeKinds DEF EndChunk
  <2>2. "\"" \in Quotes /\ "\"" \in Modes
    BY DEF Quotes, Modes
  <2>3. At(y, "\"", x.toks, x.tmp, n)
    BY <2>1, <2>2, AtIn
  <2>4. x.tmp # <<>>
    BY <1>2, ModeKinds DEF Parted
  <2>5. Shut(y) = Shut(x)
    BY <1>2, <2>2, <2>3, ModeKinds DEF Shut, At
  <2>6. Parted(y, tx)
    BY <2>2, <2>3, <2>4, ModeKinds DEF Parted, At
  <2>. QED BY <1>2, <2>2, <2>3, <2>5, <2>6, ModeKinds DEF At, Resting
<1>3. CASE x.mode \in {"esc", "escOut"}
  <2>. DEFINE closed == IF x.mode \in {"word", "esc"} THEN CloseTmpPart(x) ELSE x
              add == AddContext(closed, "\\")
  <2>1. At(closed, x.mode, x.toks, Shut(x), n)
    BY <1>3, AtClose, ModeKinds DEF At, Shut
  <2>2. y = In(add, "escOut")
    BY <1>3 DEF EndChunk
  <2>. HIDE DEF closed
  <2>3. At(add, x.mode, x.toks, Shut(x), n)
    BY <2>1, AtContexts, "\\" \in Contexts DEF At, Contexts
  <2>. HIDE DEF add
  <2>4. At(y, "escOut", x.toks, Shut(x), n)
    <3>1. At(In(add, "escOut"), "escOut", add.toks, add.tmp, add.pos)
      BY <2>3, AtIn, "escOut" \in Modes DEF At, Modes
    <3>. QED BY <2>2, <2>3, <3>1 DEF At
  <2>5. Shut(y) = Shut(x) /\ y.tmp = Shut(x)
    BY <2>4, ModeKinds DEF Shut, At
  <2>6. Len(Shut(x)) = Len(x.tmp) /\ Reaches(Shut(x), n, tx)
    <3>1. CASE x.mode = "esc"
      <4>1. Shut(x) = EndAt(x.tmp, n) /\ x.tmp # <<>>
        BY <3>1, ModeKinds DEF Shut, Parted
      <4>2. Len(Shut(x)) = Len(x.tmp) /\ Shut(x)[Len(x.tmp)].end = n
        BY <1>0, <4>1, EndAtParts
      <4>. QED BY <1>0, <4>2 DEF Reaches
    <3>2. CASE x.mode = "escOut"
      BY <3>2, ModeKinds DEF Shut, Parted
    <3>. QED BY <1>3, <3>1, <3>2
  <2>7. Parted(y, tx)
    BY <2>4, <2>5, <2>6, ModeKinds DEF Parted, At
  <2>. QED BY <1>3, <2>4, <2>5, <2>6, <2>7, ModeKinds DEF At, Resting
<1>. QED BY <1>0, <1>1, <1>2, <1>3 DEF IsNormal, Modes, Quotes

LEMMA EndChunkRead ==
  ASSUME NEW x, NEW tx, NEW ss, ReadSoFar(x, tx, ss), NEW t \in BOOLEAN, NEW y,
         y = EndChunk(x, t)
  PROVE  ReadSoFar(y, tx, ss) /\ y.mode \in Resting
<1>1. /\ Good(x) /\ tx \in Seq(Symbols) /\ Len(tx) = x.pos /\ Parted(x, tx)
      /\ Short(x.toks, x.tmp, x.pos)
      /\ \A f : Traces(f, tx, ss) => Told(f, x) /\ Cover(f, x, tx)
  BY DEF ReadSoFar
<1>2. CASE ~IsNormal(x)
  <2>1. /\ Good(y) /\ y.mode \in Resting /\ y.mode # "lex" /\ y.pos = x.pos
        /\ x.mode \in Quotes => y.mode = x.mode
        /\ y.toks = x.toks /\ Len(y.tmp) = Len(x.tmp) /\ Shut(y) = Shut(x) /\ Parted(y, tx)
    BY <1>1, <1>2, EndChunkKeeps
  <2>2. Short(y.toks, y.tmp, y.pos)
    BY <1>1, <2>1 DEF Short
  <2>3. ASSUME NEW f, Traces(f, tx, ss) PROVE Told(f, y) /\ Cover(f, y, tx)
    <3>1. Told(f, x) /\ Cover(f, x, tx)
      BY <1>1, <2>3
    <3>2. Told(f, y)
      <4>1. CASE Escapes
        BY <2>1, <3>1, <4>1, ModeKinds DEF Told, Resting
      <4>2. CASE ~Escapes
        <5>1. ToldPlainly(f, x)
          BY <3>1, <4>2 DEF Told
        <5>2. y.mode = x.mode
          BY <1>2, <2>1, <5>1 DEF ToldPlainly, IsNormal
        <5>. QED BY <2>1, <4>2, <5>1, <5>2 DEF Told, ToldPlainly
      <4>. QED BY <4>1, <4>2
    <3>3. SameTaken(x.toks, Shut(x), y.toks, Shut(y), Len(tx), tx)
      BY <2>1 DEF SameTaken
    <3>4. Cover(f, y, tx)
      BY <1>1, <3>1, <3>3, CoverKept
    <3>. QED BY <3>2, <3>4
  <2>. QED BY <1>1, <2>1, <2>2, <2>3 DEF ReadSoFar
<1>3. CASE IsNormal(x)
  <2>1. /\ Good(y) /\ y.mode = "lex" /\ y.tmp = <<>> /\ y.pos = x.pos
        /\ SameTaken(x.toks, Shut(x), y.toks, <<>>, x.pos, tx)
        /\ Short(y.toks, <<>>, x.pos)
    BY <1>1, <1>3, EndChunkTaken
  <2>2. Shut(y) = <<>>
    BY <2>1, ModeKinds DEF Shut
  <2>3. Parted(y, tx)
    BY <2>1, ModeKinds DEF Parted, Reaches
  <2>4. ASSUME NEW f, Traces(f, tx, ss) PROVE Told(f, y) /\ Cover(f, y, tx)
    <3>1. Told(f, x) /\ Cover(f, x, tx)
      BY <1>1, <2>4
    <3>2. Told(f, y)
      BY <1>3, <2>1, <3>1, ModeKinds DEF Told, ToldPlainly, IsNormal
    <3>3. Cover(f, y, tx)
      BY <1>1, <2>1, <2>2, <3>1, CoverKept
    <3>. QED BY <3>2, <3>3
  <2>. QED BY <1>1, <2>1, <2>3, <2>4 DEF ReadSoFar, Resting
<1>. QED BY <1>2, <1>3

\* The newline that is put back into a quote.
LEMMA PendingRead ==
  ASSUME NEW x, NEW tx, NEW ss, ReadSoFar(x, tx, ss), x.mode \in Quotes \cup {"escOut"}
  PROVE  /\ ReadSoFar(PendingNewline(x), Append(tx, "\n"), ss)
         /\ PendingNewline(x).mode \in Resting /\ PendingNewline(x).pos = x.pos + 1
<1>. DEFINE y == PendingNewline(x)
            n == x.pos
            c == "\n"
            more == Append(tx, c)
<1>1. /\ Good(x) /\ tx \in Seq(Symbols) /\ Len(tx) = n /\ n \in Nat /\ Parted(x, tx)
      /\ Short(x.toks, x.tmp, n)
      /\ ss \in Seq(Nat) /\ (\A j \in 1..Len(ss) : ss[j] <= n) /\ (\E f : Traces(f, tx, ss))
      /\ \A f : Traces(f, tx, ss) => Told(f, x) /\ Cover(f, x, tx)
  BY LexersDef DEF ReadSoFar, Good
<1>2. At(y, x.mode, x.toks, x.tmp, n + 1)
  BY <1>1, AtAdvance DEF PendingNewline
<1>3. c \in Symbols /\ c \notin Plain /\ c \notin Quotes /\ c \notin {"\\", "#"}
  BY DEF Symbols, Blanks, Plain, Quotes
<1>. HIDE DEF y, c
<1>4. /\ Good(y) /\ y.pos = n + 1 /\ y.mode = x.mode /\ y.toks = x.toks /\ y.tmp = x.tmp
  BY <1>2 DEF At
<1>5. SameTaken(x.toks, Shut(x), y.toks, Shut(y), n, tx)
  <2>1. CASE x.mode \in Quotes
    <3>1. x.mode \in Growing /\ x.tmp # <<>>
      BY <1>1, <2>1, ModeKinds DEF Parted
    <3>2. Moved(x.toks, Shut(x), n, y, tx)
      BY <1>1, <1>2, <3>1, ContinueTakes
    <3>. QED BY <3>2 DEF Moved
  <2>2. CASE x.mode = "escOut"
    <3>1. Shut(x) = x.tmp /\ Shut(y) = x.tmp
      BY <1>4, <2>2, ModeKinds DEF Shut
    <3>. QED BY <1>4, <3>1 DEF SameTaken
  <2>. QED BY <2>1, <2>2
<1>6. more \in Seq(Symbols) /\ Len(more) = n + 1 /\ more[n + 1] = c
  BY <1>1, <1>3, AppendProperties
<1>7. Short(y.toks, y.tmp, n + 1) /\ \A j \in 1..Len(ss) : ss[j] <= n + 1
  <2>1. x.toks \in Seq(Tokens) /\ x.tmp \in Seq(Parts)
    BY <1>1, LexersDef DEF Good
  <2>2. Short(x.toks, x.tmp, n + 1)
    BY <1>1, <2>1, ShortLater
  <2>3. ASSUME NEW j \in 1..Len(ss) PROVE ss[j] <= n + 1
    <3>1. ss[j] \in Nat /\ ss[j] <= n
      BY <1>1
    <3>. QED BY <1>1, <3>1
  <2>. QED BY <1>4, <2>2, <2>3
<1>8. \E f : Traces(f, more, ss)
  BY <1>1, <1>3, TracesMore
<1>9. ASSUME NEW f, Traces(f, more, ss) PROVE Told(f, y) /\ Cover(f, y, more)
  <2>1. Traces(f, tx, ss) /\ f[n + 1] = Turn(more, ss, n + 1, f[n])
    <3>1. tx \in Seq(Symbols) /\ c \in Symbols /\ Len(tx) = n
      BY <1>1, <1>3
    <3>. QED BY <1>9, <3>1, TracesMore
  <2>2. Told(f, x) /\ Cover(f, x, tx)
    BY <1>1, <2>1
  <2>3. Told(f, y)
    <3>1. CASE Escapes
      <4>1. f[n] # "#" /\ x.mode # "#"
        BY <2>2, <3>1 DEF Told
      <4>2. more[n + 1] # "#"
        BY <1>3, <1>6
      <4>3. f[n + 1] # "#"
        BY <2>1, <4>1, <4>2, TurnSilent
      <4>. QED BY <1>4, <3>1, <4>1, <4>3 DEF Told
    <3>2. CASE ~Escapes
      <4>1. f[n] = x.mode /\ x.mode \in Quotes
        BY <2>2, <3>2, ModeKinds DEF Told, ToldPlainly
      <4>2. f[n + 1] = x.mode
        BY <1>1, <1>3, <1>6, <2>1, <4>1 DEF Turn, Quotes
      <4>. QED BY <1>4, <3>2, <4>1, <4>2, ModeKinds DEF Told, ToldPlainly
    <3>. QED BY <3>1, <3>2
  <2>4. Cover(f, y, tx)
    BY <1>1, <1>5, <2>2, CoverKept
  <2>5. Cover(f, y, more)
    BY <1>1, <1>3, <2>4, CoverMore
  <2>. QED BY <2>3, <2>5
<1>10. Parted(y, more)
  <2>1. CASE x.mode \in Quotes
    BY <1>1, <1>4, <2>1, ModeKinds DEF Parted
  <2>2. CASE x.mode = "escOut"
    <3>1. \A k \in 1..n : more[k] = tx[k]
      BY <1>1, <1>3, AppendProperties
    <3>2. ASSUME NEW k \in 1..(n + 1), more[k] \in Plain PROVE k \in 1..n /\ tx[k] \in Plain
      BY <1>1, <1>3, <1>6, <3>1, <3>2
    <3>3. Reaches(x.tmp, n, tx)
      BY <1>1, <2>2 DEF Parted
    <3>4. Reaches(x.tmp, n + 1, more)
      BY <3>2, <3>3 DEF Reaches
    <3>. QED BY <1>4, <2>2, <3>4, ModeKinds DEF Parted
  <2>. QED BY <2>1, <2>2
<1>11. ReadSoFar(y, more, ss)
  BY <1>4, <1>6, <1>7, <1>8, <1>9, <1>10 DEF ReadSoFar
<1>. QED BY <1>4, <1>11 DEF y, c, more, Resting

\* A line begins.
LEMMA NewLineRead ==
  ASSUME NEW x, NEW tx, NEW ss, ReadSoFar(x, tx, ss),
         x.mode \in Resting, NEW y, y = BeginChunk(x)
  PROVE  Reading(y, tx, Append(ss, y.pos))
<1>. DEFINE n == x.pos
            more == Append(ss, n)
<1>1. /\ Good(x) /\ tx \in Seq(Symbols) /\ Len(tx) = n /\ n \in Nat /\ Parted(x, tx)
      /\ Short(x.toks, x.tmp, n)
      /\ ss \in Seq(Nat) /\ (\A j \in 1..Len(ss) : ss[j] <= n) /\ (\E f : Traces(f, tx, ss))
      /\ \A f : Traces(f, tx, ss) => Told(f, x) /\ Cover(f, x, tx)
  BY LexersDef DEF ReadSoFar, Good
<1>2. /\ Good(y) /\ y.mode = x.mode /\ y.toks = x.toks /\ y.tmp = x.tmp /\ y.pos = n
  <2>1. x \in Lexers
    BY <1>1 DEF Good
  <2>. QED BY <1>1, <2>1, BeginChunkGood DEF GoodAt, BeginChunk, Lexers
<1>3. (\A f : Traces(f, tx, more) <=> Traces(f, tx, ss)) /\ LineAt(more, n)
  BY <1>1, TracesLine
<1>4. more \in Seq(Nat) /\ \A j \in 1..Len(more) : more[j] <= n
  <2>1. /\ more \in Seq(Nat) /\ Len(more) = Len(ss) + 1 /\ more[Len(ss) + 1] = n /\ Len(ss) \in Nat
        /\ \A j \in 1..Len(ss) : more[j] = ss[j]
    BY <1>1, AppendProperties
  <2>. HIDE DEF more
  <2>2. ASSUME NEW j \in 1..(Len(ss) + 1) PROVE more[j] <= n
    <3>1. CASE j \in 1..Len(ss)
      BY <1>1, <2>1, <3>1
    <3>2. CASE j = Len(ss) + 1
      BY <1>1, <2>1, <3>2
    <3>. QED BY <2>1, <3>1, <3>2
  <2>. QED BY <2>1, <2>2
<1>. HIDE DEF more
<1>5. Shut(y) = Shut(x)
  BY <1>2 DEF Shut
<1>6. ASSUME NEW f, Traces(f, tx, more)
      PROVE  Told(f, y) /\ Cover(f, y, tx) /\ Bounded(f, y, tx, more)
  <2>1. Told(f, x) /\ Cover(f, x, tx)
    BY <1>1, <1>3, <1>6
  <2>2. Told(f, y)
    BY <1>2, <2>1 DEF Told, ToldPlainly
  <2>3. Cover(f, y, tx)
    <3>1. SameTaken(x.toks, Shut(x), y.toks, Shut(y), Len(tx), tx)
      BY <1>2, <1>5 DEF SameTaken
    <3>. QED BY <1>1, <2>1, <3>1, CoverKept
  <2>4. Bounded(f, y, tx, more)
    <3>1. CASE Escapes
      BY <1>2, <3>1 DEF Bounded
    <3>2. CASE ~Escapes
      <4>1. y.mode \notin {"word", "#"}
        BY <1>2, ModeKinds DEF Resting
      <4>. QED BY <1>2, <1>3, <3>2, <4>1 DEF Bounded, BoundedPlainly
    <3>. QED BY <3>1, <3>2
  <2>. QED BY <2>2, <2>3, <2>4
<1>7. Parted(y, tx) /\ Short(y.toks, y.tmp, n)
  BY <1>1, <1>2 DEF Parted
<1>8. Reading(y, tx, more)
  BY <1>1, <1>2, <1>3, <1>4, <1>6, <1>7 DEF Reading, ReadSoFar
<1>. QED BY <1>2, <1>8 DEF more

-----------------------------------------------------------------------------
(* Nothing is lost. *)

LossInv ==
  /\ ReadSoFar(lx, text, starts)
  /\ status = "typing" => Reading(lx, text, starts)
  /\ status # "typing" => lx.mode \in Resting

LEMMA LossInit == Init => LossInv
<1>. SUFFICES ASSUME Init PROVE LossInv
  OBVIOUS
<1>1. /\ Good(NewLexer) /\ NewLexer \in Lexers /\ NewLexer.pos = 0 /\ NewLexer.toks = <<>>
      /\ NewLexer.mode = "lex" /\ NewLexer.tmp = <<>>
  BY NewLexerGood DEF Good, NewLexer
<1>2. /\ Good(lx) /\ lx.pos = 0 /\ lx.toks = <<>> /\ lx.mode = "lex" /\ lx.tmp = <<>>
  BY <1>1, BeginChunkGood, SameContexts DEF Init, GoodAt, BeginChunk, Lexers
<1>3. text = <<>> /\ starts = <<0>> /\ status = "typing"
  BY DEF Init
<1>4. /\ text \in Seq(Symbols) /\ Len(text) = 0
      /\ starts \in Seq(Nat) /\ Len(starts) = 1 /\ starts[1] = 0
  BY <1>3
<1>5. Parted(lx, text) /\ Short(lx.toks, lx.tmp, 0)
  BY <1>2 DEF Parted, Reaches, Growing, Quotes, Short
<1>6. \A f : Traces(f, text, starts) <=> f[0] = ""
  BY <1>4 DEF Traces
<1>7. \E f : Traces(f, text, starts)
  <2>1. [k \in {0} |-> ""][0] = ""
    OBVIOUS
  <2>. QED BY <1>6, <2>1
<1>8. ASSUME NEW f, Traces(f, text, starts)
      PROVE  Told(f, lx) /\ Cover(f, lx, text) /\ Bounded(f, lx, text, starts)
  <2>1. Told(f, lx)
    BY <1>2, <1>6, <1>8 DEF Told, ToldPlainly, Quotes
  <2>2. Cover(f, lx, text)
    BY <1>4 DEF Cover
  <2>3. LineAt(starts, 0)
    BY <1>4 DEF LineAt
  <2>4. Bounded(f, lx, text, starts)
    BY <1>2, <2>3 DEF Bounded, BoundedPlainly, Resting
  <2>. QED BY <2>1, <2>2, <2>4
<1>9. \A j \in 1..Len(starts) : starts[j] <= lx.pos
  BY <1>2, <1>4
<1>10. ReadSoFar(lx, text, starts)
  BY <1>2, <1>4, <1>5, <1>7, <1>8, <1>9 DEF ReadSoFar
<1>. QED BY <1>3, <1>8, <1>10 DEF LossInv, Reading

\* What run_lexer leaves of a line.
LEMMA LexedRead ==
  ASSUME ~Escapes \/ ~Comments, FrontInv, LossInv, status = "typing"
  PROVE  ReadSoFar(Lexed, LexedText, starts) /\ Lexed.mode \in Resting
<1>1. Reading(lx, text, starts) /\ tty \in BOOLEAN
  BY DEF LossInv, FrontInv, TypeOK
<1>2. CASE ~tty
  <2>. DEFINE c == "\n"
              read == Step(lx, c)
              more == Append(text, c)
  <2>1. c \in Alphabet \cup {"\n"}
    OBVIOUS
  <2>2. Lexed = EndChunk(read, FALSE) /\ LexedText = more
    BY <1>2 DEF Lexed, LexedText
  <2>. HIDE DEF c
  <2>3. Reading(read, more, starts)
    BY <1>1, <2>1, ReadStep
  <2>. HIDE DEF read, more
  <2>4. ReadSoFar(read, more, starts)
    BY <2>3 DEF Reading
  <2>. QED BY <2>2, <2>4, EndChunkRead
<1>3. CASE tty /\ lx.pos = Top(starts)
  <2>1. Lexed = lx /\ LexedText = text
    BY <1>3 DEF Lexed, LexedText
  <2>2. LineAt(starts, lx.pos)
    <3>1. starts \in Seq(Nat) /\ starts # <<>>
      BY DEF FrontInv, StartInv
    <3>2. Len(starts) \in 1..Len(starts)
      BY <3>1
    <3>. QED BY <1>3, <3>2 DEF LineAt, Top
  <2>3. PICK f : Traces(f, text, starts)
    BY <1>1 DEF Reading, ReadSoFar
  <2>4. Bounded(f, lx, text, starts)
    BY <1>1, <2>3 DEF Reading
  <2>5. lx.mode \in Resting
    <3>1. CASE Escapes
      BY <2>2, <2>4, <3>1 DEF Bounded
    <3>2. CASE ~Escapes
      <4>1. ToldPlainly(f, lx)
        BY <1>1, <2>3, <3>2 DEF Reading, ReadSoFar, Told
      <4>. QED BY <2>2, <2>4, <3>2, <4>1 DEF Bounded, BoundedPlainly, ToldPlainly, Resting
    <3>. QED BY <3>1, <3>2
  <2>. QED BY <1>1, <2>1, <2>5 DEF Reading
<1>4. CASE tty /\ lx.pos # Top(starts)
  <2>1. Lexed = EndChunk(lx, TRUE) /\ LexedText = text
    BY <1>4 DEF Lexed, LexedText
  <2>2. ReadSoFar(lx, text, starts)
    BY <1>1 DEF Reading
  <2>. QED BY <2>1, <2>2, EndChunkRead
<1>. QED BY <1>1, <1>2, <1>3, <1>4

\* Without backslashes or without # every symbol and every end of a line keeps LossInv.
LEMMA LossStep ==
  ASSUME ~Escapes \/ ~Comments, FrontInv, LossInv, [Next]_vars
  PROVE  LossInv'
<1>1. ASSUME NEW c \in Alphabet, TypeSymbol(c) PROVE LossInv'
  <2>1. /\ status = "typing" /\ text' = Append(text, c) /\ lx' = Step(lx, c)
        /\ UNCHANGED <<tty, starts, status>> /\ c \in Alphabet \cup {"\n"}
    BY <1>1 DEF TypeSymbol
  <2>2. Reading(lx, text, starts)
    BY <2>1 DEF LossInv
  <2>3. Reading(Step(lx, c), Append(text, c), starts)
    BY <2>1, <2>2, ReadStep
  <2>4. Reading(lx', text', starts')
    BY <2>1, <2>3
  <2>. QED BY <2>1, <2>4 DEF LossInv, Reading
<1>2. ASSUME NEW what, what # "typing", status = "typing", EndOfText(what) PROVE LossInv'
  <2>1. lx' = Lexed /\ text' = LexedText /\ starts' = starts /\ status' = what
    BY <1>2 DEF EndOfText
  <2>2. ReadSoFar(Lexed, LexedText, starts) /\ Lexed.mode \in Resting
    BY <1>2, LexedRead
  <2>. HIDE DEF Lexed, LexedText
  <2>3. ReadSoFar(lx', text', starts') /\ lx'.mode \in Resting
    BY <2>1, <2>2
  <2>. QED BY <1>2, <2>1, <2>3 DEF LossInv
<1>3. CASE Refuse
  BY <1>2, <1>3 DEF Refuse
<1>4. CASE GiveUp
  BY <1>2, <1>4 DEF GiveUp, Accepted
<1>5. CASE Complete
  BY <1>2, <1>5 DEF Complete, Accepted
<1>6. CASE Continue
  <2>1. status = "typing" /\ status' = status /\ starts' = Append(starts, lx'.pos)
    BY <1>6 DEF Continue, Accepted
  <2>2. ReadSoFar(Lexed, LexedText, starts) /\ Lexed.mode \in Resting
    BY <2>1, LexedRead
  <2>3. CASE IsNormal(Lexed)
    <3>1. lx' = BeginChunk(Lexed) /\ text' = LexedText
      BY <1>6, <2>3 DEF Continue
    <3>. HIDE DEF Lexed, LexedText
    <3>2. Reading(lx', LexedText, Append(starts, lx'.pos))
      BY <2>2, <3>1, NewLineRead
    <3>3. Reading(lx', text', starts')
      BY <2>1, <3>1, <3>2
    <3>. QED BY <2>1, <3>3 DEF LossInv, Reading
  <2>4. CASE ~IsNormal(Lexed)
    <3>. DEFINE y == PendingNewline(Lexed)
                more == Append(LexedText, "\n")
    <3>1. lx' = BeginChunk(y) /\ text' = more
      BY <1>6, <2>4 DEF Continue
    <3>2. Lexed.mode \in Quotes \cup {"escOut"}
      BY <2>2, <2>4 DEF IsNormal, Resting
    <3>. HIDE DEF Lexed, LexedText
    <3>3. ReadSoFar(y, more, starts) /\ y.mode \in Resting
      BY <2>2, <3>2, PendingRead
    <3>. HIDE DEF y, more
    <3>4. Reading(lx', more, Append(starts, lx'.pos))
      BY <3>1, <3>3, NewLineRead
    <3>5. Reading(lx', text', starts')
      BY <2>1, <3>1, <3>4
    <3>. QED BY <2>1, <3>5 DEF LossInv, Reading
  <2>. QED BY <2>3, <2>4
<1>7. CASE UNCHANGED vars
  BY <1>7 DEF vars, LossInv
<1>. QED BY <1>1, <1>3, <1>4, <1>5, <1>6, <1>7 DEF Next

\* Inside makes the turns.
LEMMA InsideTraces ==
  ASSUME text \in Seq(Symbols), \E f : Traces(f, text, starts)
  PROVE  Traces(Inside, text, starts)
<1>. DEFINE Body(h) ==
       [k \in 0..Len(text) |->
          IF k = 0 THEN ""
          ELSE LET c == text[k]
                   s == IF LineStart(k - 1) /\ h[k - 1] = "#" THEN "" ELSE h[k - 1]
               IN CASE s \in {"'", "#"} -> IF c = (IF s = "#" THEN "\n" ELSE s) THEN "" ELSE s
                    [] s = "\"" -> IF c = s THEN "" ELSE IF c = "\\" THEN "\"\\" ELSE s
                    [] s = "\"\\" -> "\""
                    [] s = "\\" -> ""
                    [] OTHER -> IF c \in Quotes \cup {"\\"} THEN c
                                ELSE IF c = "#" /\ (k = 1 \/ LineStart(k - 1) \/
                                       text[k - 1] \in Blanks \cup Operators \cup Quotes)
                                THEN "#" ELSE ""]
<1>1. Inside = CHOOSE h : h = Body(h)
  BY DEF Inside
<1>2. ASSUME NEW h, NEW k \in 1..Len(text)
      PROVE  Body(h)[k] = Turn(text, starts, k, h[k - 1])
  <2>1. k \in 0..Len(text) /\ k # 0
    OBVIOUS
  <2>2. LineStart(k - 1) <=> LineAt(starts, k - 1)
    BY DEF LineStart, LineAt
  <2>. QED BY <2>1, <2>2 DEF Turn
<1>3. ASSUME NEW h PROVE Body(h)[0] = ""
  <2>1. 0 \in 0..Len(text)
    OBVIOUS
  <2>. QED BY <2>1
<1>4. ASSUME NEW h
      PROVE  Body(h) = [k \in 0..Len(text) |->
                          IF k = 0 THEN "" ELSE Turn(text, starts, k, h[k - 1])]
  <2>1. \A k \in 0..Len(text) : k = 0 \/ k \in 1..Len(text)
    OBVIOUS
  <2>2. ASSUME NEW k \in 0..Len(text)
        PROVE  Body(h)[k] = IF k = 0 THEN "" ELSE Turn(text, starts, k, h[k - 1])
    <3>. HIDE DEF Body
    <3>. QED BY <1>2, <1>3, <2>1
  <2>3. Body(h) = [k \in 0..Len(text) |-> Body(h)[k]]
    OBVIOUS
  <2>. HIDE DEF Body
  <2>. QED BY <2>2, <2>3
<1>. HIDE DEF Body
<1>5. \E h : h = Body(h)
  <2>1. PICK f : Traces(f, text, starts)
    OBVIOUS
  <2>. DEFINE g == [k \in 0..Len(text) |-> f[k]]
  <2>2. ASSUME NEW k \in 0..Len(text)
        PROVE  g[k] = IF k = 0 THEN "" ELSE Turn(text, starts, k, g[k - 1])
    <3>1. CASE k = 0
      BY <2>1, <3>1 DEF Traces
    <3>2. CASE k # 0
      <4>1. k \in 1..Len(text) /\ k - 1 \in 0..Len(text)
        BY <3>2
      <4>2. f[k] = Turn(text, starts, k, f[k - 1])
        BY <2>1, <4>1 DEF Traces
      <4>3. g[k] = f[k] /\ g[k - 1] = f[k - 1]
        BY <4>1
      <4>. QED BY <3>2, <4>2, <4>3
    <3>. QED BY <3>1, <3>2
  <2>3. g = [k \in 0..Len(text) |-> g[k]]
    OBVIOUS
  <2>. HIDE DEF g
  <2>4. g = [k \in 0..Len(text) |-> IF k = 0 THEN "" ELSE Turn(text, starts, k, g[k - 1])]
    BY <2>2, <2>3
  <2>5. g = Body(g)
    BY <1>4, <2>4
  <2>. QED BY <2>5
<1>6. Inside = Body(Inside)
  BY <1>1, <1>5
<1>. QED BY <1>2, <1>3, <1>6 DEF Traces

\* A symbol that was taken once is covered by one part of one token.
LEMMA CoversOne ==
  ASSUME Good(lx), lx.mode = "lex", lx.tmp = <<>>, Short(lx.toks, <<>>, Len(text)),
         text \in Seq(Symbols), NEW k
  PROVE  /\ Free(lx, k) => Cardinality(Covers(k)) = 0
         /\ TakenOnce(lx, k) => Cardinality(Covers(k)) = 1
<1>0. /\ lx.toks \in Seq(Tokens) /\ Len(lx.toks) \in Nat /\ Len(text) \in Nat
      /\ \A t \in 1..Len(lx.toks) : lx.toks[t].parts \in Seq(Parts)
  BY LexersDef, TokensDef DEF Good
<1>1. Shut(lx) = <<>>
  BY ModeKinds DEF Shut
<1>2. ASSUME NEW t, NEW p
      PROVE  Takes(lx.toks, <<>>, t, p, k) <=> <<t, p>> \in Covers(k)
  <2>. DEFINE n == Len(lx.toks)
              m == Len(text)
  <2>1. CASE t \in 1..n
    <3>1. PartsAt(lx.toks, <<>>, t) = lx.toks[t].parts /\ t \in 1..(n + 1)
      BY <1>0, <2>1 DEF PartsAt
    <3>2. Len(lx.toks[t].parts) \in Nat /\ Len(lx.toks[t].parts) <= m
      BY <1>0, <2>1 DEF Short
    <3>. DEFINE parts == lx.toks[t].parts
    <3>3. Takes(lx.toks, <<>>, t, p, k) <=>
            p \in 1..Len(parts) /\ parts[p].start < k /\ k <= parts[p].end
      BY <3>1 DEF Takes
    <3>4. <<t, p>> \in Covers(k) <=>
            p \in 1..m /\ p <= Len(parts) /\ parts[p].start < k /\ k <= parts[p].end
      BY <2>1 DEF Covers
    <3>5. p \in 1..Len(parts) <=> p \in 1..m /\ p <= Len(parts)
      BY <1>0, <3>2
    <3>. HIDE DEF parts
    <3>. QED BY <3>3, <3>4, <3>5
  <2>2. CASE t \notin 1..n
    <3>1. PartsAt(lx.toks, <<>>, t) = <<>>
      BY <2>2 DEF PartsAt
    <3>2. ~Takes(lx.toks, <<>>, t, p, k)
      BY <3>1 DEF Takes
    <3>3. <<t, p>> \notin Covers(k)
      BY <2>2 DEF Covers
    <3>. QED BY <3>2, <3>3
  <2>. QED BY <2>1, <2>2
<1>3. \A at \in Covers(k) : at = <<at[1], at[2]>>
  BY DEF Covers
<1>. HIDE DEF Covers
<1>4. ASSUME Free(lx, k) PROVE Cardinality(Covers(k)) = 0
  <2>1. Covers(k) = {}
    BY <1>1, <1>2, <1>3, <1>4 DEF Free
  <2>. QED BY <2>1, FS_EmptySet
<1>5. ASSUME TakenOnce(lx, k) PROVE Cardinality(Covers(k)) = 1
  <2>1. PICK t, p : /\ Takes(lx.toks, <<>>, t, p, k)
                    /\ \A u, q : Takes(lx.toks, <<>>, u, q, k) => u = t /\ q = p
    BY <1>1, <1>5 DEF TakenOnce
  <2>2. Covers(k) = {<<t, p>>}
    BY <1>2, <1>3, <2>1
  <2>. QED BY <2>2, FS_Singleton
<1>. QED BY <1>4, <1>5

\* No symbol of a word is lost and none is taken twice, in any text without backslashes
\* or without comments: not between two lines (run_lexer), two parts (temp_part_create,
\* close_tmp_part) or two words (word_emit), nor behind a newline that manage_pendings
\* puts back.
THEOREM NothingIsLost ==
  ASSUME "\\" \notin Alphabet \/ "#" \notin Alphabet
  PROVE  Spec => []NothingLost
<1>1. Init => FrontInv /\ LossInv
  BY FrontInit, LossInit
<1>2. FrontInv /\ LossInv /\ [Next]_vars => (FrontInv /\ LossInv)'
  BY FrontStep, LossStep DEF Escapes, Comments
<1>3. FrontInv /\ LossInv => NothingLost
  <2>. SUFFICES ASSUME FrontInv, LossInv, status = "complete", NEW k \in 1..Len(text),
                       text[k] \in Plain
                PROVE  Cardinality(Covers(k)) = IF Inside[k] = "#" THEN 0 ELSE 1
    BY DEF NothingLost
  <2>1. /\ ReadSoFar(lx, text, starts) /\ lx.tmp = <<>> /\ lx.ctxs = <<>>
        /\ IsNormal(lx) /\ lx.pos = Len(text)
    BY DEF LossInv, FrontInv, CompleteIsNormal, AtEndOfBuffer
  <2>2. /\ Good(lx) /\ text \in Seq(Symbols) /\ Parted(lx, text)
        /\ Short(lx.toks, lx.tmp, lx.pos)
        /\ \E f : Traces(f, text, starts)
        /\ \A f : Traces(f, text, starts) => Told(f, lx) /\ Cover(f, lx, text)
    BY <2>1 DEF ReadSoFar
  <2>3. lx.mode = "lex"
    BY <2>1, ModeKinds DEF LossInv, IsNormal, Resting
  <2>4. Cover(Inside, lx, text)
    BY <2>2, InsideTraces
  <2>5. IF Inside[k] = "#" THEN Free(lx, k) ELSE TakenOnce(lx, k)
    BY <2>4 DEF Cover
  <2>6. /\ Free(lx, k) => Cardinality(Covers(k)) = 0
        /\ TakenOnce(lx, k) => Cardinality(Covers(k)) = 1
    BY <2>1, <2>2, <2>3, CoversOne
  <2>. QED BY <2>5, <2>6
<1>. QED BY <1>1, <1>2, <1>3, PTL DEF Spec
-----------------------------------------------------------------------------
(* What the contexts tell of the tokens.                                     *)

\* The types of the tokens, and how often one occurs among the first n.
Kinds(toks) == [k \in 1..Len(toks) |-> toks[k].type]
Tally(s, v, n) == Cardinality({k \in 1..n : s[k] = v})

\* The last of the first n tokens, newlines aside, is an operator that joins two commands.
JoinsLast(ty, n) ==
  \E j \in 1..n : ty[j] \in OpContexts /\ \A i \in (j + 1)..n : ty[i] = "NEWLINE"

\* What the checker sees to: no operator stands behind another, and no parenthesis is
\* closed that was not opened.
OrderedAt(ty, k) ==
  /\ ty[k] \in CtrlOps \cup {")"} => ~JoinsLast(ty, k - 1)
  /\ ty[k] = ")" => Tally(ty, ")", k - 1) < Tally(ty, "(", k - 1)
OrderedTo(ty, n) == \A k \in 1..n : OrderedAt(ty, k)

\* The contexts are those of the operators and parentheses that are still open: none of
\* a quote, and an operator only behind the last token.
Inner == OpContexts \cup {"("}
Apart(s) == \A i \in 1..(Len(s) - 1) : s[i] \in OpContexts => s[i + 1] = "("
Stacked(s, ty, tmp) ==
  /\ TopIn(s, OpContexts) <=> (JoinsLast(ty, Len(ty)) /\ tmp = <<>>)
  /\ Tally(s, "(", Len(s)) + Tally(ty, ")", Len(ty)) = Tally(ty, "(", Len(ty))
  /\ Apart(s)
Kept(s, ty, tmp) ==
  s \in Seq(Inner) /\ (OrderedTo(ty, Len(ty)) => Stacked(s, ty, tmp))

\* Two lists with the same first n tokens.
Alike(s, t, n) == \A k \in 1..n : s[k] = t[k]

\* A tally of the tokens up to the next one.
LEMMA TallyIs ==
  ASSUME NEW s, NEW v, NEW n \in Nat
  PROVE  /\ Tally(s, v, n) \in Nat
         /\ Tally(s, v, 0) = 0
         /\ Tally(s, v, n + 1) = IF s[n + 1] = v THEN Tally(s, v, n) + 1 ELSE Tally(s, v, n)
<1>. DEFINE A(m) == {k \in 1..m : s[k] = v}
<1>1. ASSUME NEW m \in Nat PROVE IsFiniteSet(A(m))
  <2>1. IsFiniteSet(1..m)
    BY FS_Interval
  <2>. QED BY <2>1, FS_Subset
<1>2. A(0) = {}
  OBVIOUS
<1>3. A(n + 1) = IF s[n + 1] = v THEN A(n) \cup {n + 1} ELSE A(n)
  OBVIOUS
<1>4. n + 1 \notin A(n)
  OBVIOUS
<1>5. \A m : Tally(s, v, m) = Cardinality(A(m))
  BY DEF Tally
<1>6. IsFiniteSet(A(n))
  BY <1>1
<1>. HIDE DEF A
<1>7. Cardinality(A(n)) \in Nat
  BY <1>6, FS_CardinalityType
<1>8. Cardinality(A(0)) = 0
  BY <1>2, FS_EmptySet
<1>9. Cardinality(A(n) \cup {n + 1}) = Cardinality(A(n)) + 1
  BY <1>4, <1>6, FS_AddElement
<1>. QED BY <1>3, <1>5, <1>7, <1>8, <1>9

\* It depends on the tokens it counts alone.
LEMMA TallyAlike ==
  ASSUME NEW s, NEW t, NEW v, NEW n, Alike(s, t, n)
  PROVE  Tally(s, v, n) = Tally(t, v, n)
<1>1. {k \in 1..n : s[k] = v} = {k \in 1..n : t[k] = v}
  BY DEF Alike
<1>. QED BY <1>1 DEF Tally

\* Token m is c.
Has(t, m, c) == t[m] = c
\* A list, and one with a token more.
LEMMA TallyMore ==
  ASSUME NEW s, NEW t, NEW v, NEW n \in Nat, Alike(t, s, n), NEW m, m = n + 1, NEW c, Has(t, m, c)
  PROVE  /\ Tally(s, v, n) \in Nat
         /\ Tally(t, v, m) = IF c = v THEN Tally(s, v, n) + 1 ELSE Tally(s, v, n)
<1>1. Tally(t, v, n) = Tally(s, v, n)
  BY TallyAlike
<1>. QED BY <1>1, TallyIs DEF Has

\* Whether the last token joins two commands, newlines aside.
LEMMA JoinsNext ==
  ASSUME NEW ty, NEW n \in Nat
  PROVE  JoinsLast(ty, n + 1) <=>
           ty[n + 1] \in OpContexts \/ (ty[n + 1] = "NEWLINE" /\ JoinsLast(ty, n))
<1>1. ASSUME JoinsLast(ty, n + 1), ty[n + 1] \notin OpContexts
      PROVE  ty[n + 1] = "NEWLINE" /\ JoinsLast(ty, n)
  <2>1. PICK j \in 1..(n + 1) : ty[j] \in OpContexts /\ \A i \in (j + 1)..(n + 1) : ty[i] = "NEWLINE"
    BY <1>1 DEF JoinsLast
  <2>2. j # n + 1
    BY <1>1, <2>1
  <2>3. j \in 1..n /\ n + 1 \in (j + 1)..(n + 1) /\ \A i \in (j + 1)..n : i \in (j + 1)..(n + 1)
    BY <2>2
  <2>. QED BY <2>1, <2>3 DEF JoinsLast
<1>2. ASSUME ty[n + 1] \in OpContexts PROVE JoinsLast(ty, n + 1)
  <2>1. n + 1 \in 1..(n + 1) /\ \A i \in ((n + 1) + 1)..(n + 1) : FALSE
    OBVIOUS
  <2>. QED BY <1>2, <2>1 DEF JoinsLast
<1>3. ASSUME ty[n + 1] = "NEWLINE", JoinsLast(ty, n) PROVE JoinsLast(ty, n + 1)
  <2>1. PICK j \in 1..n : ty[j] \in OpContexts /\ \A i \in (j + 1)..n : ty[i] = "NEWLINE"
    BY <1>3 DEF JoinsLast
  <2>2. j \in 1..(n + 1) /\ \A i \in (j + 1)..(n + 1) : i = n + 1 \/ i \in (j + 1)..n
    OBVIOUS
  <2>. QED BY <1>3, <2>1, <2>2 DEF JoinsLast
<1>. QED BY <1>1, <1>2, <1>3

\* That, too, depends on the tokens before alone.
LEMMA JoinsAlike ==
  ASSUME NEW s, NEW t, NEW n \in Nat, Alike(s, t, n)
  PROVE  JoinsLast(s, n) <=> JoinsLast(t, n)
<1>1. \A j \in 1..n : \A i \in (j + 1)..n : i \in 1..n
  OBVIOUS
<1>. QED BY <1>1 DEF JoinsLast, Alike

\* One token more.
LEMMA AppendKind ==
  ASSUME NEW ty \in Seq(TokTypes), NEW c \in TokTypes, NEW more, more = Append(ty, c)
  PROVE  /\ Tally(ty, "(", Len(ty)) \in Nat /\ Tally(ty, ")", Len(ty)) \in Nat
         /\ Tally(more, "(", Len(more)) =
              IF c = "(" THEN Tally(ty, "(", Len(ty)) + 1 ELSE Tally(ty, "(", Len(ty))
         /\ Tally(more, ")", Len(more)) =
              IF c = ")" THEN Tally(ty, ")", Len(ty)) + 1 ELSE Tally(ty, ")", Len(ty))
         /\ JoinsLast(more, Len(more)) <=>
              c \in OpContexts \/ (c = "NEWLINE" /\ JoinsLast(ty, Len(ty)))
         /\ OrderedTo(more, Len(more)) =>
              /\ OrderedTo(ty, Len(ty))
              /\ c \in CtrlOps \cup {")"} => ~JoinsLast(ty, Len(ty))
              /\ c = ")" => Tally(ty, ")", Len(ty)) < Tally(ty, "(", Len(ty))
<1>9. PICK n : n = Len(ty)
  OBVIOUS
<1>1. /\ more \in Seq(TokTypes) /\ Len(more) = n + 1 /\ n \in Nat
      /\ more[n + 1] = c /\ (\A k \in 1..n : more[k] = ty[k])
  BY <1>9, AppendProperties
<1>00. n \in Nat /\ more[n + 1] = c
  BY <1>1
<1>0. Alike(more, ty, n)
  BY <1>1 DEF Alike
<1>2. \A v : /\ Tally(ty, v, n) \in Nat
             /\ Tally(more, v, n + 1) = IF c = v THEN Tally(ty, v, n) + 1 ELSE Tally(ty, v, n)
  <2>. TAKE v
  <2>1. PICK m : m = n + 1
    OBVIOUS
  <2>2. Has(more, m, c)
    BY <1>00, <2>1 DEF Has
  <2>3. /\ Tally(ty, v, n) \in Nat
        /\ Tally(more, v, m) = IF c = v THEN Tally(ty, v, n) + 1 ELSE Tally(ty, v, n)
    BY <1>0, <1>00, <2>1, <2>2, TallyMore
  <2>. QED BY <2>1, <2>3
<1>3. JoinsLast(more, n) <=> JoinsLast(ty, n)
  BY <1>00, <1>0, JoinsAlike
<1>4. JoinsLast(more, n + 1) <=> c \in OpContexts \/ (c = "NEWLINE" /\ JoinsLast(ty, n))
  BY <1>1, <1>3, JoinsNext
<1>5. ASSUME NEW k \in 1..n PROVE OrderedAt(more, k) <=> OrderedAt(ty, k)
  <2>1. k - 1 \in Nat /\ more[k] = ty[k] /\ Alike(more, ty, k - 1)
    BY <1>1 DEF Alike
  <2>2. JoinsLast(more, k - 1) <=> JoinsLast(ty, k - 1)
    BY <2>1, JoinsAlike
  <2>3. \A v : Tally(more, v, k - 1) = Tally(ty, v, k - 1)
    BY <2>1, TallyAlike
  <2>. QED BY <2>1, <2>2, <2>3 DEF OrderedAt
<1>6. ASSUME OrderedTo(more, n + 1)
      PROVE  /\ OrderedTo(ty, n)
             /\ c \in CtrlOps \cup {")"} => ~JoinsLast(ty, n)
             /\ c = ")" => Tally(ty, ")", n) < Tally(ty, "(", n)
  <2>1. n + 1 \in 1..(n + 1) /\ (n + 1) - 1 = n /\ \A k \in 1..n : k \in 1..(n + 1)
    BY <1>1
  <2>2. OrderedTo(ty, n)
    BY <1>5, <1>6, <2>1 DEF OrderedTo
  <2>3. OrderedAt(more, n + 1)
    BY <1>6, <2>1 DEF OrderedTo
  <2>4. \A v : Tally(more, v, n) = Tally(ty, v, n)
    BY <1>0, TallyAlike
  <2>. QED BY <1>1, <1>3, <2>1, <2>2, <2>3, <2>4 DEF OrderedAt
<1>7. /\ Tally(ty, "(", n) \in Nat
      /\ Tally(more, "(", n + 1) = IF c = "(" THEN Tally(ty, "(", n) + 1 ELSE Tally(ty, "(", n)
  BY <1>2
<1>8. /\ Tally(ty, ")", n) \in Nat
      /\ Tally(more, ")", n + 1) = IF c = ")" THEN Tally(ty, ")", n) + 1 ELSE Tally(ty, ")", n)
  BY <1>2
<1>. QED BY <1>1, <1>4, <1>6, <1>7, <1>8, <1>9

\* A stack with one context more, or without its top.
LEMMA PushApart ==
  ASSUME NEW s \in Seq(Inner), NEW c \in Inner, NEW t, t = Append(s, c),
         NEW n, n = Len(s)
  PROVE  /\ t \in Seq(Inner) /\ Top(t) = c /\ t # <<>>
         /\ Tally(s, "(", Len(s)) \in Nat
         /\ Tally(t, "(", Len(t)) =
              IF c = "(" THEN Tally(s, "(", Len(s)) + 1 ELSE Tally(s, "(", Len(s))
         /\ Apart(s) /\ (c = "(" \/ ~TopIn(s, OpContexts)) => Apart(t)
<1>1. /\ t \in Seq(Inner) /\ Len(t) = n + 1 /\ n \in Nat /\ t # <<>>
      /\ t[n + 1] = c /\ \A k \in 1..n : t[k] = s[k]
  BY AppendProperties
<1>2. s # <<>> <=> n # 0
  BY EmptySeq
<1>3. Tally(t, "(", n) = Tally(s, "(", n)
  <2>1. Alike(t, s, n)
    BY <1>1 DEF Alike
  <2>. QED BY <2>1, TallyAlike
<1>4. ASSUME Apart(s), c = "(" \/ ~TopIn(s, OpContexts) PROVE Apart(t)
  <2>. SUFFICES ASSUME NEW i \in 1..n, t[i] \in OpContexts PROVE t[i + 1] = "("
    BY <1>1 DEF Apart
  <2>1. t[i] = s[i]
    BY <1>1
  <2>2. CASE i = n
    <3>1. TopIn(s, OpContexts)
      BY <1>1, <1>2, <2>1, <2>2 DEF TopIn, Top
    <3>. QED BY <1>1, <1>4, <2>2, <3>1
  <2>3. CASE i # n
    <3>1. i \in 1..(n - 1) /\ i + 1 \in 1..n
      BY <1>1, <2>3
    <3>. QED BY <1>1, <1>4, <2>1, <3>1 DEF Apart
  <2>. QED BY <2>2, <2>3
<1>5. Top(t) = c
  BY <1>1 DEF Top
<1>7. /\ Tally(s, "(", n) \in Nat
      /\ Tally(t, "(", n + 1) = IF c = "(" THEN Tally(s, "(", n) + 1 ELSE Tally(s, "(", n)
  <2>1. n \in Nat /\ Alike(t, s, n)
    BY <1>1 DEF Alike
  <2>2. PICK m : m = n + 1
    OBVIOUS
  <2>3. Has(t, m, c)
    BY <1>1, <2>2 DEF Has
  <2>4. /\ Tally(s, "(", n) \in Nat
        /\ Tally(t, "(", m) = IF c = "(" THEN Tally(s, "(", n) + 1 ELSE Tally(s, "(", n)
    BY <2>1, <2>2, <2>3, TallyMore
  <2>. QED BY <2>2, <2>4
<1>. QED BY <1>1, <1>4, <1>5, <1>7

\* Two operators never lie on each other, so that under one that is removed is none.
LEMMA PopApart ==
  ASSUME NEW s \in Seq(Inner), s # <<>>, NEW t, t = Pop(s)
  PROVE  /\ t \in Seq(Inner) /\ Tally(t, "(", Len(t)) \in Nat
         /\ Tally(s, "(", Len(s)) =
              IF Top(s) = "(" THEN Tally(t, "(", Len(t)) + 1 ELSE Tally(t, "(", Len(t))
         /\ Apart(s) => Apart(t) /\ (Top(s) \in OpContexts => ~TopIn(t, OpContexts))
<1>. DEFINE n == Len(s)
<1>1. n \in Nat /\ n # 0
  BY EmptySeq
<1>. DEFINE m == n - 1
<1>2. m \in Nat /\ n = m + 1
  BY <1>1
<1>3. /\ Len(t) = m /\ \A k \in 1..m : t[k] = s[k]
  <2>1. t = SubSeq(s, 1, m)
    BY DEF Pop
  <2>2. \A i \in 1..m : s[i] \in Inner
    BY <1>1
  <2>. HIDE DEF m
  <2>. QED BY <1>2, <2>1, <2>2, SubSeqProperties
<1>4. t \in Seq(Inner)
  BY PopSeq
<1>. HIDE DEF n, m
<1>5. Tally(t, "(", m) = Tally(s, "(", m)
  <2>1. Alike(t, s, m)
    BY <1>3 DEF Alike
  <2>. QED BY <2>1, TallyAlike
<1>6. Top(s) = s[n]
  BY DEF Top, n
<1>7. Tally(s, "(", n) = IF s[n] = "(" THEN Tally(t, "(", m) + 1 ELSE Tally(t, "(", m)
  BY <1>2, <1>5, TallyIs
<1>8. ASSUME Apart(s) PROVE Apart(t) /\ (Top(s) \in OpContexts => ~TopIn(t, OpContexts))
  <2>1. \A i \in 1..m : s[i] \in OpContexts => s[i + 1] = "("
    BY <1>2, <1>8 DEF Apart, n
  <2>2. Apart(t)
    <3>1. \A i \in 1..(m - 1) : i \in 1..m /\ i + 1 \in 1..m
      BY <1>2
    <3>. QED BY <1>3, <2>1, <3>1 DEF Apart
  <2>3. ASSUME Top(s) \in OpContexts, TopIn(t, OpContexts) PROVE FALSE
    <3>1. t # <<>> /\ t[m] \in OpContexts
      BY <1>3, <2>3 DEF TopIn, Top
    <3>2. m # 0
      BY <1>3, <1>4, <3>1, EmptySeq
    <3>3. m \in 1..m
      BY <1>2, <3>2
    <3>4. s[n] = "("
      BY <1>2, <1>3, <2>1, <3>1, <3>3
    <3>. QED BY <1>6, <2>3, <3>4 DEF OpContexts
  <2>. QED BY <2>2, <2>3
<1>9. Tally(t, "(", m) \in Nat
  BY <1>2, TallyIs
<1>. QED BY <1>3, <1>4, <1>6, <1>7, <1>8, <1>9 DEF n

\* That of remove_op_context: there is no operator left on top.
LEMMA PopOpApart ==
  ASSUME NEW s \in Seq(Inner), NEW t, t = PopIf(s, OpContexts)
  PROVE  /\ t \in Seq(Inner) /\ Tally(t, "(", Len(t)) = Tally(s, "(", Len(s))
         /\ Tally(s, "(", Len(s)) \in Nat
         /\ Apart(s) => Apart(t) /\ ~TopIn(t, OpContexts)
<1>1. CASE TopIn(s, OpContexts)
  <2>1. s # <<>> /\ t = Pop(s) /\ Top(s) \in OpContexts
    BY <1>1 DEF PopIf, TopIn
  <2>2. Top(s) # "("
    BY <2>1 DEF OpContexts
  <2>. QED BY <2>1, <2>2, PopApart
<1>2. CASE ~TopIn(s, OpContexts)
  <2>1. t = s
    BY <1>2 DEF PopIf
  <2>2. Len(s) \in Nat
    OBVIOUS
  <2>. QED BY <1>2, <2>1, <2>2, TallyIs
<1>. QED BY <1>1, <1>2

\* A token that neither joins nor opens nor closes.
LEMMA AppendPlain ==
  ASSUME NEW ty \in Seq(TokTypes), NEW c \in TokTypes,
         c \notin OpContexts \cup {"NEWLINE", "(", ")"}, NEW more, more = Append(ty, c)
  PROVE  /\ Tally(more, "(", Len(more)) = Tally(ty, "(", Len(ty))
         /\ Tally(more, ")", Len(more)) = Tally(ty, ")", Len(ty))
         /\ ~JoinsLast(more, Len(more))
         /\ OrderedTo(more, Len(more)) => OrderedTo(ty, Len(ty))
<1>1. c # "(" /\ c # ")"
  OBVIOUS
<1>. QED BY <1>1, AppendKind

\* A word that ends.
LEMMA KeptWord ==
  ASSUME NEW s, NEW ty \in Seq(TokTypes), NEW tmp, Kept(s, ty, tmp), tmp # <<>>,
         NEW more, more = Append(ty, "WORD")
  PROVE  Kept(s, more, <<>>)
<1>. DEFINE n == Len(ty)
            m == Len(more)
<1>1. "WORD" \in TokTypes /\ "WORD" \notin OpContexts \cup {"NEWLINE", "(", ")"}
  BY DEF TokTypes, OpContexts
<1>2. /\ Tally(more, "(", m) = Tally(ty, "(", n) /\ Tally(more, ")", m) = Tally(ty, ")", n)
      /\ ~JoinsLast(more, m)
      /\ OrderedTo(more, m) => OrderedTo(ty, n)
  BY <1>1, AppendPlain
<1>. HIDE DEF n, m
<1>3. ASSUME OrderedTo(more, m) PROVE Stacked(s, more, <<>>)
  <2>1. Stacked(s, ty, tmp)
    BY <1>2, <1>3 DEF Kept, n
  <2>. QED BY <1>2, <2>1 DEF Stacked, n, m
<1>. QED BY <1>3 DEF Kept, m

\* A part of a word that begins.
LEMMA KeptPart ==
  ASSUME NEW s, NEW ty, NEW tmp, Kept(s, ty, tmp), NEW new, new # <<>>
  PROVE  Kept(PopIf(s, OpContexts), ty, new)
<1>. DEFINE t == PopIf(s, OpContexts)
<1>1. s \in Seq(Inner)
  BY DEF Kept
<1>2. /\ t \in Seq(Inner) /\ Tally(t, "(", Len(t)) = Tally(s, "(", Len(s))
      /\ Apart(s) => Apart(t) /\ ~TopIn(t, OpContexts)
  BY <1>1, PopOpApart
<1>. HIDE DEF t
<1>3. ASSUME OrderedTo(ty, Len(ty)) PROVE Stacked(t, ty, new)
  <2>1. Stacked(s, ty, tmp)
    BY <1>3 DEF Kept
  <2>. QED BY <1>2, <2>1 DEF Stacked
<1>. QED BY <1>2, <1>3 DEF Kept, t

\* What a token does to the contexts.
Grown(s, c) ==
  IF c \in Redirs THEN PopIf(s, OpContexts)
  ELSE IF c \in OpContexts \cup {"("} THEN Append(s, c)
  ELSE IF c = ")" THEN PopIf(PopIf(s, {"("}), OpContexts)
  ELSE s

\* Another token.
LEMMA KeptToken ==
  ASSUME NEW s, NEW ty \in Seq(TokTypes), Kept(s, ty, <<>>),
         NEW c \in Operators \cup {"NEWLINE"}, NEW more, more = Append(ty, c)
  PROVE  Kept(Grown(s, c), more, <<>>)
<1>. DEFINE n == Len(ty)
            m == Len(more)
            g == Grown(s, c)
            open == Tally(ty, "(", n)
            shut == Tally(ty, ")", n)
            deep == Tally(s, "(", Len(s))
<1>0. s \in Seq(Inner)
  BY DEF Kept
<1>1. c \in TokTypes /\ ty \in Seq(TokTypes) /\ more = Append(ty, c)
  BY DEF TokTypes
<1>2. /\ open \in Nat /\ shut \in Nat
      /\ Tally(more, "(", m) = (IF c = "(" THEN open + 1 ELSE open)
      /\ Tally(more, ")", m) = (IF c = ")" THEN shut + 1 ELSE shut)
      /\ JoinsLast(more, m) <=> c \in OpContexts \/ (c = "NEWLINE" /\ JoinsLast(ty, n))
      /\ OrderedTo(more, m) =>
           /\ OrderedTo(ty, n)
           /\ c \in CtrlOps \cup {")"} => ~JoinsLast(ty, n)
           /\ c = ")" => shut < open
  BY <1>1, AppendKind
<1>. HIDE DEF n, m
<1>3. OrderedTo(ty, n) =>
        /\ TopIn(s, OpContexts) <=> JoinsLast(ty, n)
        /\ deep + shut = open /\ Apart(s)
  BY DEF Kept, Stacked, n
<1>4. deep \in Nat
  BY <1>0, PopOpApart
<1>. HIDE DEF open, shut, deep
<1>5. CASE c \in Redirs
  <2>1. g = PopIf(s, OpContexts) /\ c \notin OpContexts \cup {"(", ")", "NEWLINE"}
    BY <1>5 DEF Grown, Redirs, OpContexts
  <2>2. /\ g \in Seq(Inner) /\ Tally(g, "(", Len(g)) = deep
        /\ Apart(s) => Apart(g) /\ ~TopIn(g, OpContexts)
    BY <1>0, <2>1, PopOpApart DEF deep
  <2>. HIDE DEF g
  <2>3. OrderedTo(more, m) => Stacked(g, more, <<>>)
    BY <1>2, <1>3, <2>1, <2>2 DEF Stacked, m
  <2>. QED BY <2>2, <2>3 DEF Kept, m, g
<1>6. CASE c \in OpContexts \cup {"("}
  <2>1. /\ g = Append(s, c) /\ c \in Inner /\ c \notin {")", "NEWLINE"}
        /\ c = "(" <=> c \notin OpContexts
        /\ c # "(" => c \in CtrlOps
    BY <1>6 DEF Grown, Redirs, OpContexts, Inner, CtrlOps
  <2>2. /\ g \in Seq(Inner) /\ Top(g) = c /\ g # <<>>
        /\ Tally(g, "(", Len(g)) = (IF c = "(" THEN deep + 1 ELSE deep)
        /\ Apart(s) /\ (c = "(" \/ ~TopIn(s, OpContexts)) => Apart(g)
    BY <1>0, <2>1, PushApart DEF deep
  <2>. HIDE DEF g
  <2>3. ASSUME OrderedTo(more, m) PROVE Stacked(g, more, <<>>)
    <3>1. Apart(g)
      BY <1>2, <1>3, <2>1, <2>2, <2>3
    <3>2. Tally(g, "(", Len(g)) + Tally(more, ")", m) = Tally(more, "(", m)
      <4>1. deep + shut = open
        BY <1>2, <1>3, <2>3
      <4>2. Tally(more, ")", m) = shut
        BY <1>2, <2>1
      <4>3. CASE c = "("
        <5>1. Tally(g, "(", Len(g)) = deep + 1 /\ Tally(more, "(", m) = open + 1
          BY <1>2, <2>2, <4>3
        <5>2. deep \in Int /\ shut \in Int
          BY <1>2, <1>4
        <5>. QED BY <4>1, <4>2, <5>1, <5>2
      <4>4. CASE c # "("
        <5>1. Tally(g, "(", Len(g)) = deep /\ Tally(more, "(", m) = open
          BY <1>2, <2>2, <4>4
        <5>. QED BY <4>1, <4>2, <5>1
      <4>. QED BY <4>3, <4>4
    <3>3. TopIn(g, OpContexts) <=> JoinsLast(more, m)
      BY <1>2, <2>1, <2>2 DEF TopIn
    <3>. QED BY <3>1, <3>2, <3>3 DEF Stacked, m
  <2>. QED BY <2>2, <2>3 DEF Kept, m, g
<1>7. CASE c = ")"
  <2>. DEFINE u == PopIf(s, {"("})
  <2>1. g = PopIf(u, OpContexts) /\ c \notin OpContexts \cup {"(", "NEWLINE"}
        /\ c \in CtrlOps \cup {")"}
    BY <1>7 DEF Grown, Redirs, OpContexts
  <2>2. u \in Seq(Inner)
    BY <1>0, PopSeq
  <2>3. ASSUME OrderedTo(more, m)
        PROVE  Apart(u) /\ Tally(u, "(", Len(u)) + 1 = deep
    <3>1. deep # 0 /\ ~TopIn(s, OpContexts) /\ Apart(s)
      BY <1>2, <1>3, <1>4, <1>7, <2>1, <2>3
    <3>2. s # <<>>
      <4>1. s = <<>> => Len(s) = 0
        OBVIOUS
      <4>. QED BY <3>1, <4>1, TallyIs DEF deep
    <3>3. Top(s) = "("
      BY <1>0, <3>1, <3>2, PopSeq DEF TopIn, Inner
    <3>4. u = Pop(s)
      BY <3>2, <3>3 DEF PopIf, TopIn
    <3>. QED BY <1>0, <3>1, <3>2, <3>3, <3>4, PopApart DEF deep
  <2>. HIDE DEF u
  <2>4. /\ g \in Seq(Inner) /\ Tally(g, "(", Len(g)) = Tally(u, "(", Len(u))
        /\ Tally(u, "(", Len(u)) \in Nat
        /\ Apart(u) => Apart(g) /\ ~TopIn(g, OpContexts)
    BY <2>1, <2>2, PopOpApart
  <2>. HIDE DEF g
  <2>5. ASSUME OrderedTo(more, m) PROVE Stacked(g, more, <<>>)
    <3>1. Tally(g, "(", Len(g)) + Tally(more, ")", m) = Tally(more, "(", m)
      <4>1. deep + shut = open
        BY <1>2, <1>3, <2>5
      <4>2. Tally(more, ")", m) = shut + 1 /\ Tally(more, "(", m) = open
        BY <1>2, <1>7
      <4>3. Tally(g, "(", Len(g)) + 1 = deep /\ Tally(g, "(", Len(g)) \in Nat
        BY <2>3, <2>4, <2>5
      <4>. QED BY <1>2, <4>1, <4>2, <4>3
    <3>. QED BY <1>2, <2>1, <2>3, <2>4, <2>5, <3>1 DEF Stacked, m
  <2>. QED BY <2>4, <2>5 DEF Kept, m, g
<1>8. CASE c = ";" \/ c = "NEWLINE"
  <2>1. g = s /\ c \notin OpContexts \cup {"(", ")"} /\ (c # "NEWLINE" => c \in CtrlOps)
    BY <1>8 DEF Grown, Redirs, OpContexts, CtrlOps
  <2>. HIDE DEF g
  <2>2. OrderedTo(more, m) => Stacked(s, more, <<>>)
    BY <1>2, <1>3, <2>1 DEF Stacked, m, deep
  <2>. QED BY <1>0, <2>1, <2>2 DEF Kept, m, g
<1>9. c \in Redirs \/ c \in OpContexts \cup {"("} \/ c = ")" \/ c = ";" \/ c = "NEWLINE"
  BY DEF Operators, CtrlOps, Parens, OpContexts
<1>. QED BY <1>5, <1>6, <1>7, <1>8, <1>9

\* The end of a complete text.
LEMMA KeptEnd ==
  ASSUME NEW ty \in Seq(TokTypes), Kept(<<>>, ty, <<>>), NEW more, more = Append(ty, "EOF")
  PROVE  Kept(<<>>, more, <<>>)
<1>. DEFINE n == Len(ty)
            m == Len(more)
<1>1. "EOF" \in TokTypes /\ "EOF" \notin OpContexts \cup {"NEWLINE", "(", ")"}
  BY DEF TokTypes, OpContexts
<1>2. /\ Tally(more, "(", m) = Tally(ty, "(", n) /\ Tally(more, ")", m) = Tally(ty, ")", n)
      /\ ~JoinsLast(more, m)
      /\ OrderedTo(more, m) => OrderedTo(ty, n)
  BY <1>1, AppendPlain
<1>. HIDE DEF n, m
<1>3. ASSUME OrderedTo(more, m) PROVE Stacked(<<>>, more, <<>>)
  <2>1. Stacked(<<>>, ty, <<>>)
    BY <1>2, <1>3 DEF Kept, n
  <2>2. ~TopIn(<<>>, OpContexts)
    BY DEF TopIn
  <2>. QED BY <1>2, <2>1, <2>2 DEF Stacked, n, m
<1>. QED BY <1>3 DEF Kept, m

\* Tokens and their types are the same in number.
LEMMA KindsType ==
  ASSUME NEW toks \in Seq(Tokens)
  PROVE  /\ Kinds(toks) \in Seq(TokTypes) /\ Len(Kinds(toks)) = Len(toks)
         /\ \A k \in 1..Len(toks) : Kinds(toks)[k] = toks[k].type
<1>1. Len(toks) \in Nat /\ \A k \in 1..Len(toks) : toks[k].type \in TokTypes
  BY TokensDef
<1>. QED BY <1>1 DEF Kinds

\* A token more is a type more.
LEMMA KindsAppend ==
  ASSUME NEW toks \in Seq(Tokens), NEW c \in TokTypes, NEW parts \in Seq(Parts)
  PROVE  /\ Append(toks, Token(c, parts)) \in Seq(Tokens)
         /\ Kinds(Append(toks, Token(c, parts))) = Append(Kinds(toks), c)
<1>. DEFINE t == Token(c, parts)
            more == Append(toks, t)
            n == Len(toks)
            a == Kinds(more)
            b == Append(Kinds(toks), c)
<1>1. t \in Tokens /\ t.type = c
  BY TokenType DEF Token
<1>. HIDE DEF t
<1>2. /\ more \in Seq(Tokens) /\ Len(more) = n + 1 /\ n \in Nat
      /\ \A k \in 1..n : more[k] = toks[k]
      /\ more[n + 1] = t
  BY <1>1, AppendProperties
<1>. HIDE DEF more
<1>3. /\ a \in Seq(TokTypes) /\ Len(a) = n + 1
      /\ \A k \in 1..(n + 1) : a[k] = more[k].type
  BY <1>2, KindsType
<1>. HIDE DEF a
<1>4. /\ Kinds(toks) \in Seq(TokTypes) /\ Len(Kinds(toks)) = n
      /\ \A k \in 1..n : Kinds(toks)[k] = toks[k].type
  BY KindsType
<1>5. /\ b \in Seq(TokTypes) /\ Len(b) = n + 1
      /\ (\A k \in 1..n : b[k] = Kinds(toks)[k]) /\ b[n + 1] = c
  BY <1>4, AppendProperties
<1>. HIDE DEF b
<1>6. ASSUME NEW k \in 1..Len(a) PROVE a[k] = b[k]
  <2>1. CASE k = n + 1
    BY <1>1, <1>2, <1>3, <1>5, <2>1
  <2>2. CASE k # n + 1
    <3>1. k \in 1..n
      BY <1>2, <1>3, <1>6, <2>2
    <3>2. k \in 1..(n + 1)
      BY <1>3, <1>6
    <3>3. a[k] = more[k].type
      BY <1>3, <3>2
    <3>4. b[k] = toks[k].type
      BY <1>4, <1>5, <3>1
    <3>. QED BY <1>2, <3>1, <3>3, <3>4
  <2>. QED BY <2>1, <2>2
<1>7. a = b
  BY <1>3, <1>5, <1>6, SeqEqual
<1>. QED BY <1>2, <1>7 DEF a, b, more, t

\* No end of the text among the tokens.
NoEof(ty) == \A k \in 1..Len(ty) : ty[k] # "EOF"
\* A token other than the end of the text.
LEMMA NoEofMore ==
  ASSUME NEW ty \in Seq(TokTypes), NoEof(ty), NEW c \in TokTypes, c # "EOF"
  PROVE  NoEof(Append(ty, c))
<1>1. PICK more : more = Append(ty, c)
  OBVIOUS
<1>2. PICK n : n = Len(ty)
  OBVIOUS
<1>3. /\ Len(more) = n + 1 /\ n \in Nat /\ more[n + 1] = c
      /\ \A k \in 1..n : more[k] = ty[k]
  BY <1>1, <1>2, AppendProperties
<1>4. ASSUME NEW k \in 1..(n + 1) PROVE more[k] # "EOF"
  <2>1. k = n + 1 \/ k \in 1..n
    BY <1>3
  <2>. QED BY <1>2, <1>3, <2>1 DEF NoEof
<1>5. NoEof(more)
  BY <1>3, <1>4 DEF NoEof
<1>. QED BY <1>1, <1>5

\* What the contexts, the tokens and the word being read are to each other.
Held(s, toks, tmp) ==
  toks \in Seq(Tokens) /\ NoEof(Kinds(toks)) /\ Kept(s, Kinds(toks), tmp)

\* Only whether a word is being read matters.
LEMMA HeldAlike ==
  ASSUME NEW s, NEW toks, NEW tmp, Held(s, toks, tmp), NEW new, new = <<>> <=> tmp = <<>>
  PROVE  Held(s, toks, new)
BY DEF Held, Kept, Stacked

\* word_emit.
LEMMA HeldWord ==
  ASSUME NEW s, NEW toks, NEW tmp \in Seq(Parts), Held(s, toks, tmp)
  PROVE  Held(s, Worded(toks, tmp), <<>>)
<1>1. CASE tmp = <<>>
  BY <1>1 DEF Worded
<1>2. CASE tmp # <<>>
  <2>1. PICK ty : ty = Kinds(toks)
    OBVIOUS
  <2>2. PICK new : new = Append(toks, Token("WORD", tmp))
    OBVIOUS
  <2>3. toks \in Seq(Tokens) /\ NoEof(ty) /\ Kept(s, ty, tmp) /\ "WORD" \in TokTypes
    BY <2>1 DEF Held, TokTypes
  <2>4. new \in Seq(Tokens) /\ Kinds(new) = Append(ty, "WORD") /\ ty \in Seq(TokTypes)
    BY <2>1, <2>2, <2>3, KindsAppend, KindsType
  <2>5. NoEof(Append(ty, "WORD"))
    BY <2>3, <2>4, NoEofMore
  <2>6. Kept(s, Append(ty, "WORD"), <<>>)
    BY <1>2, <2>3, <2>4, KeptWord
  <2>7. Worded(toks, tmp) = new
    BY <1>2, <2>2 DEF Worded
  <2>. QED BY <2>4, <2>5, <2>6, <2>7 DEF Held
<1>. QED BY <1>1, <1>2

\* The token of an operator, or of a newline, behind a word that was emitted.
LEMMA HeldToken ==
  ASSUME NEW s, NEW toks, Held(s, toks, <<>>), NEW c \in Operators \cup {"NEWLINE"}
  PROVE  Held(Grown(s, c), Append(toks, Token(c, <<>>)), <<>>)
<1>1. PICK ty : ty = Kinds(toks)
  OBVIOUS
<1>2. PICK new : new = Append(toks, Token(c, <<>>))
  OBVIOUS
<1>3. /\ toks \in Seq(Tokens) /\ NoEof(ty) /\ Kept(s, ty, <<>>)
      /\ c \in TokTypes /\ c # "EOF"
  BY <1>1 DEF Held, TokTypes, Operators, CtrlOps, Redirs, Parens
<1>4. new \in Seq(Tokens) /\ Kinds(new) = Append(ty, c) /\ ty \in Seq(TokTypes)
  BY <1>1, <1>2, <1>3, KindsAppend, KindsType, <<>> \in Seq(Parts)
<1>5. NoEof(Append(ty, c))
  BY <1>3, <1>4, NoEofMore
<1>6. Kept(Grown(s, c), Append(ty, c), <<>>)
  BY <1>3, <1>4, KeptToken
<1>. QED BY <1>2, <1>4, <1>5, <1>6 DEF Held

\* temp_part_create, with the removal of an operator that goes with it.
LEMMA HeldPart ==
  ASSUME NEW s, NEW toks, NEW tmp, Held(s, toks, tmp), NEW new, new # <<>>
  PROVE  Held(PopIf(s, OpContexts), toks, new)
BY KeptPart DEF Held

-----------------------------------------------------------------------------
(* The contexts of a lexer.                                                  *)
\* The same of a lexer, whose stack is beneath the quote it is inside of.
Stack(x) == IF x.mode \in Quotes THEN Pop(x.ctxs) ELSE x.ctxs
CtxModes == {"lex", "word", "#"} \cup Quotes
Ctx(x) ==
  /\ Good(x) /\ x.mode \in CtxModes
  /\ x.mode \in Quotes => x.ctxs # <<>>
  /\ Held(Stack(x), x.toks, x.tmp)

\* Outside of quotes.
Plainly(x) ==
  Good(x) /\ x.mode \in CtxModes \ Quotes /\ Held(x.ctxs, x.toks, x.tmp)

\* Outside of quotes the stack is that of the lexer.
LEMMA PlainlyIs ==
  ASSUME NEW x
  PROVE  /\ Plainly(x) => Ctx(x)
         /\ Ctx(x) /\ x.mode \notin Quotes => Plainly(x)
BY DEF Plainly, Ctx, Stack

\* What the operators of the lexer do to the contexts.
LEMMA CtxsOf ==
  ASSUME NEW x, Good(x)
  PROVE  /\ Advance(x).ctxs = x.ctxs /\ CloseTmpPart(x).ctxs = x.ctxs
         /\ WordEmit(x).ctxs = x.ctxs /\ BeginChunk(x).ctxs = x.ctxs
         /\ \A m : In(x, m).ctxs = x.ctxs
         /\ \A type : Emit(x, type).ctxs = x.ctxs
         /\ \A type : TempPartCreate(x, type).ctxs = x.ctxs
         /\ RemOpContext(x).ctxs = PopIf(x.ctxs, OpContexts)
         /\ RemSubContext(x).ctxs = PopIf(x.ctxs, {"("})
         /\ \A c : AddContext(x, c).ctxs = Append(x.ctxs, c)
<1>1. x \in Lexers
  BY DEF Good
<1>2. \A m : In(x, m).ctxs = x.ctxs
  BY <1>1 DEF In, Lexers
<1>3. /\ RemOpContext(x).ctxs = PopIf(x.ctxs, OpContexts)
      /\ RemSubContext(x).ctxs = PopIf(x.ctxs, {"("})
      /\ \A c : AddContext(x, c).ctxs = Append(x.ctxs, c)
  <2>1. \A s : [x EXCEPT !.ctxs = s].ctxs = s
    BY <1>1 DEF Lexers
  <2>. QED BY <2>1 DEF RemOpContext, RemSubContext, AddContext
<1>. QED BY <1>1, <1>2, <1>3, SameContexts

-----------------------------------------------------------------------------
(* What one symbol does to them.                                            *)

\* An operator ends the word before it and does to the contexts what it is for.
LEMMA OperatorCtxs ==
  ASSUME NEW x, Good(x), NEW c \in Operators
  PROVE  EmitOperator(x, c).ctxs = Grown(x.ctxs, c)
<1>. DEFINE before == IF c \in Redirs THEN RemOpContext(x) ELSE x
            closed == CloseTmpPart(before)
            word == WordEmit(closed)
            emitted == Emit(word, c)
            after == Advance(emitted)
            s == IF c \in Redirs THEN PopIf(x.ctxs, OpContexts) ELSE x.ctxs
<1>1. Good(before) /\ before.ctxs = s
  BY AtContexts, CtxsOf DEF At
<1>. HIDE DEF before, s
<1>2. Good(closed) /\ closed.ctxs = s
  BY <1>1, AtClose, CtxsOf DEF At
<1>. HIDE DEF closed
<1>3. Good(word) /\ word.ctxs = s
  BY <1>2, AtWord, CtxsOf DEF At
<1>. HIDE DEF word
<1>4. Good(emitted) /\ emitted.ctxs = s
  <2>1. c \in TokTypes
    BY DEF TokTypes
  <2>. QED BY <1>3, <2>1, AtEmit, CtxsOf DEF At
<1>. HIDE DEF emitted
<1>5. Good(after) /\ after.ctxs = s
  BY <1>4, AtAdvance, CtxsOf DEF At
<1>6. EmitOperator(x, c) = IF c \in OpContexts \cup {"("} THEN AddContext(after, c)
                           ELSE IF c = ")" THEN RemOpContext(RemSubContext(after))
                           ELSE after
  BY DEF EmitOperator, after, emitted, word, closed, before
<1>. HIDE DEF after
<1>7. RemOpContext(RemSubContext(after)).ctxs = PopIf(PopIf(s, {"("}), OpContexts)
  <2>1. Good(RemSubContext(after)) /\ RemSubContext(after).ctxs = PopIf(s, {"("})
    BY <1>5, AtContexts, CtxsOf DEF At
  <2>. QED BY <2>1, CtxsOf
<1>8. AddContext(after, c).ctxs = Append(s, c)
  BY <1>5, CtxsOf
<1>9. /\ c \in Redirs => c \notin OpContexts \cup {"("} /\ c # ")"
      /\ c = ")" => c \notin OpContexts \cup {"("}
  BY DEF Redirs, OpContexts
<1>. QED BY <1>5, <1>6, <1>7, <1>8, <1>9 DEF Grown, s

\* Operators keep contexts, tokens and word together.
LEMMA OperatorPlainly ==
  ASSUME NEW x, Plainly(x), NEW c \in Operators
  PROVE  Plainly(EmitOperator(x, c))
<1>. DEFINE tmp == EndAt(x.tmp, x.pos)
            toks == Worded(x.toks, tmp)
<1>1. Good(x) /\ x.tmp \in Seq(Parts) /\ x.pos \in Nat /\ Held(x.ctxs, x.toks, x.tmp)
  BY LexersDef DEF Plainly, Good
<1>2. tmp \in Seq(Parts) /\ (tmp = <<>> <=> x.tmp = <<>>)
  BY <1>1, EndAtParts
<1>. HIDE DEF tmp
<1>3. Held(x.ctxs, x.toks, tmp)
  BY <1>1, <1>2, HeldAlike
<1>4. Held(x.ctxs, toks, <<>>)
  BY <1>2, <1>3, HeldWord
<1>. HIDE DEF toks
<1>5. Held(Grown(x.ctxs, c), Append(toks, Token(c, <<>>)), <<>>)
  BY <1>4, HeldToken
<1>6. At(EmitOperator(x, c), x.mode, Append(toks, Token(c, <<>>)), <<>>, x.pos + 1)
  BY <1>1, AtOperator DEF toks, tmp
<1>7. EmitOperator(x, c).ctxs = Grown(x.ctxs, c)
  BY <1>1, OperatorCtxs
<1>8. x.mode \in CtxModes \ Quotes
  BY DEF Plainly
<1>. QED BY <1>5, <1>6, <1>7, <1>8 DEF Plainly, At

\* What else leaves the lexer outside of quotes.
LEMMA PlainlyKept ==
  ASSUME NEW x, Plainly(x)
  PROVE  /\ Plainly(Advance(x)) /\ Plainly(CloseTmpPart(x)) /\ Plainly(WordEmit(x))
         /\ WordEmit(x).tmp = <<>>
         /\ \A m \in CtxModes \ Quotes : Plainly(In(x, m)) /\ In(x, m).tmp = x.tmp
         /\ x.tmp = <<>> => Plainly(Emit(x, "NEWLINE")) /\ Emit(x, "NEWLINE").tmp = <<>>
<1>1. /\ Good(x) /\ x.tmp \in Seq(Parts) /\ x.pos \in Nat
      /\ Held(x.ctxs, x.toks, x.tmp) /\ x.mode \in CtxModes \ Quotes
  BY LexersDef DEF Plainly, Good
<1>2. Plainly(Advance(x))
  <2>1. At(Advance(x), x.mode, x.toks, x.tmp, x.pos + 1) /\ Advance(x).ctxs = x.ctxs
    BY <1>1, AtAdvance, CtxsOf
  <2>. QED BY <1>1, <2>1 DEF Plainly, At
<1>3. Plainly(CloseTmpPart(x))
  <2>1. /\ At(CloseTmpPart(x), x.mode, x.toks, EndAt(x.tmp, x.pos), x.pos)
        /\ CloseTmpPart(x).ctxs = x.ctxs
    BY <1>1, AtClose, CtxsOf
  <2>2. EndAt(x.tmp, x.pos) = <<>> <=> x.tmp = <<>>
    BY <1>1, EndAtParts
  <2>3. Held(x.ctxs, x.toks, EndAt(x.tmp, x.pos))
    BY <1>1, <2>2, HeldAlike
  <2>. QED BY <1>1, <2>1, <2>3 DEF Plainly, At
<1>4. Plainly(WordEmit(x)) /\ WordEmit(x).tmp = <<>>
  <2>1. /\ At(WordEmit(x), x.mode, Worded(x.toks, x.tmp), <<>>, x.pos)
        /\ WordEmit(x).ctxs = x.ctxs
    BY <1>1, AtWord, CtxsOf
  <2>2. Held(x.ctxs, Worded(x.toks, x.tmp), <<>>)
    BY <1>1, HeldWord
  <2>. QED BY <1>1, <2>1, <2>2 DEF Plainly, At
<1>5. ASSUME NEW m \in CtxModes \ Quotes PROVE Plainly(In(x, m)) /\ In(x, m).tmp = x.tmp
  <2>1. m \in Modes
    BY DEF CtxModes, Modes
  <2>2. At(In(x, m), m, x.toks, x.tmp, x.pos) /\ In(x, m).ctxs = x.ctxs
    BY <1>1, <2>1, AtIn, CtxsOf
  <2>. QED BY <1>1, <2>2 DEF Plainly, At
<1>6. ASSUME x.tmp = <<>> PROVE Plainly(Emit(x, "NEWLINE")) /\ Emit(x, "NEWLINE").tmp = <<>>
  <2>1. "NEWLINE" \in TokTypes
    BY DEF TokTypes
  <2>2. /\ At(Emit(x, "NEWLINE"), x.mode, Append(x.toks, Token("NEWLINE", <<>>)), x.tmp, x.pos)
        /\ Emit(x, "NEWLINE").ctxs = x.ctxs
    BY <1>1, <2>1, AtEmit, CtxsOf
  <2>3. Held(x.ctxs, x.toks, <<>>)
    BY <1>1, <1>6
  <2>4. Held(Grown(x.ctxs, "NEWLINE"), Append(x.toks, Token("NEWLINE", <<>>)), <<>>)
    BY <2>3, HeldToken
  <2>5. Grown(x.ctxs, "NEWLINE") = x.ctxs
    BY DEF Grown, Redirs, OpContexts
  <2>. QED BY <1>1, <1>6, <2>2, <2>4, <2>5 DEF Plainly, At
<1>. QED BY <1>2, <1>3, <1>4, <1>5, <1>6

\* A part of a word that begins.
LEMMA PartPlainly ==
  ASSUME NEW x, Plainly(x)
  PROVE  Plainly(RemOpContext(TempPartCreate(x, "UQUOTE")))
<1>. DEFINE part == [type |-> "UQUOTE", start |-> x.pos, end |-> x.pos]
            new == Append(x.tmp, part)
            y == TempPartCreate(x, "UQUOTE")
<1>1. /\ Good(x) /\ x.tmp \in Seq(Parts) /\ x.pos \in Nat
      /\ Held(x.ctxs, x.toks, x.tmp) /\ x.mode \in CtxModes \ Quotes
  BY LexersDef DEF Plainly, Good
<1>2. new # <<>>
  <2>. HIDE DEF part
  <2>. QED BY <1>1, AddPop
<1>3. At(y, x.mode, x.toks, new, x.pos) /\ y.ctxs = x.ctxs
  BY <1>1, AtCreate, CtxsOf, "UQUOTE" \in PartTypes DEF PartTypes
<1>. HIDE DEF new, y
<1>4. /\ At(RemOpContext(y), x.mode, x.toks, new, x.pos)
      /\ RemOpContext(y).ctxs = PopIf(x.ctxs, OpContexts)
  BY <1>3, AtContexts, CtxsOf DEF At
<1>5. Held(PopIf(x.ctxs, OpContexts), x.toks, new)
  BY <1>1, <1>2, HeldPart
<1>6. Plainly(RemOpContext(y))
  BY <1>1, <1>4, <1>5 DEF Plainly, At
<1>. QED BY <1>6 DEF y

\* So does a quote that is opened, beneath whose context the others stay.
LEMMA QuoteCtx ==
  ASSUME NEW x, Plainly(x), NEW c \in Quotes
  PROVE  Ctx(EnterQuote(x, c))
<1>. DEFINE part == [type |-> c, start |-> x.pos + 1, end |-> x.pos + 1]
            new == Append(x.tmp, part)
            s == PopIf(x.ctxs, OpContexts)
            rem == RemOpContext(In(Advance(x), c))
            add == AddContext(rem, c)
            y == EnterQuote(x, c)
<1>1. /\ Good(x) /\ x.tmp \in Seq(Parts) /\ x.ctxs \in Seq(Contexts)
      /\ Held(x.ctxs, x.toks, x.tmp) /\ c \in Modes /\ c \in Contexts /\ c \in PartTypes
  BY LexersDef DEF Plainly, Good, Modes, Contexts, PartTypes, Quotes
<1>2. new # <<>>
  <2>. HIDE DEF part
  <2>. QED BY <1>1, AddPop
<1>3. At(y, c, x.toks, new, x.pos + 1)
  BY <1>1, AtEnterQuote
<1>. HIDE DEF new
<1>4. y = TempPartCreate(add, c)
  BY DEF EnterQuote, y, add, rem
<1>. HIDE DEF y
<1>5. Good(rem) /\ rem.ctxs = s
  <2>1. Good(Advance(x)) /\ Advance(x).ctxs = x.ctxs
    BY <1>1, AtAdvance, CtxsOf DEF At
  <2>2. Good(In(Advance(x), c)) /\ In(Advance(x), c).ctxs = x.ctxs
    BY <1>1, <2>1, AtIn, CtxsOf DEF At
  <2>. QED BY <2>2, AtContexts, CtxsOf DEF At
<1>. HIDE DEF rem
<1>6. Good(add) /\ add.ctxs = Append(s, c)
  <2>1. At(add, rem.mode, rem.toks, rem.tmp, rem.pos)
    BY <1>1, <1>5, AtContexts
  <2>2. add.ctxs = Append(rem.ctxs, c)
    BY <1>5, CtxsOf
  <2>. QED BY <1>5, <2>1, <2>2 DEF At
<1>. HIDE DEF add
<1>7. y.ctxs = Append(s, c)
  BY <1>4, <1>6, CtxsOf
<1>8. s \in Seq(Contexts)
  BY <1>1, PopSeq
<1>9. Held(s, x.toks, new)
  BY <1>1, <1>2, HeldPart
<1>. HIDE DEF s
<1>10. y.ctxs # <<>> /\ Pop(y.ctxs) = s
  BY <1>7, <1>8, AddPop
<1>11. Stack(y) = s
  BY <1>3, <1>10 DEF Stack, At
<1>12. c \in CtxModes
  BY DEF CtxModes
<1>13. Ctx(y)
  BY <1>3, <1>9, <1>10, <1>11, <1>12 DEF Ctx, At
<1>. QED BY <1>13 DEF y

\* So do the symbols inside of it and the one that closes it.
LEMMA InsideQuoteCtx ==
  ASSUME NEW x, Ctx(x), x.mode \in Quotes, NEW c, c # "\\"
  PROVE  Ctx(InsideQuote(x, c))
<1>1. /\ Good(x) /\ x.tmp \in Seq(Parts) /\ x.ctxs # <<>> /\ x.pos \in Nat
      /\ Held(Pop(x.ctxs), x.toks, x.tmp) /\ x.mode # "\"\\" /\ x.mode \in Modes
  BY LexersDef DEF Ctx, Good, Quotes, Stack, Modes
<1>2. CASE c = x.mode
  <2>. DEFINE closed == Advance(CloseTmpPart(x))
              popped == [closed EXCEPT !.ctxs = Pop(closed.ctxs)]
              y == LeaveQuote(x)
              tmp == EndAt(x.tmp, x.pos)
  <2>1. InsideQuote(x, c) = y
    BY <1>1, <1>2 DEF InsideQuote
  <2>2. At(y, "lex", x.toks, tmp, x.pos + 1)
    BY <1>1, AtLeaveQuote
  <2>3. y = In(popped, "lex")
    BY DEF LeaveQuote
  <2>. HIDE DEF y
  <2>4. Good(closed) /\ closed.ctxs = x.ctxs
    <3>1. Good(CloseTmpPart(x)) /\ CloseTmpPart(x).ctxs = x.ctxs
      BY <1>1, AtClose, CtxsOf DEF At
    <3>. QED BY <3>1, AtAdvance, CtxsOf DEF At
  <2>. HIDE DEF closed
  <2>5. popped.ctxs = Pop(x.ctxs) /\ Good(popped)
    <3>1. closed \in Lexers /\ Pop(closed.ctxs) \in Seq(Contexts)
      BY <2>4, LexersDef, PopType DEF Good
    <3>. QED BY <2>4, <3>1, ContextsGood DEF GoodAt, Lexers
  <2>. HIDE DEF popped
  <2>6. y.ctxs = Pop(x.ctxs)
    BY <2>3, <2>5, CtxsOf
  <2>7. tmp = <<>> <=> x.tmp = <<>>
    BY <1>1, EndAtParts
  <2>. HIDE DEF tmp
  <2>8. Held(y.ctxs, x.toks, tmp)
    BY <1>1, <2>6, <2>7, HeldAlike
  <2>9. "lex" \in CtxModes \ Quotes
    BY DEF CtxModes, Quotes
  <2>10. Plainly(y)
    BY <2>2, <2>8, <2>9 DEF Plainly, At
  <2>. QED BY <2>1, <2>10, PlainlyIs
<1>3. CASE c # x.mode
  <2>0. PICK z : z = Advance(x)
    OBVIOUS
  <2>1. InsideQuote(x, c) = In(z, x.mode)
    BY <1>1, <1>3, <2>0 DEF InsideQuote
  <2>2. At(z, x.mode, x.toks, x.tmp, x.pos + 1) /\ z.ctxs = x.ctxs
    BY <1>1, <2>0, AtAdvance, CtxsOf
  <2>3. At(In(z, x.mode), x.mode, x.toks, x.tmp, x.pos + 1) /\ In(z, x.mode).ctxs = x.ctxs
    <3>1. Good(z)
      BY <2>2 DEF At
    <3>2. At(In(z, x.mode), x.mode, z.toks, z.tmp, z.pos)
      BY <1>1, <3>1, AtIn
    <3>3. In(z, x.mode).ctxs = z.ctxs
      BY <3>1, CtxsOf
    <3>. QED BY <2>2, <3>2, <3>3 DEF At
  <2>4. x.mode \in CtxModes
    BY DEF Ctx
  <2>. QED BY <1>1, <2>1, <2>3, <2>4 DEF Ctx, At, Stack
<1>. QED BY <1>2, <1>3

\* A symbol between two words, or behind a part of one.
LEMMA LexNormalCtx ==
  ASSUME NEW x, Plainly(x), NEW c \in Symbols, c # "\\"
  PROVE  Ctx(LexNormal(x, c))
<1>0. "#" \in CtxModes \ Quotes /\ "word" \in CtxModes \ Quotes
  BY DEF CtxModes, Quotes
<1>1. CASE c \in Quotes
  BY <1>1, QuoteCtx DEF LexNormal
<1>2. CASE c \notin Quotes /\ c \in Operators
  BY <1>2, OperatorPlainly, PlainlyIs DEF LexNormal
<1>3. CASE c \notin Quotes /\ c \notin Operators /\ c \in Blanks
  <2>. DEFINE word == WordEmit(x)
              new == IF c = "\n" THEN Emit(word, "NEWLINE") ELSE word
  <2>1. Plainly(word) /\ word.tmp = <<>>
    BY PlainlyKept
  <2>. HIDE DEF word
  <2>2. Plainly(new)
    BY <2>1, PlainlyKept
  <2>. HIDE DEF new
  <2>3. Plainly(Advance(new))
    BY <2>2, PlainlyKept
  <2>4. LexNormal(x, c) = Advance(new)
    BY <1>3 DEF LexNormal, Separator, new, word
  <2>. QED BY <2>3, <2>4, PlainlyIs
<1>4. CASE c \notin Quotes /\ c \notin Operators /\ c \notin Blanks /\ c = "#"
  <2>1. Plainly(CloseTmpPart(x))
    BY PlainlyKept
  <2>2. Plainly(WordEmit(CloseTmpPart(x)))
    BY <2>1, PlainlyKept
  <2>3. Plainly(Advance(WordEmit(CloseTmpPart(x))))
    BY <2>2, PlainlyKept
  <2>4. Plainly(In(Advance(WordEmit(CloseTmpPart(x))), "#"))
    BY <1>0, <2>3, PlainlyKept
  <2>. QED BY <1>4, <2>4, PlainlyIs DEF LexNormal
<1>5. CASE c \notin Quotes /\ c \notin Operators /\ c \notin Blanks /\ c # "#"
  <2>. DEFINE part == RemOpContext(TempPartCreate(x, "UQUOTE"))
  <2>1. Plainly(part)
    BY PartPlainly
  <2>. HIDE DEF part
  <2>2. Plainly(In(part, "word"))
    BY <1>0, <2>1, PlainlyKept
  <2>3. Plainly(Advance(In(part, "word")))
    BY <2>2, PlainlyKept
  <2>4. LexNormal(x, c) = Advance(In(part, "word"))
    BY <1>5 DEF LexNormal, WordStep, part
  <2>. QED BY <2>3, <2>4, PlainlyIs
<1>. QED BY <1>1, <1>2, <1>3, <1>4, <1>5

\* One symbol.
LEMMA StepCtx ==
  ASSUME NEW x, Ctx(x), NEW c \in Symbols, c # "\\"
  PROVE  Ctx(Step(x, c))
<1>0. "lex" \in CtxModes \ Quotes /\ "\"\\" \notin CtxModes /\ "esc" \notin CtxModes
      /\ "escOut" \notin CtxModes
  BY DEF CtxModes, Quotes
<1>1. CASE x.mode \in Quotes
  BY <1>1, InsideQuoteCtx DEF Step
<1>2. CASE x.mode \notin Quotes
  <2>1. Plainly(x) /\ x.mode \in CtxModes
    BY <1>2, PlainlyIs DEF Ctx
  <2>2. x.mode \notin Quotes \cup {"\"\\"} /\ x.mode # "esc" /\ x.mode # "escOut"
    BY <1>0, <1>2, <2>1
  <2>3. CASE x.mode = "#" /\ c # "\n"
    BY <2>1, <2>2, <2>3, PlainlyKept, PlainlyIs DEF Step
  <2>4. CASE x.mode = "word" /\ StaysInWord(x, c)
    <3>1. Step(x, c) = Advance(x)
      BY <2>2, <2>4 DEF Step, WordStep
    <3>. QED BY <2>1, <3>1, PlainlyKept, PlainlyIs
  <2>5. CASE x.mode = "word" /\ ~StaysInWord(x, c) /\ c \in Operators
    <3>1. Step(x, c) = In(EmitOperator(x, c), "lex")
      BY <2>2, <2>5 DEF Step
    <3>2. Plainly(EmitOperator(x, c))
      BY <2>1, <2>5, OperatorPlainly
    <3>3. Plainly(In(EmitOperator(x, c), "lex"))
      BY <1>0, <3>2, PlainlyKept
    <3>. QED BY <3>1, <3>3, PlainlyIs
  <2>6. CASE x.mode = "word" /\ ~StaysInWord(x, c) /\ c \notin Operators
    <3>1. Step(x, c) = LexNormal(In(CloseTmpPart(x), "lex"), c)
      BY <2>2, <2>6 DEF Step
    <3>2. Plainly(CloseTmpPart(x))
      BY <2>1, PlainlyKept
    <3>3. Plainly(In(CloseTmpPart(x), "lex"))
      BY <1>0, <3>2, PlainlyKept
    <3>. QED BY <3>1, <3>3, LexNormalCtx
  <2>7. CASE x.mode # "word" /\ ~(x.mode = "#" /\ c # "\n")
    <3>1. Step(x, c) = LexNormal(In(x, "lex"), c)
      BY <2>2, <2>7 DEF Step
    <3>2. Plainly(In(x, "lex"))
      BY <1>0, <2>1, PlainlyKept
    <3>. QED BY <3>1, <3>2, LexNormalCtx
  <2>. QED BY <2>3, <2>4, <2>5, <2>6, <2>7
<1>. QED BY <1>1, <1>2

\* The end of a line, of which nothing is left open or of which something is.
Closed(y) ==
  /\ y.ctxs = <<>> /\ y.toks \in Seq(Tokens) /\ Kept(<<>>, Kinds(y.toks), <<>>)
  /\ \A k \in 1..(Len(y.toks) - 1) : y.toks[k].type # "EOF"
Opened(y) == y.ctxs # <<>> /\ Ctx(y) /\ (y.mode \notin Quotes => y.tmp = <<>>)

\* A line ends with everything closed, and an EOF, or with something open.
LEMMA EndChunkCtx ==
  ASSUME NEW x, Ctx(x), NEW t \in BOOLEAN
  PROVE  Closed(EndChunk(x, t)) \/ Opened(EndChunk(x, t))
<1>0. /\ "lex" \in CtxModes \ Quotes /\ "\"\\" \notin CtxModes /\ "esc" \notin CtxModes
      /\ "escOut" \notin CtxModes /\ x.mode \in CtxModes
  BY DEF CtxModes, Quotes, Ctx
<1>1. CASE x.mode \in Quotes
  <2>1. EndChunk(x, t) = x
    BY <1>1 DEF EndChunk, Quotes
  <2>. QED BY <1>1, <2>1 DEF Opened, Ctx
<1>2. CASE x.mode \notin Quotes
  <2>. DEFINE closed == IF x.mode \in {"word", "esc"} THEN CloseTmpPart(x) ELSE x
              word == In(WordEmit(closed), "lex")
              newline == IF t THEN Emit(word, "NEWLINE") ELSE word
              y == EndChunk(x, t)
  <2>1. Plainly(closed)
    BY <1>2, PlainlyIs, PlainlyKept
  <2>2. y = IF newline.ctxs = <<>> THEN Emit(newline, "EOF") ELSE newline
    BY <1>0, <1>2 DEF EndChunk
  <2>. HIDE DEF closed, y
  <2>3. Plainly(WordEmit(closed)) /\ WordEmit(closed).tmp = <<>>
    BY <2>1, PlainlyKept
  <2>4. Plainly(word) /\ word.tmp = <<>>
    BY <1>0, <2>3, PlainlyKept
  <2>. HIDE DEF word
  <2>5. Plainly(newline) /\ newline.tmp = <<>>
    BY <2>4, PlainlyKept
  <2>. HIDE DEF newline
  <2>6. CASE newline.ctxs # <<>>
    BY <2>2, <2>5, <2>6, PlainlyIs DEF Opened, y
  <2>7. CASE newline.ctxs = <<>>
    <3>. DEFINE toks == newline.toks
                more == Append(toks, Token("EOF", <<>>))
    <3>1. Good(newline) /\ toks \in Seq(Tokens) /\ NoEof(Kinds(toks)) /\ Kept(<<>>, Kinds(toks), <<>>)
      BY <2>5, <2>7 DEF Plainly, Held
    <3>2. "EOF" \in TokTypes /\ <<>> \in Seq(Parts)
      BY DEF TokTypes
    <3>3. At(y, newline.mode, more, newline.tmp, newline.pos) /\ y.ctxs = <<>>
      BY <2>2, <2>7, <3>1, <3>2, AtEmit, CtxsOf
    <3>. HIDE DEF toks
    <3>4. /\ Len(more) = Len(toks) + 1 /\ Len(toks) \in Nat
          /\ \A k \in 1..Len(toks) : more[k] = toks[k]
      <4>. DEFINE e == Token("EOF", <<>>)
      <4>1. e \in Tokens
        BY <3>2, TokenType
      <4>. HIDE DEF e
      <4>2. /\ Len(Append(toks, e)) = Len(toks) + 1 /\ Len(toks) \in Nat
            /\ \A k \in 1..Len(toks) : Append(toks, e)[k] = toks[k]
        BY <3>1, <4>1, AppendProperties
      <4>. QED BY <4>2 DEF e
    <3>5. more \in Seq(Tokens) /\ Kinds(more) = Append(Kinds(toks), "EOF")
      BY <3>1, <3>2, KindsAppend
    <3>. HIDE DEF more
    <3>6. Kinds(toks) \in Seq(TokTypes) /\ Len(Kinds(toks)) = Len(toks)
          /\ \A k \in 1..Len(toks) : Kinds(toks)[k] = toks[k].type
      BY <3>1, KindsType
    <3>7. Kept(<<>>, Kinds(more), <<>>)
      BY <3>1, <3>5, <3>6, KeptEnd
    <3>8. ASSUME NEW k \in 1..(Len(more) - 1) PROVE more[k].type # "EOF"
      <4>1. k \in 1..Len(toks)
        BY <3>4
      <4>. QED BY <3>1, <3>4, <3>6, <4>1 DEF NoEof
    <3>. QED BY <3>3, <3>5, <3>7, <3>8 DEF Closed, At, y
  <2>. QED BY <2>6, <2>7
<1>. QED BY <1>1, <1>2

\* The beginning of a line, and a newline put back.
LEMMA BeginCtx ==
  ASSUME NEW x, Opened(x)
  PROVE  Opened(BeginChunk(x)) /\ Opened(BeginChunk(PendingNewline(x)))
         /\ BeginChunk(x).toks = x.toks /\ BeginChunk(PendingNewline(x)).toks = x.toks
<1>1. ASSUME NEW z, Opened(z) PROVE Opened(Advance(z)) /\ Advance(z).toks = z.toks
  <2>1. Good(z)
    BY <1>1 DEF Opened, Ctx
  <2>2. At(Advance(z), z.mode, z.toks, z.tmp, z.pos + 1) /\ Advance(z).ctxs = z.ctxs
    BY <2>1, AtAdvance, CtxsOf
  <2>. QED BY <1>1, <2>2 DEF Opened, Ctx, At, Stack
<1>2. ASSUME NEW z, Opened(z) PROVE Opened(BeginChunk(z)) /\ BeginChunk(z).toks = z.toks
  <2>1. Good(z) /\ z \in Lexers
    BY <1>2 DEF Opened, Ctx, Good
  <2>2. Good(BeginChunk(z))
    BY <2>1, BeginChunkGood DEF GoodAt
  <2>3. /\ BeginChunk(z).ctxs = z.ctxs /\ BeginChunk(z).mode = z.mode
        /\ BeginChunk(z).tmp = z.tmp /\ BeginChunk(z).toks = z.toks
    BY <2>1 DEF BeginChunk, Lexers
  <2>. QED BY <1>2, <2>2, <2>3 DEF Opened, Ctx, Stack
<1>. QED BY <1>1, <1>2 DEF PendingNewline

-----------------------------------------------------------------------------
(* The checker, one token.                                                  *)

\* The last of some positions.
LEMMA LastOf ==
  ASSUME NEW n \in Nat, NEW S \in SUBSET (0..n), S # {}
  PROVE  \E m \in S : \A j \in S : j <= m
<1>. DEFINE T == {m \in Nat : \A R \in SUBSET (0..m) : R # {} => \E l \in R : \A j \in R : j <= l}
<1>1. 0 \in T
  <2>1. ASSUME NEW R \in SUBSET (0..0), R # {} PROVE \E l \in R : \A j \in R : j <= l
    <3>0. 0..0 = {0}
      OBVIOUS
    <3>1. 0 \in R /\ \A j \in R : j = 0
      BY <2>1, <3>0
    <3>. QED BY <3>1
  <2>. QED BY <2>1
<1>2. ASSUME NEW m \in Nat, m \in T PROVE m + 1 \in T
  <2>1. ASSUME NEW R \in SUBSET (0..(m + 1)), R # {} PROVE \E l \in R : \A j \in R : j <= l
    <3>1. CASE m + 1 \in R
      BY <3>1
    <3>2. CASE m + 1 \notin R
      <4>1. R \in SUBSET (0..m)
        BY <3>2
      <4>. QED BY <1>2, <2>1, <4>1
    <3>. QED BY <3>1, <3>2
  <2>. QED BY <2>1
<1>. HIDE DEF T
<1>3. n \in T
  BY <1>1, <1>2, NatSetInduction
<1>. QED BY <1>3 DEF T

\* A command is a run of words and redirections.
LEMMA EndOfRun ==
  ASSUME NEW toks, NEW k \in Nat, Len(toks) \in Nat, k <= Len(toks), IsCmdPart(toks[k])
  PROVE  \E last \in k..Len(toks) :
           /\ \A j \in k..last : IsCmdPart(toks[j])
           /\ last + 1 \in k..Len(toks) => ~IsCmdPart(toks[last + 1])
           /\ EndOfCommand(toks, k) = IF IsRedir(toks[last]) THEN last + 1 ELSE last
<1>. DEFINE run == {e \in k..Len(toks) : \A j \in k..e : IsCmdPart(toks[j])}
            last == CHOOSE e \in run : \A j \in run : j <= e
<1>1. k \in run
  OBVIOUS
<1>2. run \in SUBSET (0..Len(toks))
  OBVIOUS
<1>. HIDE DEF run
<1>3. \E e \in run : \A j \in run : j <= e
  BY <1>1, <1>2, LastOf
<1>4. last \in run /\ \A j \in run : j <= last
  BY <1>3
<1>5. EndOfCommand(toks, k) = IF IsRedir(toks[last]) THEN last + 1 ELSE last
  BY DEF EndOfCommand, run
<1>. HIDE DEF last
<1>6. last \in k..Len(toks) /\ \A j \in k..last : IsCmdPart(toks[j])
  BY <1>4 DEF run
<1>7. ASSUME last + 1 \in k..Len(toks), IsCmdPart(toks[last + 1]) PROVE FALSE
  <2>1. ASSUME NEW j \in k..(last + 1) PROVE IsCmdPart(toks[j])
    <3>1. j = last + 1 \/ j \in k..last
      BY <1>6
    <3>. QED BY <1>6, <1>7, <3>1
  <2>2. last + 1 \in run
    BY <1>7, <2>1 DEF run
  <2>. QED BY <1>4, <1>6, <2>2
<1>. QED BY <1>5, <1>6, <1>7

-----------------------------------------------------------------------------
(* The state of the checker.                                                 *)
\* What the components of the checker are.
LEMMA CheckerType ==
  ASSUME NEW chk \in CheckerStates
  PROVE  /\ chk.cur \in Nat /\ chk.ready \in BOOLEAN /\ chk.closed \in BOOLEAN
         /\ chk.can \in BOOLEAN /\ chk.parens \in Nat /\ chk.bad \in BOOLEAN
BY DEF CheckerStates

\* The states of the checker, with some of the components replaced.
LEMMA StatesType ==
  ASSUME NEW chk \in CheckerStates, NEW r \in BOOLEAN, NEW c \in BOOLEAN, NEW d \in BOOLEAN,
         NEW s, s = States(chk, r, c, d)
  PROVE  /\ s \in CheckerStates /\ s.cur = chk.cur /\ s.parens = chk.parens
         /\ s.ready = r /\ s.bad = chk.bad
BY DEF CheckerStates, States

\* After an unexpected token.
LEMMA BadType ==
  ASSUME NEW chk \in CheckerStates
  PROVE  Bad(chk) \in CheckerStates /\ Bad(chk).cur = chk.cur /\ Bad(chk).bad
BY DEF CheckerStates, Bad

\* With another number of parentheses.
LEMMA ParensType ==
  ASSUME NEW chk \in CheckerStates, NEW n \in Nat
  PROVE  LET s == [chk EXCEPT !.parens = n]
         IN /\ s \in CheckerStates /\ s.cur = chk.cur /\ s.parens = n
            /\ s.ready = chk.ready /\ s.bad = chk.bad
BY DEF CheckerStates

\* At another position.
LEMMA CurType ==
  ASSUME NEW chk \in CheckerStates, NEW n \in Nat
  PROVE  LET s == [chk EXCEPT !.cur = n]
         IN /\ s \in CheckerStates /\ s.cur = n /\ s.parens = chk.parens
            /\ s.ready = chk.ready /\ s.bad = chk.bad
BY DEF CheckerStates

\* What a token that is not unexpected does to the checker.
Went(toks, chk, next) ==
  LET k == chk.cur
      type == toks[k].type
  IN \/ /\ type = "NEWLINE" /\ next.cur = k /\ ~next.ready /\ next.parens = chk.parens
     \/ /\ type = "(" /\ next.cur = k /\ ~next.ready /\ next.parens = chk.parens + 1
     \/ type = "(" /\ next.cur = k /\ k = Len(toks)
     \/ /\ type = ")" /\ chk.ready /\ chk.parens # 0
        /\ next.cur = k /\ next.parens = chk.parens - 1
     \/ /\ type = "WORD" /\ ~BadCmd(toks, k)
        /\ next.cur = EndOfCommand(toks, k) /\ next.parens = chk.parens
     \/ /\ type \in Redirs /\ ~BadRedir(toks, k)
        /\ next.cur = k + 1 /\ next.parens = chk.parens
     \/ /\ type = ";" /\ chk.ready /\ next.cur = k /\ next.parens = chk.parens
     \/ /\ type \in OpContexts /\ chk.ready /\ next.cur = k
        /\ ~next.ready /\ next.parens = chk.parens

\* Every token is unexpected, or does what Went says.
LEMMA CheckTokenWent ==
  ASSUME NEW toks, Len(toks) \in Nat, NEW chk \in CheckerStates, ~chk.bad,
         chk.cur <= Len(toks), NEW next, next = CheckToken(toks, chk)
  PROVE  /\ next \in CheckerStates /\ next.cur >= chk.cur
         /\ next.bad \/ Went(toks, chk, next)
<1>. DEFINE k == chk.cur
            type == toks[k].type
<1>0. /\ k \in Nat /\ chk.ready \in BOOLEAN /\ chk.closed \in BOOLEAN
      /\ chk.can \in BOOLEAN /\ chk.parens \in Nat /\ chk.bad \in BOOLEAN
  BY CheckerType
<1>1. CASE type = "NEWLINE"
  <2>0. PICK s : s = States(chk, FALSE, TRUE, TRUE)
    OBVIOUS
  <2>1. next = s
    BY <1>1, <2>0 DEF CheckToken
  <2>3. /\ s \in CheckerStates /\ s.cur = k /\ s.parens = chk.parens
        /\ ~s.ready
    BY <1>0, <2>0, StatesType
  <2>2. /\ next \in CheckerStates /\ next.cur = k /\ next.parens = chk.parens
        /\ ~next.ready
    BY <2>1, <2>3
  <2>. QED BY <1>0, <1>1, <2>2 DEF Went
<1>2. CASE type = "("
  <2>1. next = CheckLparen(toks, chk)
    BY <1>2 DEF CheckToken
  <2>2. CASE chk.ready /\ ~chk.closed
    <3>1. PICK b \in BOOLEAN : next = [chk EXCEPT !.bad = b] /\ (b \/ k = Len(toks))
      <4>. DEFINE one == k > 1 /\ IsCmdPart(toks[k - 1]) /\ (k > 2 => ~IsCmdPart(toks[k - 2]))
                  b == one => k < Len(toks)
      <4>1. next = [chk EXCEPT !.bad = b]
        BY <2>1, <2>2 DEF CheckLparen
      <4>2. b \in BOOLEAN /\ (b \/ k = Len(toks))
        BY <1>0
      <4>. HIDE DEF b
      <4>. QED BY <4>1, <4>2
    <3>2. next \in CheckerStates /\ next.cur = k /\ next.bad = b
      BY <3>1 DEF CheckerStates
    <3>. QED BY <1>0, <1>2, <3>1, <3>2 DEF Went
  <2>3. CASE ~(chk.ready /\ ~chk.closed)
    <3>1. PICK s : s = States(chk, FALSE, FALSE, TRUE)
      OBVIOUS
    <3>2. next = [s EXCEPT !.parens = s.parens + 1]
      BY <2>1, <2>3, <3>1 DEF CheckLparen
    <3>3. s \in CheckerStates /\ s.cur = k /\ s.parens = chk.parens /\ ~s.ready
      BY <1>0, <3>1, StatesType
    <3>4. s.parens + 1 \in Nat
      BY <1>0, <3>3
    <3>5. /\ next \in CheckerStates /\ next.cur = k /\ next.parens = chk.parens + 1
          /\ next.ready = s.ready
      BY <3>2, <3>3, <3>4, ParensType
    <3>. QED BY <1>0, <1>2, <3>3, <3>5 DEF Went
  <2>. QED BY <2>2, <2>3
<1>3. CASE type = ")"
  <2>1. next = CheckRparen(chk)
    BY <1>3 DEF CheckToken
  <2>2. CASE ~chk.ready \/ chk.parens = 0
    <3>1. next = Bad(chk)
      BY <2>1, <2>2 DEF CheckRparen
    <3>2. next \in CheckerStates /\ next.cur = k /\ next.bad
      BY <3>1, BadType
    <3>. QED BY <1>0, <3>2
  <2>3. CASE chk.ready /\ chk.parens # 0
    <3>1. PICK s : s = States(chk, TRUE, FALSE, FALSE)
      OBVIOUS
    <3>2. next = [s EXCEPT !.parens = s.parens - 1]
      BY <2>1, <2>3, <3>1 DEF CheckRparen
    <3>3. s \in CheckerStates /\ s.cur = k /\ s.parens = chk.parens
      BY <1>0, <3>1, StatesType
    <3>4. s.parens - 1 \in Nat
      BY <1>0, <2>3, <3>3
    <3>5. next \in CheckerStates /\ next.cur = k /\ next.parens = chk.parens - 1
      BY <3>2, <3>3, <3>4, ParensType
    <3>. QED BY <1>0, <1>3, <2>3, <3>5 DEF Went
  <2>. QED BY <2>2, <2>3
<1>4. CASE type = "WORD"
  <2>1. next = CheckCommand(toks, chk)
    BY <1>4 DEF CheckToken
  <2>2. CASE ~chk.can \/ BadCmd(toks, k)
    <3>1. next = Bad(chk)
      BY <1>4, <2>1, <2>2 DEF CheckCommand
    <3>2. next \in CheckerStates /\ next.cur = k /\ next.bad
      BY <3>1, BadType
    <3>. QED BY <1>0, <3>2
  <2>3. CASE ~(~chk.can \/ BadCmd(toks, k))
    <3>1. PICK s : s = States(chk, TRUE, FALSE, FALSE)
      OBVIOUS
    <3>2. next = [s EXCEPT !.cur = EndOfCommand(toks, s.cur)]
      BY <1>4, <2>1, <2>3, <3>1 DEF CheckCommand
    <3>3. s \in CheckerStates /\ s.cur = k /\ s.parens = chk.parens
      BY <1>0, <3>1, StatesType
    <3>4. EndOfCommand(toks, k) \in Nat /\ EndOfCommand(toks, k) >= k
      <4>1. IsCmdPart(toks[k])
        BY <1>4 DEF IsCmdPart
      <4>2. \E last \in k..Len(toks) :
              EndOfCommand(toks, k) = IF IsRedir(toks[last]) THEN last + 1 ELSE last
        BY <1>0, <4>1, EndOfRun
      <4>. HIDE DEF k
      <4>. QED BY <1>0, <4>2
    <3>5. /\ next \in CheckerStates /\ next.cur = EndOfCommand(toks, k)
          /\ next.parens = chk.parens
      BY <3>2, <3>3, <3>4, CurType
    <3>. QED BY <1>0, <1>4, <2>3, <3>4, <3>5 DEF Went
  <2>. QED BY <2>2, <2>3
<1>5. CASE type \in Redirs
  <2>0. type \notin {"NEWLINE", "(", ")", "WORD"}
    BY <1>5 DEF Redirs
  <2>1. next = CheckCommand(toks, chk)
    BY <1>5, <2>0 DEF CheckToken, IsRedir
  <2>2. CASE BadRedir(toks, k)
    <3>1. next = Bad(chk)
      BY <2>0, <2>1, <2>2 DEF CheckCommand
    <3>2. next \in CheckerStates /\ next.cur = k /\ next.bad
      BY <3>1, BadType
    <3>. QED BY <1>0, <3>2
  <2>3. CASE ~BadRedir(toks, k)
    <3>0. PICK d \in BOOLEAN : d = chk.can
      BY <1>0
    <3>1. PICK s : s = States(chk, TRUE, FALSE, d)
      OBVIOUS
    <3>2. next = [s EXCEPT !.cur = s.cur + 1]
      BY <2>0, <2>1, <2>3, <3>0, <3>1 DEF CheckCommand
    <3>3. s \in CheckerStates /\ s.cur = k /\ s.parens = chk.parens
      BY <3>1 DEF States, CheckerStates
    <3>4. k + 1 \in Nat /\ k + 1 >= k
      BY <1>0
    <3>5. next \in CheckerStates /\ next.cur = k + 1 /\ next.parens = chk.parens
      BY <3>2, <3>3, <3>4, CurType
    <3>. QED BY <1>5, <2>3, <3>4, <3>5 DEF Went
  <2>. QED BY <2>2, <2>3
<1>6. CASE type \notin {"NEWLINE", "(", ")", "WORD"} \cup Redirs
  <2>1. next = CheckSeparator(toks, chk)
    BY <1>6 DEF CheckToken, IsRedir
  <2>2. CASE ~chk.ready \/ (~IsSep(toks[k]) /\ ~IsBinary(toks[k]))
    <3>1. next = Bad(chk)
      BY <2>1, <2>2 DEF CheckSeparator
    <3>2. next \in CheckerStates /\ next.cur = k /\ next.bad
      BY <3>1, BadType
    <3>. QED BY <1>0, <3>2
  <2>3. CASE chk.ready /\ IsSep(toks[k])
    <3>0. PICK s : s = States(chk, TRUE, TRUE, TRUE)
      OBVIOUS
    <3>1. next = s
      BY <2>1, <2>3, <3>0 DEF CheckSeparator
    <3>4. s \in CheckerStates /\ s.cur = k /\ s.parens = chk.parens
      BY <1>0, <3>0, StatesType
    <3>2. next \in CheckerStates /\ next.cur = k /\ next.parens = chk.parens
      BY <3>1, <3>4
    <3>3. type = ";" /\ chk.ready
      BY <1>6, <2>3 DEF IsSep
    <3>5. Went(toks, chk, next)
      BY <3>2, <3>3 DEF Went
    <3>. QED BY <1>0, <3>2, <3>5
  <2>4. CASE chk.ready /\ ~IsSep(toks[k]) /\ IsBinary(toks[k])
    <3>0. PICK s : s = States(chk, FALSE, FALSE, TRUE)
      OBVIOUS
    <3>1. next = s
      BY <2>1, <2>4, <3>0 DEF CheckSeparator
    <3>4. s \in CheckerStates /\ s.cur = k /\ s.parens = chk.parens /\ ~s.ready
      BY <1>0, <3>0, StatesType
    <3>2. next \in CheckerStates /\ next.cur = k /\ next.parens = chk.parens /\ ~next.ready
      BY <3>1, <3>4
    <3>3. type \in OpContexts /\ chk.ready
      BY <2>4 DEF IsBinary
    <3>5. Went(toks, chk, next)
      BY <3>2, <3>3 DEF Went
    <3>. QED BY <1>0, <3>2, <3>5
  <2>. QED BY <2>2, <2>3, <2>4
<1>. QED BY <1>1, <1>2, <1>3, <1>4, <1>5, <1>6

-----------------------------------------------------------------------------
(* The checker, from the head of the list.                                  *)

\* One turn of check_tokens, the rest being done by f.
Goes(toks, f, chk) ==
  IF chk.bad \/ chk.cur > Len(toks) \/ toks[chk.cur].type = "EOF" THEN chk
  ELSE LET next == CheckToken(toks, chk)
       IN IF next.bad THEN next ELSE f[[next EXCEPT !.cur = next.cur + 1]]
Walks(toks, f, n) ==
  \A chk \in CheckerStates : chk.cur + n > Len(toks) => f[chk] = Goes(toks, f, chk)

\* The checker never goes back.
LEMMA WalkBehind ==
  ASSUME NEW toks, Len(toks) \in Nat, NEW chk \in CheckerStates,
         ~(chk.bad \/ chk.cur > Len(toks)), NEW next, next = CheckToken(toks, chk)
  PROVE  /\ [next EXCEPT !.cur = next.cur + 1] \in CheckerStates
         /\ [next EXCEPT !.cur = next.cur + 1].cur > chk.cur
<1>1. /\ chk.cur \in Nat /\ ~chk.bad /\ chk.cur <= Len(toks)
  BY CheckerType
<1>2. next \in CheckerStates /\ next.cur >= chk.cur
  BY <1>1, CheckTokenWent
<1>3. next.cur + 1 \in Nat /\ next.cur + 1 > chk.cur
  BY <1>1, <1>2, CheckerType
<1>. QED BY <1>2, <1>3, CurType

\* There is a walk from every position, by the number of tokens behind it.
LEMMA WalksExist ==
  ASSUME NEW toks, Len(toks) \in Nat, NEW n \in Nat
  PROVE  \E f : Walks(toks, f, n)
<1>. DEFINE S == {m \in Nat : \E f : Walks(toks, f, m)}
<1>1. 0 \in S
  <2>. DEFINE f == [chk \in CheckerStates |-> chk]
  <2>1. ASSUME NEW chk \in CheckerStates, chk.cur + 0 > Len(toks)
        PROVE  f[chk] = Goes(toks, f, chk)
    <3>1. chk.cur > Len(toks)
      BY <2>1, CheckerType
    <3>. QED BY <3>1 DEF Goes
  <2>2. Walks(toks, f, 0)
    <3>. HIDE DEF f
    <3>. QED BY <2>1 DEF Walks
  <2>. QED BY <2>2
<1>2. ASSUME NEW m \in Nat, m \in S PROVE m + 1 \in S
  <2>1. PICK f : Walks(toks, f, m)
    BY <1>2
  <2>. DEFINE new == [chk \in CheckerStates |-> Goes(toks, f, chk)]
  <2>2. \A chk \in CheckerStates : new[chk] = Goes(toks, f, chk)
    OBVIOUS
  <2>. HIDE DEF new
  <2>3. ASSUME NEW chk \in CheckerStates, chk.cur + (m + 1) > Len(toks)
        PROVE  new[chk] = Goes(toks, new, chk)
    <3>1. CASE chk.bad \/ chk.cur > Len(toks) \/ toks[chk.cur].type = "EOF"
      BY <2>2, <3>1 DEF Goes
    <3>2. CASE ~(chk.bad \/ chk.cur > Len(toks) \/ toks[chk.cur].type = "EOF")
      <4>1. PICK next : next = CheckToken(toks, chk)
        OBVIOUS
      <4>2. PICK on : on = [next EXCEPT !.cur = next.cur + 1]
        OBVIOUS
      <4>3. on \in CheckerStates /\ on.cur > chk.cur
        BY <3>2, <4>1, <4>2, WalkBehind
      <4>4. on.cur + m > Len(toks)
        <5>1. on.cur \in Nat /\ chk.cur \in Nat
          BY <4>3, CheckerType
        <5>. QED BY <2>3, <4>3, <5>1
      <4>5. new[on] = f[on]
        BY <2>1, <2>2, <4>3, <4>4 DEF Walks
      <4>6. Goes(toks, f, chk) = IF next.bad THEN next ELSE f[on]
        BY <3>2, <4>1, <4>2 DEF Goes
      <4>7. Goes(toks, new, chk) = IF next.bad THEN next ELSE new[on]
        BY <3>2, <4>1, <4>2 DEF Goes
      <4>. QED BY <2>2, <4>5, <4>6, <4>7
    <3>. QED BY <3>1, <3>2
  <2>4. Walks(toks, new, m + 1)
    BY <2>3 DEF Walks
  <2>. QED BY <2>4
<1>. HIDE DEF S
<1>3. n \in S
  BY <1>1, <1>2, NatSetInduction
<1>. QED BY <1>3 DEF S

\* CheckFrom walks.
LEMMA CheckFromIs ==
  ASSUME NEW toks, Len(toks) \in Nat, NEW start \in CheckerStates
  PROVE  \E g : /\ CheckFrom(toks, start) = g[start]
                /\ \A chk \in CheckerStates : g[chk] = Goes(toks, g, chk)
<1>. DEFINE Body(h) == [chk \in CheckerStates |-> Goes(toks, h, chk)]
            go == CHOOSE h : h = Body(h)
<1>1. CheckFrom(toks, start) = go[start]
  BY DEF CheckFrom, Goes
<1>2. \E h : h = Body(h)
  <2>1. PICK f : Walks(toks, f, Len(toks) + 1)
    BY WalksExist
  <2>2. ASSUME NEW chk \in CheckerStates PROVE f[chk] = Goes(toks, f, chk)
    <3>1. chk.cur + (Len(toks) + 1) > Len(toks)
      BY CheckerType
    <3>. QED BY <2>1, <3>1 DEF Walks
  <2>. DEFINE g == [chk \in CheckerStates |-> f[chk]]
  <2>3. \A chk \in CheckerStates : g[chk] = f[chk]
    OBVIOUS
  <2>4. g = [chk \in CheckerStates |-> g[chk]]
    OBVIOUS
  <2>. HIDE DEF g
  <2>5. ASSUME NEW chk \in CheckerStates PROVE g[chk] = Goes(toks, g, chk)
    <3>1. CASE chk.bad \/ chk.cur > Len(toks) \/ toks[chk.cur].type = "EOF"
      <4>1. Goes(toks, f, chk) = chk /\ Goes(toks, g, chk) = chk
        BY <3>1 DEF Goes
      <4>. QED BY <2>2, <2>3, <4>1
    <3>2. CASE ~(chk.bad \/ chk.cur > Len(toks) \/ toks[chk.cur].type = "EOF")
      <4>1. PICK next : next = CheckToken(toks, chk)
        OBVIOUS
      <4>2. PICK on : on = [next EXCEPT !.cur = next.cur + 1]
        OBVIOUS
      <4>3. on \in CheckerStates
        BY <3>2, <4>1, <4>2, WalkBehind
      <4>4. Goes(toks, f, chk) = IF next.bad THEN next ELSE f[on]
        BY <3>2, <4>1, <4>2 DEF Goes
      <4>5. Goes(toks, g, chk) = IF next.bad THEN next ELSE g[on]
        BY <3>2, <4>1, <4>2 DEF Goes
      <4>. QED BY <2>2, <2>3, <4>3, <4>4, <4>5
    <3>. QED BY <3>1, <3>2
  <2>6. g = Body(g)
    BY <2>4, <2>5
  <2>. QED BY <2>6
<1>3. go = Body(go)
  <2>. HIDE DEF Body
  <2>. QED BY <1>2
<1>. HIDE DEF go
<1>4. \A chk \in CheckerStates : go[chk] = Goes(toks, go, chk)
  <2>1. \A chk \in CheckerStates : Body(go)[chk] = Goes(toks, go, chk)
    OBVIOUS
  <2>. HIDE DEF Body
  <2>. QED BY <1>3, <2>1
<1>. QED BY <1>1, <1>4

-----------------------------------------------------------------------------
(* What the checker has seen to.                                             *)
\* What the checker has seen to of the tokens before its position.
Seen(ty, chk) ==
  /\ chk \in CheckerStates /\ ~chk.bad /\ chk.cur >= 1
  /\ chk.cur > Len(ty) => OrderedTo(ty, Len(ty))
  /\ chk.cur <= Len(ty) =>
       /\ OrderedTo(ty, chk.cur - 1)
       /\ chk.ready => ~JoinsLast(ty, chk.cur - 1)
       /\ chk.parens + Tally(ty, ")", chk.cur - 1) = Tally(ty, "(", chk.cur - 1)

\* A run of tokens that are part of a command.
LEMMA RunOrdered ==
  ASSUME NEW ty, NEW k \in Nat, k >= 1, NEW m \in Nat, m >= k, OrderedTo(ty, k - 1),
         \A j \in k..m : ty[j] \in {"WORD", "BODY"} \cup Redirs
  PROVE  /\ OrderedTo(ty, m) /\ ~JoinsLast(ty, m)
         /\ Tally(ty, "(", m) = Tally(ty, "(", k - 1)
         /\ Tally(ty, ")", m) = Tally(ty, ")", k - 1)
<1>0. \A c \in {"WORD", "BODY"} \cup Redirs :
        c \notin CtrlOps \cup {")"} /\ c \notin OpContexts /\ c \notin {"(", ")", "NEWLINE"}
  BY DEF Redirs, CtrlOps, OpContexts
<1>1. ASSUME NEW j \in 1..m PROVE j \in 1..(k - 1) \/ j \in k..m
  OBVIOUS
<1>2. OrderedTo(ty, m)
  <2>1. ASSUME NEW j \in 1..m PROVE OrderedAt(ty, j)
    <3>1. CASE j \in 1..(k - 1)
      BY <3>1 DEF OrderedTo
    <3>2. CASE j \in k..m
      BY <1>0, <3>2 DEF OrderedAt
    <3>. QED BY <1>1, <3>1, <3>2
  <2>. QED BY <2>1 DEF OrderedTo
<1>3. ~JoinsLast(ty, m)
  <2>0. ty[m] \in {"WORD", "BODY"} \cup Redirs
    OBVIOUS
  <2>1. ty[m] \notin OpContexts /\ ty[m] # "NEWLINE"
    BY <1>0, <2>0
  <2>2. ASSUME NEW j \in 1..m, ty[j] \in OpContexts, \A i \in (j + 1)..m : ty[i] = "NEWLINE"
        PROVE  FALSE
    <3>1. j = m \/ m \in (j + 1)..m
      OBVIOUS
    <3>. QED BY <2>1, <2>2, <3>1
  <2>. QED BY <2>2 DEF JoinsLast
<1>4. ASSUME NEW v \in {"(", ")"} PROVE Tally(ty, v, m) = Tally(ty, v, k - 1)
  <2>1. \A j \in 1..m : ty[j] = v => j \in 1..(k - 1)
    BY <1>0, <1>1
  <2>2. \A j \in 1..(k - 1) : j \in 1..m
    OBVIOUS
  <2>3. {j \in 1..m : ty[j] = v} = {j \in 1..(k - 1) : ty[j] = v}
    BY <2>1, <2>2
  <2>. QED BY <2>3 DEF Tally
<1>. QED BY <1>2, <1>3, <1>4

\* One token more, which is part of no command.
LEMMA OneOrdered ==
  ASSUME NEW ty, NEW k \in Nat, k >= 1, NEW c, Has(ty, k, c), OrderedTo(ty, k - 1),
         c \in CtrlOps \cup {")"} => ~JoinsLast(ty, k - 1),
         c = ")" => Tally(ty, ")", k - 1) < Tally(ty, "(", k - 1)
  PROVE  /\ OrderedTo(ty, k)
         /\ Tally(ty, "(", k - 1) \in Nat /\ Tally(ty, ")", k - 1) \in Nat
         /\ Tally(ty, "(", k) = IF c = "(" THEN Tally(ty, "(", k - 1) + 1 ELSE Tally(ty, "(", k - 1)
         /\ Tally(ty, ")", k) = IF c = ")" THEN Tally(ty, ")", k - 1) + 1 ELSE Tally(ty, ")", k - 1)
         /\ c \notin OpContexts \cup {"NEWLINE"} => ~JoinsLast(ty, k)
<1>1. PICK n \in Nat : k = n + 1 /\ n = k - 1
  OBVIOUS
<1>2. ty[n + 1] = c /\ ty[k] = c
  BY <1>1 DEF Has
<1>3. OrderedTo(ty, k)
  <2>1. ASSUME NEW j \in 1..k PROVE OrderedAt(ty, j)
    <3>1. j \in 1..n \/ j = k
      BY <1>1
    <3>2. OrderedAt(ty, k)
      BY <1>2 DEF OrderedAt
    <3>. QED BY <1>1, <3>1, <3>2 DEF OrderedTo
  <2>. QED BY <2>1 DEF OrderedTo
<1>4. \A v : /\ Tally(ty, v, n) \in Nat
             /\ Tally(ty, v, n + 1) = IF c = v THEN Tally(ty, v, n) + 1 ELSE Tally(ty, v, n)
  BY <1>2, TallyIs
<1>5. JoinsLast(ty, n + 1) <=> c \in OpContexts \/ (c = "NEWLINE" /\ JoinsLast(ty, n))
  BY <1>2, JoinsNext
<1>6. c \notin OpContexts \cup {"NEWLINE"} => ~JoinsLast(ty, k)
  BY <1>1, <1>5
<1>7. /\ Tally(ty, "(", n) \in Nat
      /\ Tally(ty, "(", n + 1) = IF c = "(" THEN Tally(ty, "(", n) + 1 ELSE Tally(ty, "(", n)
  BY <1>4
<1>8. /\ Tally(ty, ")", n) \in Nat
      /\ Tally(ty, ")", n + 1) = IF c = ")" THEN Tally(ty, ")", n) + 1 ELSE Tally(ty, ")", n)
  BY <1>4
<1>. QED BY <1>1, <1>3, <1>6, <1>7, <1>8

\* The checker goes on after a token, or a run of them.
LEMMA SeenOn ==
  ASSUME NEW toks \in Seq(Tokens), NEW ty, ty = Kinds(toks), NEW chk, Seen(ty, chk),
         chk.cur <= Len(toks), NEW next \in CheckerStates, ~next.bad, Went(toks, chk, next),
         NEW on, on = [next EXCEPT !.cur = next.cur + 1]
  PROVE  Seen(ty, on)
<1>. DEFINE k == chk.cur
            n == Len(ty)
            c == ty[k]
            open == Tally(ty, "(", k - 1)
            shut == Tally(ty, ")", k - 1)
<1>1. /\ ty \in Seq(TokTypes) /\ Len(toks) = n /\ n \in Nat
      /\ \A j \in 1..n : ty[j] = toks[j].type
  BY KindsType
<1>2. /\ k \in Nat /\ k >= 1 /\ k <= n /\ OrderedTo(ty, k - 1) /\ k - 1 \in Nat
      /\ chk.ready => ~JoinsLast(ty, k - 1)
      /\ chk.parens + shut = open /\ chk.parens \in Nat
  BY <1>1, CheckerType DEF Seen
<1>3. c = toks[k].type /\ Has(ty, k, c)
  BY <1>1, <1>2 DEF Has
<1>4. /\ on \in CheckerStates /\ on.cur = next.cur + 1 /\ on.parens = next.parens
      /\ on.ready = next.ready /\ ~on.bad /\ next.cur \in Nat /\ on.cur >= 1
  <2>1. next.cur \in Nat /\ next.cur + 1 \in Nat
    BY CheckerType
  <2>. QED BY <2>1, CurType
<1>5. \A m \in Nat : Tally(ty, "(", m) \in Nat /\ Tally(ty, ")", m) \in Nat
  BY TallyIs
<1>6. open \in Nat /\ shut \in Nat
  BY <1>2, <1>5
\* The position after the end is good if everything was seen to.
<1>7. ASSUME OrderedTo(ty, n), on.cur > n PROVE Seen(ty, on)
  <2>1. ~(on.cur <= n)
    BY <1>1, <1>4, <1>7
  <2>. QED BY <1>4, <1>7, <2>1 DEF Seen
<1>8. ASSUME NEW m \in Nat, m >= 1, on.cur = m + 1, m <= n,
             OrderedTo(ty, m), on.ready => ~JoinsLast(ty, m),
             on.parens + Tally(ty, ")", m) = Tally(ty, "(", m)
      PROVE  Seen(ty, on)
  <2>1. on.cur - 1 = m
    BY <1>8
  <2>2. on.cur > n => m = n
    BY <1>1, <1>8
  <2>. QED BY <1>4, <1>8, <2>1, <2>2 DEF Seen
\* A token by itself.
<1>9. ASSUME next.cur = k, c \in CtrlOps \cup {")"} => chk.ready, c = ")" => chk.parens # 0,
             next.ready => c \notin OpContexts \cup {"NEWLINE"},
             next.parens = IF c = "(" THEN chk.parens + 1
                           ELSE IF c = ")" THEN chk.parens - 1 ELSE chk.parens
      PROVE  Seen(ty, on)
  <2>1. c = ")" => shut < open
    BY <1>2, <1>6, <1>9
  <2>2. c \in CtrlOps \cup {")"} => ~JoinsLast(ty, k - 1)
    BY <1>2, <1>9
  <2>3. /\ OrderedTo(ty, k)
        /\ Tally(ty, "(", k) = IF c = "(" THEN open + 1 ELSE open
        /\ Tally(ty, ")", k) = IF c = ")" THEN shut + 1 ELSE shut
        /\ c \notin OpContexts \cup {"NEWLINE"} => ~JoinsLast(ty, k)
    <3>. HIDE DEF c, k
    <3>. QED BY <1>2, <1>3, <2>1, <2>2, OneOrdered
  <2>. HIDE DEF c, open, shut, k, n
  <2>4. on.parens + Tally(ty, ")", k) = Tally(ty, "(", k)
    <3>1. /\ on.parens = (IF c = "(" THEN chk.parens + 1
                           ELSE IF c = ")" THEN chk.parens - 1 ELSE chk.parens)
          /\ Tally(ty, "(", k) = (IF c = "(" THEN open + 1 ELSE open)
          /\ Tally(ty, ")", k) = (IF c = ")" THEN shut + 1 ELSE shut)
      BY <1>4, <1>9, <2>3
    <3>2. open \in Int /\ shut \in Int /\ chk.parens \in Int /\ chk.parens + shut = open
      BY <1>2, <1>6
    <3>3. CASE c = "("
      BY <3>1, <3>2, <3>3
    <3>4. CASE c = ")"
      BY <3>1, <3>2, <3>4
    <3>5. CASE c # "(" /\ c # ")"
      BY <3>1, <3>2, <3>5
    <3>. QED BY <3>3, <3>4, <3>5
  <2>5. on.ready => ~JoinsLast(ty, k)
    BY <1>4, <1>9, <2>3
  <2>6. on.cur = k + 1
    BY <1>4, <1>9
  <2>. QED BY <1>2, <1>8, <2>3, <2>4, <2>5, <2>6
\* A run.
<1>10. ASSUME NEW m \in Nat, m >= k, m <= n,
              \A j \in k..m : ty[j] \in {"WORD", "BODY"} \cup Redirs,
              next.cur = m \/ (next.cur = m + 1 /\ m = n), next.parens = chk.parens
       PROVE  Seen(ty, on)
  <2>1. /\ OrderedTo(ty, m) /\ ~JoinsLast(ty, m)
        /\ Tally(ty, "(", m) = open /\ Tally(ty, ")", m) = shut
    BY <1>2, <1>10, RunOrdered
  <2>2. CASE next.cur = m
    <3>1. on.parens + Tally(ty, ")", m) = Tally(ty, "(", m)
      BY <1>2, <1>4, <1>10, <2>1
    <3>2. m >= 1 /\ on.cur = m + 1
      BY <1>2, <1>4, <1>10, <2>2
    <3>. QED BY <1>8, <1>10, <2>1, <3>1, <3>2
  <2>3. CASE next.cur = m + 1 /\ m = n
    <3>1. on.cur > n
      BY <1>1, <1>4, <2>3
    <3>. QED BY <1>7, <2>1, <2>3, <3>1
  <2>. QED BY <1>10, <2>2, <2>3
<1>11. CASE c = "NEWLINE" /\ next.cur = k /\ ~next.ready /\ next.parens = chk.parens
  BY <1>9, <1>11 DEF CtrlOps
<1>12. CASE c = "(" /\ next.cur = k /\ ~next.ready /\ next.parens = chk.parens + 1
  BY <1>9, <1>12 DEF CtrlOps
<1>13. CASE c = "(" /\ next.cur = k /\ k = Len(toks)
  <2>1. c \notin CtrlOps \cup {")"} /\ c # ")"
    BY <1>13 DEF CtrlOps
  <2>2. OrderedTo(ty, k)
    <3>. HIDE DEF c, k
    <3>. QED BY <1>2, <1>3, <2>1, OneOrdered
  <2>3. k = n /\ on.cur > n
    BY <1>1, <1>4, <1>13
  <2>. QED BY <1>7, <2>2, <2>3
<1>14. CASE c = ")" /\ chk.ready /\ chk.parens # 0 /\ next.cur = k
            /\ next.parens = chk.parens - 1
  BY <1>9, <1>14 DEF OpContexts
<1>15. CASE c = "WORD" /\ ~BadCmd(toks, k) /\ next.cur = EndOfCommand(toks, k)
            /\ next.parens = chk.parens
  <2>1. IsCmdPart(toks[k])
    BY <1>3, <1>15 DEF IsCmdPart
  <2>2. PICK m \in k..n :
           /\ \A j \in k..m : IsCmdPart(toks[j])
           /\ m + 1 \in k..n => ~IsCmdPart(toks[m + 1])
           /\ EndOfCommand(toks, k) = IF IsRedir(toks[m]) THEN m + 1 ELSE m
    <3>. HIDE DEF k, n, c
    <3>. QED BY <1>1, <1>2, <2>1, EndOfRun
  <2>3. m \in Nat /\ m >= k /\ m <= n
    BY <1>2, <2>2
  <2>4. \A j \in k..m : ty[j] \in {"WORD", "BODY"} \cup Redirs
    BY <1>1, <1>2, <2>2 DEF IsCmdPart
  <2>5. ASSUME IsRedir(toks[m]) PROVE m = n
    <3>1. ASSUME m # n PROVE FALSE
      <4>1. m < n /\ m + 1 \in k..n
        BY <1>1, <1>2, <2>3, <3>1
      <4>2. toks[m + 1].type # "WORD"
        BY <2>2, <4>1 DEF IsCmdPart
      <4>3. BadRedir(toks, m)
        BY <1>1, <2>5, <4>1, <4>2 DEF BadRedir
      <4>4. m \in k..Len(toks)
        BY <1>1, <2>2
      <4>. QED BY <1>15, <2>2, <4>3, <4>4 DEF BadCmd
    <3>. QED BY <3>1
  <2>6. next.cur = m \/ (next.cur = m + 1 /\ m = n)
    BY <1>15, <2>2, <2>5
  <2>. QED BY <1>10, <1>15, <2>3, <2>4, <2>6
<1>16. CASE c \in Redirs /\ ~BadRedir(toks, k) /\ next.cur = k + 1
            /\ next.parens = chk.parens
  <2>1. CASE k = n
    <3>1. \A j \in k..k : ty[j] \in {"WORD", "BODY"} \cup Redirs
      BY <1>2, <1>16
    <3>. QED BY <1>2, <1>10, <1>16, <2>1, <3>1
  <2>2. CASE k # n
    <3>1. k + 1 \in 1..n /\ k < Len(toks)
      BY <1>1, <1>2, <2>2
    <3>2. toks[k + 1].type = "WORD"
      BY <1>3, <1>16, <3>1 DEF BadRedir, IsRedir
    <3>3. ty[k + 1] = "WORD"
      BY <1>1, <3>1, <3>2
    <3>4. \A j \in k..(k + 1) : ty[j] \in {"WORD", "BODY"} \cup Redirs
      <4>1. \A j \in k..(k + 1) : j = k \/ j = k + 1
        BY <1>2
      <4>. QED BY <1>16, <3>3, <4>1
    <3>5. k + 1 \in Nat /\ k + 1 >= k /\ k + 1 <= n
      BY <1>2, <3>1
    <3>. QED BY <1>10, <1>16, <3>4, <3>5
  <2>. QED BY <2>1, <2>2
<1>17. CASE c = ";" /\ chk.ready /\ next.cur = k /\ next.parens = chk.parens
  BY <1>9, <1>17 DEF OpContexts
<1>18. CASE c \in OpContexts /\ chk.ready /\ next.cur = k /\ ~next.ready
            /\ next.parens = chk.parens
  <2>1. c # "(" /\ c # ")"
    BY <1>18 DEF OpContexts
  <2>. QED BY <1>9, <1>18, <2>1
<1>19. Went(toks, chk, next)
  OBVIOUS
<1>. HIDE DEF c
<1>. QED BY <1>3, <1>11, <1>12, <1>13, <1>14, <1>15, <1>16, <1>17, <1>18, <1>19 DEF Went

\* The checker refuses a list whose operators are out of place.
LEMMA CheckedOrdered ==
  ASSUME NEW toks \in Seq(Tokens), ~IsBadSyntax(toks),
         \A k \in 1..(Len(toks) - 1) : toks[k].type # "EOF"
  PROVE  OrderedTo(Kinds(toks), Len(toks))
<1>1. PICK ty : ty = Kinds(toks)
  OBVIOUS
<1>2. PICK n \in Nat : n = Len(toks)
  OBVIOUS
<1>3. ty \in Seq(TokTypes) /\ Len(ty) = n /\ \A k \in 1..n : ty[k] = toks[k].type
  BY <1>1, <1>2, KindsType
<1>4. PICK first : first = NewChecker(1)
  OBVIOUS
<1>5. first \in CheckerStates /\ ~first.bad /\ first.cur = 1 /\ ~first.ready /\ first.parens = 0
  BY <1>4 DEF NewChecker, CheckerStates
<1>6. PICK g : /\ CheckFrom(toks, first) = g[first]
               /\ \A chk \in CheckerStates : g[chk] = Goes(toks, g, chk)
  BY <1>2, <1>5, CheckFromIs
<1>7. ~g[first].bad
  BY <1>4, <1>6 DEF IsBadSyntax
<1>. DEFINE S == {m \in Nat : \A chk \in CheckerStates :
                    Seen(ty, chk) /\ ~g[chk].bad /\ chk.cur + m > n => OrderedTo(ty, n)}
<1>8. 0 \in S
  <2>1. ASSUME NEW chk \in CheckerStates, Seen(ty, chk), chk.cur + 0 > n PROVE OrderedTo(ty, n)
    <3>1. chk.cur > n
      BY <2>1, CheckerType
    <3>. QED BY <1>3, <2>1, <3>1 DEF Seen
  <2>. QED BY <2>1
<1>9. ASSUME NEW m \in Nat, m \in S PROVE m + 1 \in S
  <2>1. ASSUME NEW chk \in CheckerStates, Seen(ty, chk), ~g[chk].bad, chk.cur + (m + 1) > n
        PROVE  OrderedTo(ty, n)
    <3>0. chk.cur \in Nat /\ chk.cur >= 1 /\ ~chk.bad
      BY <2>1, CheckerType DEF Seen
    <3>1. CASE chk.cur > n
      BY <1>3, <2>1, <3>1 DEF Seen
    <3>2. CASE chk.cur <= n /\ toks[chk.cur].type = "EOF"
      <4>1. chk.cur = n
        BY <1>2, <3>0, <3>2
      <4>2. ty[n] = "EOF" /\ n \in Nat /\ n >= 1
        BY <1>3, <3>0, <3>2, <4>1
      <4>3. OrderedTo(ty, n - 1)
        BY <1>3, <2>1, <4>1, <3>2 DEF Seen
      <4>4. Has(ty, n, "EOF") /\ "EOF" \notin CtrlOps \cup {")"}
        BY <4>2 DEF Has, CtrlOps
      <4>. QED BY <4>2, <4>3, <4>4, OneOrdered
    <3>3. CASE chk.cur <= n /\ toks[chk.cur].type # "EOF"
      <4>1. PICK next : next = CheckToken(toks, chk)
        OBVIOUS
      <4>2. PICK on : on = [next EXCEPT !.cur = next.cur + 1]
        OBVIOUS
      <4>3. ~(chk.bad \/ chk.cur > Len(toks))
        BY <1>2, <3>0, <3>3
      <4>4. on \in CheckerStates /\ on.cur > chk.cur
        BY <1>2, <4>1, <4>2, <4>3, WalkBehind
      <4>5. g[chk] = IF next.bad THEN next ELSE g[on]
        BY <1>6, <3>3, <4>1, <4>2, <4>3 DEF Goes
      <4>6. ~next.bad /\ ~g[on].bad
        BY <2>1, <4>5
      <4>7. next \in CheckerStates /\ Went(toks, chk, next)
        BY <1>2, <3>0, <3>3, <4>1, <4>6, CheckTokenWent
      <4>8. Seen(ty, on)
        BY <1>1, <1>2, <2>1, <3>3, <4>2, <4>6, <4>7, SeenOn
      <4>9. on.cur + m > n
        <5>1. on.cur \in Nat
          BY <4>4, CheckerType
        <5>. QED BY <2>1, <3>0, <4>4, <5>1
      <4>. QED BY <1>9, <4>4, <4>6, <4>8, <4>9
    <3>. QED BY <3>0, <3>1, <3>2, <3>3
  <2>. QED BY <2>1
<1>. HIDE DEF S
<1>10. n + 1 \in S
  <2>1. \A m \in Nat : m \in S
    BY <1>8, <1>9, NatSetInduction
  <2>. QED BY <2>1
<1>11. Seen(ty, first)
  <2>1. OrderedTo(ty, 0) /\ ~JoinsLast(ty, 0)
    BY DEF OrderedTo, JoinsLast
  <2>2. Tally(ty, "(", 0) = 0 /\ Tally(ty, ")", 0) = 0
    BY TallyIs
  <2>3. 1 > n => OrderedTo(ty, n)
    <3>1. 1 > n => n = 0
      OBVIOUS
    <3>. QED BY <2>1, <3>1
  <2>4. first.cur - 1 = 0 /\ first.parens + 0 = 0
    BY <1>5
  <2>. QED BY <1>3, <1>5, <2>1, <2>2, <2>3, <2>4 DEF Seen
<1>12. first.cur + (n + 1) > n
  BY <1>5
<1>. QED BY <1>1, <1>2, <1>5, <1>7, <1>10, <1>11, <1>12 DEF S

-----------------------------------------------------------------------------
(* The contexts of the texts.                                               *)

\* Of the texts: there is no backslash in them, contexts and tokens go together while a
\* text is typed, and what asks for more, or is complete, was let through by the checker.
CtxInv ==
  /\ \A k \in 1..Len(text) : text[k] # "\\"
  /\ status = "typing" => Ctx(lx)
  /\ status = "typing" /\ lx.pos = Top(starts) => Closed(lx) \/ Opened(lx)
  /\ AsksForMore => Opened(lx) /\ ~IsBadSyntax(lx.toks)
  /\ status = "complete" => Closed(lx) /\ ~IsBadSyntax(lx.toks)

\* Nothing is open before the first symbol.
LEMMA CtxInit == Init => CtxInv
<1>. SUFFICES ASSUME Init PROVE CtxInv
  OBVIOUS
<1>1. /\ Good(NewLexer) /\ NewLexer \in Lexers /\ NewLexer.toks = <<>>
      /\ NewLexer.ctxs = <<>> /\ NewLexer.mode = "lex" /\ NewLexer.tmp = <<>>
  BY NewLexerGood DEF Good, NewLexer
<1>2. /\ Good(lx) /\ lx.toks = <<>> /\ lx.ctxs = <<>> /\ lx.mode = "lex" /\ lx.tmp = <<>>
  <2>1. lx = BeginChunk(NewLexer)
    BY DEF Init
  <2>2. Good(lx)
    BY <1>1, <2>1, BeginChunkGood DEF GoodAt
  <2>3. lx = [NewLexer EXCEPT !.hd = 0]
    BY <2>1 DEF BeginChunk
  <2>4. lx.toks = NewLexer.toks
    BY <1>1, <2>3 DEF Lexers
  <2>. QED BY <1>1, <2>1, <2>2, <2>4, SameContexts
<1>3. PICK ty : ty = Kinds(<<>>)
  OBVIOUS
<1>4. <<>> \in Seq(Tokens) /\ ty \in Seq(TokTypes) /\ Len(ty) = 0
  <2>1. <<>> \in Seq(Tokens) /\ Len(<<>>) = 0
    OBVIOUS
  <2>2. Kinds(<<>>) \in Seq(TokTypes) /\ Len(Kinds(<<>>)) = Len(<<>>)
    BY <2>1, KindsType
  <2>. QED BY <1>3, <2>1, <2>2
<1>5. Kept(<<>>, ty, <<>>)
  <2>1. ~JoinsLast(ty, 0) /\ Apart(<<>>) /\ ~TopIn(<<>>, OpContexts)
    BY DEF JoinsLast, Apart, TopIn
  <2>2. Tally(ty, "(", 0) = 0 /\ Tally(ty, ")", 0) = 0 /\ Tally(<<>>, "(", 0) = 0
    BY TallyIs
  <2>3. Len(<<>>) = 0 /\ <<>> \in Seq(Inner)
    OBVIOUS
  <2>4. Stacked(<<>>, ty, <<>>)
    BY <1>4, <2>1, <2>2, <2>3 DEF Stacked
  <2>. QED BY <2>3, <2>4 DEF Kept
<1>6. NoEof(ty)
  BY <1>4 DEF NoEof
<1>7. Ctx(lx)
  <2>1. Held(<<>>, <<>>, <<>>)
    BY <1>3, <1>4, <1>5, <1>6 DEF Held
  <2>2. Held(lx.ctxs, lx.toks, lx.tmp)
    BY <1>2, <2>1
  <2>3. lx.mode \in CtxModes \ Quotes
    BY <1>2 DEF CtxModes, Quotes
  <2>4. Plainly(lx)
    BY <1>2, <2>2, <2>3 DEF Plainly
  <2>. QED BY <2>4, PlainlyIs
<1>8. Closed(lx)
  BY <1>2, <1>3, <1>4, <1>5 DEF Closed
<1>9. text = <<>> /\ starts = <<0>> /\ status = "typing"
  BY DEF Init
<1>10. ~AsksForMore
  BY <1>9 DEF AsksForMore
<1>. QED BY <1>7, <1>8, <1>9, <1>10 DEF CtxInv

\* What run_lexer leaves of a line.
LEMMA LexedCtx ==
  ASSUME ~Escapes, FrontInv, CtxInv, status = "typing"
  PROVE  /\ Closed(Lexed) \/ Opened(Lexed)
         /\ \A k \in 1..Len(LexedText) : LexedText[k] # "\\"
<1>0. /\ Ctx(lx) /\ text \in Seq(Symbols) /\ tty \in BOOLEAN
      /\ \A k \in 1..Len(text) : text[k] # "\\"
  BY DEF CtxInv, FrontInv, TypeOK
<1>1. CASE ~tty
  <2>1. Lexed = EndChunk(Step(lx, "\n"), FALSE) /\ LexedText = Append(text, "\n")
    BY <1>1 DEF Lexed, LexedText
  <2>2. Ctx(Step(lx, "\n"))
    BY <1>0, StepCtx, SymbolsType
  <2>3. Closed(Lexed) \/ Opened(Lexed)
    BY <2>1, <2>2, EndChunkCtx
  <2>. PICK more : more = Append(text, "\n")
    OBVIOUS
  <2>4. /\ Len(more) = Len(text) + 1 /\ Len(text) \in Nat /\ more[Len(text) + 1] = "\n"
        /\ \A k \in 1..Len(text) : more[k] = text[k]
    BY <1>0, SymbolsType, AppendProperties
  <2>5. ASSUME NEW k \in 1..Len(more) PROVE more[k] # "\\"
    <3>1. k = Len(text) + 1 \/ k \in 1..Len(text)
      BY <2>4
    <3>. QED BY <1>0, <2>4, <3>1
  <2>. QED BY <2>1, <2>3, <2>5
<1>2. CASE tty /\ lx.pos = Top(starts)
  BY <1>0, <1>2 DEF Lexed, LexedText, CtxInv
<1>3. CASE tty /\ lx.pos # Top(starts)
  <2>1. Lexed = EndChunk(lx, TRUE) /\ LexedText = text
    BY <1>3 DEF Lexed, LexedText
  <2>2. Closed(Lexed) \/ Opened(Lexed)
    BY <1>0, <2>1, EndChunkCtx
  <2>. QED BY <1>0, <2>1, <2>2
<1>. QED BY <1>0, <1>1, <1>2, <1>3

\* Every symbol and every end of a line keeps CtxInv, if there are no backslashes.
LEMMA CtxStep ==
  ASSUME ~Escapes, FrontInv, CtxInv, [Next]_vars
  PROVE  CtxInv'
<1>0. /\ text \in Seq(Symbols) /\ lx.pos \in Nat /\ Top(starts) \in Nat
      /\ Top(starts) <= lx.pos /\ Good(lx)
  BY LexersDef, PopSeq DEF FrontInv, TypeOK, QuoteInv, Good, StartInv
<1>1. ASSUME NEW c \in Alphabet, TypeSymbol(c) PROVE CtxInv'
  <2>1. /\ status = "typing" /\ text' = Append(text, c) /\ lx' = Step(lx, c)
        /\ UNCHANGED <<tty, starts, status>> /\ c \in Symbols /\ c # "\\"
    BY <1>1, SymbolsType DEF TypeSymbol, Escapes
  <2>2. Ctx(lx')
    BY <2>1, StepCtx DEF CtxInv
  <2>3. lx'.pos = lx.pos + 1
    BY <1>0, <2>1, StepGood DEF GoodAt
  <2>4. lx'.pos # Top(starts')
    BY <1>0, <2>1, <2>3
  <2>5. /\ Len(text') = Len(text) + 1 /\ Len(text) \in Nat /\ text'[Len(text) + 1] = c
        /\ \A k \in 1..Len(text) : text'[k] = text[k]
    BY <1>0, <2>1, AppendProperties
  <2>6. ASSUME NEW k \in 1..Len(text') PROVE text'[k] # "\\"
    <3>1. k = Len(text) + 1 \/ k \in 1..Len(text)
      BY <2>5
    <3>. QED BY <2>1, <2>5, <3>1 DEF CtxInv
  <2>7. ~AsksForMore'
    BY <2>4 DEF AsksForMore
  <2>. QED BY <2>1, <2>2, <2>4, <2>6, <2>7 DEF CtxInv
<1>2. ASSUME NEW what, what # "typing", status = "typing", EndOfText(what),
             what = "complete" => Lexed.ctxs = <<>> /\ ~IsBadSyntax(Lexed.toks)
      PROVE  CtxInv'
  <2>1. lx' = Lexed /\ text' = LexedText /\ starts' = starts /\ status' = what
    BY <1>2 DEF EndOfText
  <2>2. /\ Closed(Lexed) \/ Opened(Lexed)
        /\ \A k \in 1..Len(LexedText) : LexedText[k] # "\\"
    BY <1>2, LexedCtx
  <2>. HIDE DEF Lexed, LexedText
  <2>3. ~AsksForMore'
    BY <1>2, <2>1 DEF AsksForMore
  <2>4. what = "complete" => Closed(Lexed)
    BY <1>2, <2>2 DEF Opened
  <2>. QED BY <1>2, <2>1, <2>2, <2>3, <2>4 DEF CtxInv
<1>3. CASE Refuse
  BY <1>2, <1>3 DEF Refuse
<1>4. CASE GiveUp
  BY <1>2, <1>4 DEF GiveUp, Accepted
<1>5. CASE Complete
  BY <1>2, <1>5 DEF Complete, Accepted
<1>6. CASE Continue
  <2>. DEFINE normal == IsNormal(Lexed)
  <2>1. /\ status = "typing" /\ Lexed.ctxs # <<>> /\ ~IsBadSyntax(Lexed.toks)
        /\ lx' = IF normal THEN BeginChunk(Lexed) ELSE BeginChunk(PendingNewline(Lexed))
        /\ text' = IF normal THEN LexedText ELSE Append(LexedText, "\n")
        /\ status' = "typing"
    BY <1>6 DEF Continue, Accepted
  <2>2. /\ Closed(Lexed) \/ Opened(Lexed)
        /\ \A k \in 1..Len(LexedText) : LexedText[k] # "\\"
        /\ LexedText \in Seq(Symbols)
    BY <2>1, LexedCtx, LexedInv
  <2>. HIDE DEF Lexed, LexedText, normal
  <2>3. Opened(Lexed)
    BY <2>1, <2>2 DEF Closed
  <2>4. Opened(lx') /\ lx'.toks = Lexed.toks
    BY <2>1, <2>3, BeginCtx
  <2>5. Ctx(lx')
    BY <2>4 DEF Opened
  <2>6. ASSUME NEW k \in 1..Len(text') PROVE text'[k] # "\\"
    <3>1. CASE normal
      BY <2>1, <2>2, <2>6, <3>1
    <3>2. CASE ~normal
      <4>1. text' = Append(LexedText, "\n")
        BY <2>1, <3>2
      <4>2. /\ Len(text') = Len(LexedText) + 1 /\ Len(LexedText) \in Nat
            /\ text'[Len(LexedText) + 1] = "\n"
            /\ \A j \in 1..Len(LexedText) : text'[j] = LexedText[j]
        BY <2>2, <4>1, SymbolsType, AppendProperties
      <4>3. k = Len(LexedText) + 1 \/ k \in 1..Len(LexedText)
        BY <2>6, <4>2
      <4>. QED BY <2>2, <4>2, <4>3
    <3>. QED BY <3>1, <3>2
  <2>. QED BY <2>1, <2>4, <2>5, <2>6 DEF CtxInv
<1>7. CASE UNCHANGED vars
  BY <1>7 DEF vars, CtxInv, AsksForMore
<1>. QED BY <1>1, <1>3, <1>4, <1>5, <1>6, <1>7 DEF Next

-----------------------------------------------------------------------------
(* What a reader of a text without backslashes is inside of.                 *)
\* What a text without backslashes can be inside of.  Newlines open and close no quote.
Settings == {"", "#"} \cup Quotes
\* What one symbol that is not a backslash turns Inside into.
LEMMA TurnPlain ==
  ASSUME NEW tx, NEW ss, NEW k, NEW before \in Settings, tx[k] # "\\"
  PROVE  /\ Turn(tx, ss, k, before) \in Settings
         /\ tx[k] = "\n" => (Turn(tx, ss, k, before) \in Quotes <=> before \in Quotes)
<1>1. PICK c : c = tx[k]
  OBVIOUS
<1>2. PICK s : s = IF LineAt(ss, k - 1) /\ before = "#" THEN "" ELSE before
  OBVIOUS
<1>3. PICK starting \in BOOLEAN :
        starting <=> (k = 1 \/ LineAt(ss, k - 1) \/ tx[k - 1] \in Blanks \cup Operators \cup Quotes)
  <2>. DEFINE b == k = 1 \/ LineAt(ss, k - 1) \/ tx[k - 1] \in Blanks \cup Operators \cup Quotes
  <2>1. b \in BOOLEAN
    OBVIOUS
  <2>. QED BY <2>1
<1>4. Turn(tx, ss, k, before) =
        CASE s \in {"'", "#"} -> IF c = (IF s = "#" THEN "\n" ELSE s) THEN "" ELSE s
          [] s = "\"" -> IF c = s THEN "" ELSE IF c = "\\" THEN "\"\\" ELSE s
          [] s = "\"\\" -> "\""
          [] s = "\\" -> ""
          [] OTHER -> IF c \in Quotes \cup {"\\"} THEN c
                      ELSE IF c = "#" /\ starting THEN "#" ELSE ""
  BY <1>1, <1>2, <1>3 DEF Turn
<1>5. s \in Settings /\ (s \in Quotes <=> before \in Quotes)
  BY <1>2 DEF Settings, Quotes
<1>6. c # "\\"
  BY <1>1
<1>7. CASE s = "'"
  <2>1. Turn(tx, ss, k, before) = IF c = "'" THEN "" ELSE "'"
    BY <1>4, <1>7
  <2>. QED BY <1>1, <1>5, <1>7, <2>1 DEF Settings, Quotes
<1>8. CASE s = "#"
  <2>1. Turn(tx, ss, k, before) = IF c = "\n" THEN "" ELSE "#"
    BY <1>4, <1>8
  <2>. QED BY <1>1, <1>5, <1>8, <2>1 DEF Settings, Quotes
<1>9. CASE s = "\""
  <2>1. Turn(tx, ss, k, before) = IF c = "\"" THEN "" ELSE "\""
    BY <1>4, <1>6, <1>9
  <2>. QED BY <1>1, <1>5, <1>9, <2>1 DEF Settings, Quotes
<1>10. CASE s = ""
  <2>1. Turn(tx, ss, k, before) = IF c \in Quotes THEN c
                                  ELSE IF c = "#" /\ starting THEN "#" ELSE ""
    BY <1>4, <1>6, <1>10
  <2>. QED BY <1>1, <1>5, <1>10, <2>1 DEF Settings, Quotes
<1>. QED BY <1>5, <1>7, <1>8, <1>9, <1>10 DEF Settings, Quotes

\* Behind the last symbol of the text the reader is inside a quote if it was.
LEMMA LastTold ==
  ASSUME NEW f, Traces(f, text, starts), Len(text) \in Nat,
         \A k \in 1..Len(text) : text[k] # "\\"
  PROVE  f[LastSymbol] \in Settings /\ (f[LastSymbol] \in Quotes <=> f[Len(text)] \in Quotes)
<1>1. PICK n \in Nat : n = Len(text)
  OBVIOUS
<1>2. PICK last : last = LastSymbol
  OBVIOUS
<1>3. last \in 0..n /\ \A j \in (last + 1)..n : text[j] = "\n"
  <2>. DEFINE ks == {0} \cup {j \in 1..n : text[j] # "\n"}
  <2>1. last = CHOOSE m \in ks : \A j \in ks : j <= m
    BY <1>1, <1>2 DEF LastSymbol
  <2>2. ks \in SUBSET (0..n) /\ ks # {}
    OBVIOUS
  <2>3. \A j \in 1..n : j \in ks \/ text[j] = "\n"
    OBVIOUS
  <2>. HIDE DEF ks
  <2>4. \E m \in ks : \A j \in ks : j <= m
    BY <2>2, LastOf
  <2>5. last \in ks /\ \A j \in ks : j <= last
    BY <2>1, <2>4
  <2>6. last \in 0..n
    BY <2>2, <2>5
  <2>7. ASSUME NEW j \in (last + 1)..n PROVE text[j] = "\n"
    <3>1. j \in 1..n /\ ~(j <= last)
      BY <2>6
    <3>. QED BY <2>3, <2>5, <3>1
  <2>. QED BY <2>6, <2>7
<1>4. f[0] \in Settings /\ \A k \in 1..n : f[k] = Turn(text, starts, k, f[k - 1])
  BY <1>1 DEF Traces, Settings
<1>. DEFINE S == {m \in Nat : m <= n => /\ f[m] \in Settings
                                        /\ last <= m => (f[m] \in Quotes <=> f[last] \in Quotes)}
<1>5. 0 \in S
  <2>1. last <= 0 => last = 0
    BY <1>3
  <2>. QED BY <1>4, <2>1
<1>6. ASSUME NEW m \in Nat, m \in S PROVE m + 1 \in S
  <2>. SUFFICES ASSUME m + 1 <= n
                PROVE  /\ f[m + 1] \in Settings
                       /\ last <= m + 1 => (f[m + 1] \in Quotes <=> f[last] \in Quotes)
    OBVIOUS
  <2>1. m + 1 \in 1..n /\ m <= n /\ (m + 1) - 1 = m
    BY <1>1
  <2>2. f[m] \in Settings /\ (last <= m => (f[m] \in Quotes <=> f[last] \in Quotes))
    BY <1>6, <2>1
  <2>3. f[m + 1] = Turn(text, starts, m + 1, f[m]) /\ text[m + 1] # "\\"
    BY <1>1, <1>4, <2>1
  <2>. HIDE DEF S
  <2>4. /\ f[m + 1] \in Settings
        /\ text[m + 1] = "\n" => (f[m + 1] \in Quotes <=> f[m] \in Quotes)
    BY <2>2, <2>3, TurnPlain
  <2>5. CASE last <= m
    <3>1. m + 1 \in (last + 1)..n
      BY <1>3, <2>1, <2>5
    <3>. QED BY <1>3, <2>2, <2>4, <2>5, <3>1
  <2>6. CASE ~(last <= m)
    <3>1. last <= m + 1 => last = m + 1
      BY <1>3, <2>6
    <3>. QED BY <2>4, <3>1
  <2>. QED BY <2>5, <2>6
<1>. HIDE DEF S
<1>7. \A m \in Nat : m \in S
  BY <1>5, <1>6, NatSetInduction
<1>8. last \in S /\ n \in S /\ last <= n /\ last \in Nat
  BY <1>3, <1>7
<1>. QED BY <1>1, <1>2, <1>8 DEF S

\* What Unfinished counts.
LEMMA TokensTell ==
  ASSUME lx.toks \in Seq(Tokens), NEW ty, ty = Kinds(lx.toks), NEW n, n = Len(ty)
  PROVE  /\ n \in Nat /\ n = Len(lx.toks)
         /\ Count("(") = Tally(ty, "(", n) /\ Count(")") = Tally(ty, ")", n)
         /\ JoinsLast(ty, n) <=>
              \E k \in 1..Len(lx.toks) :
                /\ lx.toks[k].type \in OpContexts
                /\ \A j \in (k + 1)..Len(lx.toks) : lx.toks[j].type = "NEWLINE"
<1>1. n \in Nat /\ n = Len(lx.toks) /\ \A k \in 1..n : ty[k] = lx.toks[k].type
  BY KindsType
<1>2. ASSUME NEW v PROVE Count(v) = Tally(ty, v, n)
  <2>1. {k \in 1..Len(lx.toks) : lx.toks[k].type = v} = {k \in 1..n : ty[k] = v}
    BY <1>1
  <2>. QED BY <2>1 DEF Count, Tally
<1>3. JoinsLast(ty, n) <=>
        \E k \in 1..n : /\ lx.toks[k].type \in OpContexts
                        /\ \A j \in (k + 1)..n : lx.toks[j].type = "NEWLINE"
  <2>1. \A k \in 1..n : \A j \in (k + 1)..n : j \in 1..n
    BY <1>1
  <2>. QED BY <1>1, <2>1 DEF JoinsLast
<1>. QED BY <1>1, <1>2, <1>3

\* The shell asks for another line exactly when the text is unfinished (main_loop, by the
\* contexts that add_context and the functions that remove one leave), in any text without
\* backslashes: no text is run with a quote or a parenthesis open or behind an operator
\* that joins two commands, and no line is asked for when nothing is open.
THEOREM ContextsTellTheTruth ==
  ASSUME "\\" \notin Alphabet
  PROVE  Spec => []ContextsTell
<1>1. Init => FrontInv /\ LossInv /\ CtxInv
  BY FrontInit, LossInit, CtxInit
<1>2. FrontInv /\ LossInv /\ CtxInv /\ [Next]_vars => (FrontInv /\ LossInv /\ CtxInv)'
  BY FrontStep, LossStep, CtxStep DEF Escapes
<1>3. FrontInv /\ LossInv /\ CtxInv => ContextsTell
  <2>. SUFFICES ASSUME FrontInv, LossInv, CtxInv PROVE ContextsTell
    OBVIOUS
  <2>. DEFINE quoted == Inside[LastSymbol] \notin {"", "#"}
              joins == \E k \in 1..Len(lx.toks) :
                         /\ lx.toks[k].type \in OpContexts
                         /\ \A j \in (k + 1)..Len(lx.toks) : lx.toks[j].type = "NEWLINE"
  <2>1. /\ ReadSoFar(lx, text, starts) /\ text \in Seq(Symbols) /\ lx.pos = Len(text)
        /\ Len(text) \in Nat /\ lx.toks \in Seq(Tokens)
        /\ \A k \in 1..Len(text) : text[k] # "\\"
    BY LexersDef DEF LossInv, CtxInv, FrontInv, TypeOK, AtEndOfBuffer
  <2>2. Traces(Inside, text, starts) /\ Told(Inside, lx)
    BY <2>1, InsideTraces DEF ReadSoFar
  <2>3. ToldPlainly(Inside, lx)
    BY <2>2 DEF Told, Escapes
  <2>4. Inside[Len(text)] \in Quotes <=> lx.mode \in Quotes
    BY <2>1, <2>3 DEF ToldPlainly, Quotes
  <2>5. quoted <=> lx.mode \in Quotes
    <3>1. Inside[LastSymbol] \in Settings /\ (Inside[LastSymbol] \in Quotes <=> Inside[Len(text)] \in Quotes)
      BY <2>1, <2>2, LastTold
    <3>. QED BY <2>4, <3>1 DEF Settings, Quotes
  <2>6. PICK ty : ty = Kinds(lx.toks)
    OBVIOUS
  <2>7. PICK n : n = Len(ty)
    OBVIOUS
  <2>8. /\ n \in Nat /\ n = Len(lx.toks)
        /\ Count("(") = Tally(ty, "(", n) /\ Count(")") = Tally(ty, ")", n)
        /\ JoinsLast(ty, n) <=> joins
    BY <2>1, <2>6, <2>7, TokensTell
  <2>9. Unfinished <=> quoted \/ Count("(") > Count(")") \/ (lx.tmp = <<>> /\ joins)
    BY DEF Unfinished
  <2>10. Tally(ty, "(", n) \in Nat /\ Tally(ty, ")", n) \in Nat
    BY <2>8, TallyIs
  <2>. HIDE DEF quoted, joins
  <2>11. ASSUME AsksForMore PROVE Unfinished
    <3>1. Opened(lx) /\ ~IsBadSyntax(lx.toks)
      BY <2>11 DEF CtxInv
    <3>2. Ctx(lx) /\ lx.ctxs # <<>> /\ (lx.mode \notin Quotes => lx.tmp = <<>>)
      BY <3>1 DEF Opened
    <3>3. CASE lx.mode \in Quotes
      BY <2>5, <2>9, <3>3
    <3>4. CASE lx.mode \notin Quotes
      <4>1. NoEof(ty) /\ Kept(lx.ctxs, ty, <<>>) /\ lx.tmp = <<>>
        BY <2>6, <3>2, <3>4 DEF Ctx, Held, Stack
      <4>2. \A k \in 1..(Len(lx.toks) - 1) : lx.toks[k].type # "EOF"
        <5>1. \A k \in 1..n : ty[k] = lx.toks[k].type
          BY <2>1, <2>6, <2>8, KindsType
        <5>. QED BY <2>7, <2>8, <4>1, <5>1 DEF NoEof
      <4>3. OrderedTo(ty, n)
        BY <2>1, <2>6, <2>8, <3>1, <4>2, CheckedOrdered
      <4>4. PICK s : s = lx.ctxs
        OBVIOUS
      <4>5. /\ s \in Seq(Inner) /\ s # <<>>
            /\ TopIn(s, OpContexts) <=> JoinsLast(ty, n)
            /\ Tally(s, "(", Len(s)) + Tally(ty, ")", n) = Tally(ty, "(", n)
        BY <2>7, <3>2, <4>1, <4>3, <4>4 DEF Kept, Stacked
      <4>6. CASE JoinsLast(ty, n)
        BY <2>8, <2>9, <4>1, <4>6
      <4>7. CASE ~JoinsLast(ty, n)
        <5>1. Top(s) = "("
          BY <4>5, <4>7, PopSeq DEF TopIn, Inner
        <5>2. PICK t : t = Pop(s)
          OBVIOUS
        <5>3. /\ Tally(t, "(", Len(t)) \in Nat
              /\ Tally(s, "(", Len(s)) = Tally(t, "(", Len(t)) + 1
          BY <4>5, <5>1, <5>2, PopApart
        <5>4. Tally(ty, "(", n) > Tally(ty, ")", n)
          BY <2>10, <4>5, <5>3
        <5>. QED BY <2>8, <2>9, <5>4
      <4>. QED BY <4>6, <4>7
    <3>. QED BY <3>3, <3>4
  <2>12. ASSUME status = "complete" PROVE ~Unfinished
    <3>1. Closed(lx) /\ ~IsBadSyntax(lx.toks)
      BY <2>12 DEF CtxInv
    <3>2. lx.mode \notin Quotes
      BY <2>12 DEF FrontInv, CompleteIsNormal, IsNormal, Quotes
    <3>3. OrderedTo(ty, n)
      BY <2>1, <2>6, <2>8, <3>1, CheckedOrdered DEF Closed
    <3>4. PICK s : s = <<>>
      OBVIOUS
    <3>5. /\ TopIn(s, OpContexts) <=> JoinsLast(ty, n)
          /\ Tally(s, "(", Len(s)) + Tally(ty, ")", n) = Tally(ty, "(", n)
      BY <2>6, <2>7, <3>1, <3>3, <3>4 DEF Closed, Kept, Stacked
    <3>6. ~TopIn(s, OpContexts) /\ Tally(s, "(", Len(s)) = 0
      <4>1. Len(s) = 0
        BY <3>4
      <4>. QED BY <3>4, <4>1, TallyIs DEF TopIn
    <3>7. ~(Tally(ty, "(", n) > Tally(ty, ")", n))
      BY <2>10, <3>5, <3>6
    <3>. QED BY <2>5, <2>8, <2>9, <3>2, <3>5, <3>6, <3>7
  <2>. QED BY <2>11, <2>12 DEF ContextsTell
<1>. QED BY <1>1, <1>2, <1>3, PTL DEF Spec
=============================================================================
