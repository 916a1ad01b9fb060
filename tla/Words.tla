------------------------------- MODULE Words -------------------------------
(***************************************************************************)
(* step_5_expanding, m_normalize and step_6_assembling: the words of a     *)
(* command become its arguments in passes over its tokens, one operator    *)
(* for each.                                                               *)
(*                                                                         *)
(* A string is a sequence of symbols.  "$x" is a dollar and the name behind *)
(* it, or one of the special parameters, and "$" a dollar alone.           *)
(***************************************************************************)
EXTENDS Tokens

CONSTANTS
  Names,    \* the name behind each dollar symbol of a variable
  Rank,     \* the order of the letters and digits in pathnames
  BufStep   \* L_BUFFER_SIZE

ASSUME BufStepAssumption == BufStep \in Nat \ {0}

Specials == {"$?", "$*"}
Dollars == DOMAIN Names \cup Specials \cup {"$"}
Delims == {" ", "\n"}

\* No backslash before position k, or an even number of them.
Unescaped(s, k) ==
  LET backslashes[j \in 0..Len(s)] ==
        IF j = 0 THEN 0 ELSE IF s[j] # "\\" THEN 0 ELSE 1 + backslashes[j - 1]
  IN backslashes[k - 1] % 2 = 0
Positions(s, S) == {k \in 1..Len(s) : s[k] \in S /\ Unescaped(s, k)}

\* Op on every token of a list whose type and role satisfy Sel, on every part.
OverTokens(h, list, Sel(_), Op(_, _)) ==
  FoldLeft(LAMBDA g, t : IF Sel(g.tok[t]) THEN Op(g, t) ELSE g, Touch(h, list), Walk(h, list))
OverParts(h, t, Op(_, _)) == FoldLeft(Op, h, PartsOf(h, t))
IsWord(tok) == tok.type = "WORD"
\* The delimiter of a here-document is expanded by nobody.
IsExpanded(tok) == IsWord(tok) /\ tok.role # "DELIM"

-----------------------------------------------------------------------------
(* Tags. *)

HasQuotedPart(h, t) == \E p \in ToSet(PartsOf(h, t)) : h.part[p].type \in {"'", "\""}

TagTilde(h, t) ==
  [h EXCEPT !.tok[t].quoted = @ \/ HasQuotedPart(h, t),
            !.tok[t].tilde = @ \/ \E p \in ToSet(PartsOf(h, t)) :
              h.part[p].type = "UQUOTE" /\ h.part[p].str # <<>> /\ h.part[p].str[1] = "~"]
TagTildes(h, list) == OverTokens(h, list, IsExpanded, TagTilde)

\* A dollar alone in front of another part disappears: it is that of $"...".
HasDollar(s) ==
  LET at == Positions(s, Dollars)
  IN at # {} /\ LET k == CHOOSE k \in at : \A j \in at : k <= j
                IN s[k] # "$" \/ k < Len(s)
TagDollarPart(h, t, p) ==
  LET part == h.part[p]
  IN IF part.type = "UQUOTE" /\ part.next # Null /\ part.str = <<"$">>
     THEN [h EXCEPT !.part[p].str = <<>>]
     ELSE IF part.type \in {"UQUOTE", "\""} /\ HasDollar(part.str)
     THEN [h EXCEPT !.part[p].dollar = TRUE, !.tok[t].dollar = TRUE]
     ELSE h
TagDollar(h, t) ==
  LET tok == h.tok[t]
      quotes == [h EXCEPT !.tok[t].quoted = @ \/ HasQuotedPart(h, t)]
  IN IF tok.type = "BODY" THEN [h EXCEPT !.tok[t].dollar = @ \/ ~h.tok[tok.prev].quoted]
     ELSE IF tok.role = "DELIM" THEN quotes
     ELSE OverParts(quotes, t, LAMBDA g, p : TagDollarPart(g, t, p))
TagVars(h, list) == OverTokens(h, list, LAMBDA tok : tok.role # "OP", TagDollar)

TagGlob(h, t) ==
  [h EXCEPT !.tok[t].glob = @ \/ \E p \in ToSet(PartsOf(h, t)) :
     h.part[p].type = "UQUOTE" /\ Positions(h.part[p].str, {"*"}) # {}]
TagGlobs(h, list) == OverTokens(h, list, IsExpanded, TagGlob)

-----------------------------------------------------------------------------
(* Tildes.  env maps names to values, users names to home directories. *)

NotExpanded == NoString
Set(env, name) == name \in DOMAIN env /\ env[name] # <<>>
Based(env, name, rest) == IF Set(env, name) THEN env[name] \o rest ELSE NotExpanded

TildeExpandWord(w, env, users) ==
  LET ends(k) == k > Len(w) \/ w[k] = "/"
      slashes == {k \in 2..Len(w) : w[k] = "/"}
      slash == IF slashes = {} THEN Len(w) + 1 ELSE CHOOSE k \in slashes : \A j \in slashes : k <= j
      login == SubSeq(w, 2, slash - 1)
      rest(k) == SubSeq(w, k, Len(w))
  IN IF w = <<>> \/ (w # <<>> /\ w[1] # "~") THEN NotExpanded
     ELSE IF Len(w) > 1 /\ w[2] \in {"+", "-"}
     THEN IF ends(3) THEN Based(env, IF w[2] = "+" THEN <<"PWD">> ELSE <<"OLDPWD">>, rest(3))
                     ELSE NotExpanded
     ELSE IF ends(2) THEN Based(env, <<"HOME">>, rest(2))
     ELSE IF login \in DOMAIN users THEN users[login] \o rest(slash) ELSE NotExpanded

\* Whichever part the tilde is in, the first one is looked at.
ExpandTilde(h, t, env, users) ==
  LET p == h.tok[t].head
      value == TildeExpandWord(h.part[p].str, env, users)
  IN IF value = NotExpanded THEN h ELSE [h EXCEPT !.part[p].str = value]
ExpandTildes(h, list, env, users) ==
  OverTokens(h, list, LAMBDA tok : tok.tilde, LAMBDA g, t : ExpandTilde(g, t, env, users))

-----------------------------------------------------------------------------
(* Variables.  special gives the values of $? and $*. *)

Value(c, env, special) ==
  IF c \in Specials THEN special[c]
  ELSE IF Names[c] \in DOMAIN env THEN env[Names[c]] ELSE <<>>

ProcessDollar(b, s, k, env, special) ==
  IF s[k] = "$" \/ ~Unescaped(s, k) THEN AppendChar(b, s[k])
  ELSE AppendStr(b, Value(s[k], env, special))
ExpandDollar(s, env, special) ==
  FoldLeftDomain(LAMBDA b, k : IF s[k] \in Dollars THEN ProcessDollar(b, s, k, env, special)
                               ELSE AppendChar(b, s[k]), StrapiInit(BufStep), s)

\* A part takes the text of a buffer, and keeps its own if there is none.
Take(h, p, b) ==
  [h EXCEPT !.bad = @ \/ ~Good(b),
            !.part[p].str = IF GetDup(b) = NoString THEN @ ELSE GetDup(b),
            !.part[p].dollar = FALSE]
ExpandVarsOf(h, t, env, special) ==
  OverParts(h, t, LAMBDA g, p : IF g.part[p].dollar
                                THEN Take(g, p, ExpandDollar(g.part[p].str, env, special)) ELSE g)
ExpandVars(h, list, env, special) ==
  OverTokens(h, list, LAMBDA tok : tok.dollar, LAMBDA g, t : ExpandVarsOf(g, t, env, special))

\* A body: a backslash counts before a dollar, a backslash, a backquote and a
\* newline, which disappears.
ExpandBody(s, env, special) ==
  LET step(a, k) ==
        IF a.esc
        THEN [esc |-> FALSE, b |-> IF s[k] = "\n" THEN a.b ELSE AppendChar(a.b, s[k])]
        ELSE IF s[k] = "\\" /\ k < Len(s) /\ s[k + 1] \in Dollars \cup {"\\", "backquote", "\n"}
        THEN [a EXCEPT !.esc = TRUE]
        ELSE [a EXCEPT !.b = IF s[k] \in Dollars THEN ProcessDollar(@, s, k, env, special)
                             ELSE AppendChar(@, s[k])]
  IN FoldLeftDomain(step, [b |-> StrapiInit(BufStep), esc |-> FALSE], s).b
ExpandHeredocs(h, env, special) ==
  OverTokens(h, "redirs", LAMBDA tok : tok.type = "BODY" /\ tok.dollar,
             LAMBDA g, t : [g EXCEPT !.tok[t].dollar = FALSE,
                                     !.tok[t].str = GetDup(ExpandBody(@, env, special))])

-----------------------------------------------------------------------------
(* Field splitting. *)

PartNeedsSplit(part) == part.type = "UQUOTE" /\ Positions(part.str, Delims) # {}
IsEmptyPart(part) == part.type = "UQUOTE" /\ part.str = <<>>
NeedSplit(h, t) ==
  \E p \in ToSet(PartsOf(h, t)) : PartNeedsSplit(h.part[p]) \/ IsEmptyPart(h.part[p])

SplitUnescaped(s) ==
  LET cuts == Positions(s, Delims)
      starts == SetToSortSeq({k \in (1..Len(s)) \ cuts : k = 1 \/ k - 1 \in cuts}, <)
      end(k) == CHOOSE e \in k..Len(s) : (e = Len(s) \/ e + 1 \in cuts) /\ (k..e) \cap cuts = {}
  IN [k \in 1..Len(starts) |-> SubSeq(s, starts[k], end(starts[k]))]

\* Every field and every part that is kept begins a token: the token the source
\* calls current is a parameter passed by value, and stays NULL for the next part.
TokenOf(h, role, p) ==
  LET g == ListAppend(NewToken(h, "WORD", role), "sub", LastToken(h) + 1)
  IN AppendPart(g, LastToken(g), p)
SplitPart(h, role, p) ==
  FoldLeft(LAMBDA g, field : TokenOf(NewPart(g, "UQUOTE", field), role, LastPart(g) + 1),
           h, SplitUnescaped(h.part[p].str))
SplitPartsKeepsEmpty(h, t) ==
  LET role == h.tok[t].role
  IN FoldLeft(LAMBDA g, p : IF IsEmptyPart(g.part[p]) THEN g
                            ELSE IF PartNeedsSplit(g.part[p]) THEN SplitPart(g, role, p)
                            ELSE TokenOf(g, role, p),
              [h EXCEPT !.list["sub"] = EmptyList], PartsOf(h, t))
SplitParts(h, t) ==
  LET role == h.tok[t].role
  IN FoldLeft(LAMBDA g, p : IF IsEmptyPart(g.part[p]) THEN FreePart(g, p)
                            ELSE IF PartNeedsSplit(g.part[p]) THEN SplitPart(g, role, p)
                            ELSE TokenOf(g, role, p),
              [h EXCEPT !.list["sub"] = EmptyList], PartsOf(h, t))

\* A token without fields is freed alone: its parts are freed already.
PutSplit(h, list, t) ==
  IF h.list["sub"].count > 0 THEN Recount(Replace(h, list, t, h.list["sub"].head), list)
  ELSE FreeAt(Unlink(h, list, t), TokAt(t))
SplitToken(h, list, t) == PutSplit(SplitParts(h, t), list, t)

\* The redirections stop at a word that is not one field: fields is the number
\* of those, or -1.
Counted(h, list) ==
  [h |-> h, fields |-> IF list = "redirs" /\ h.list["sub"].count # 1 THEN h.list["sub"].count ELSE -1]
SplitStepGoesOn(r, list, t) ==
  IF ~IsWord(r.h.tok[t]) \/ r.h.tok[t].quoted \/ ~NeedSplit(r.h, t) THEN r
  ELSE [r EXCEPT !.h = SplitToken(@, list, t)]
SplitStep(r, list, t) ==
  IF r.fields # -1 \/ ~IsWord(r.h.tok[t]) \/ r.h.tok[t].quoted \/ ~NeedSplit(r.h, t) THEN r
  ELSE Counted(SplitToken(r.h, list, t), list)
SplitTokens(h, list) ==
  [FoldLeft(LAMBDA q, t : SplitStep(q, list, t),
            [h |-> Touch(h, list), fields |-> -1], Walk(h, list)) EXCEPT !.h.list["sub"] = EmptyList]

-----------------------------------------------------------------------------
(* Quote removal and the strings of the tokens. *)

FormatUnquoted(s) ==
  LET step(a, k) ==
        IF a.esc THEN [esc |-> FALSE, b |-> IF s[k] = "\n" THEN a.b ELSE AppendChar(a.b, s[k])]
        ELSE IF s[k] = "\\" /\ k < Len(s) THEN [a EXCEPT !.esc = TRUE]
        ELSE [a EXCEPT !.b = AppendChar(@, s[k])]
  IN FoldLeftDomain(step, [b |-> AppendStr(StrapiInit(BufStep), <<>>), esc |-> FALSE], s).b

FormatDquoted(s) ==
  LET step(a, k) ==
        IF a.esc
        THEN [esc |-> FALSE,
              b |-> IF s[k] \in Dollars \cup {"\"", "\\", "backquote"} THEN AppendChar(a.b, s[k])
                    ELSE IF s[k] = "\n" THEN a.b
                    ELSE AppendChar(AppendChar(a.b, "\\"), s[k])]
        ELSE IF s[k] = "\\" /\ k < Len(s) THEN [a EXCEPT !.esc = TRUE]
        ELSE [a EXCEPT !.b = AppendChar(@, s[k])]
  IN FoldLeftDomain(step, [b |-> AppendStr(StrapiInit(BufStep), <<>>), esc |-> FALSE], s).b

NormalizePart(h, p) ==
  CASE h.part[p].type = "\"" -> Take(h, p, FormatDquoted(h.part[p].str))
    [] h.part[p].type = "UQUOTE" -> Take(h, p, FormatUnquoted(h.part[p].str))
    [] OTHER -> h
Normalize(h, list) == OverTokens(h, list, IsWord, LAMBDA g, t : OverParts(g, t, NormalizePart))

AggregateToken(h, t) ==
  [h EXCEPT !.tok[t].str = FoldLeft(LAMBDA s, p : s \o h.part[p].str, <<>>, PartsOf(h, t))]
Aggregate(h, list) == OverTokens(h, list, IsWord, AggregateToken)

-----------------------------------------------------------------------------
(* Pathnames.  dirs maps each directory, as a pattern may name it ("" is the
   current one), to its entries, in the order readdir gives them. *)

MatchStar(pattern, name) ==
  LET match[k \in 1..Len(pattern) + 1, j \in 1..Len(name) + 1] ==
        IF k > Len(pattern) THEN j > Len(name)
        ELSE IF pattern[k] = "*" THEN match[k + 1, j] \/ (j <= Len(name) /\ match[k, j + 1])
        ELSE j <= Len(name) /\ pattern[k] = name[j] /\ match[k + 1, j + 1]
  IN match[1, 1]

\* The letters and digits of two names decide, a prefix coming first.
Key(name) == SelectSeq(name, LAMBDA c : c \in DOMAIN Rank)
GlobLess(a, b) ==
  LET x == Key(a)
      y == Key(b)
  IN \E n \in 0..Len(x) :
       /\ n <= Len(y) /\ \A k \in 1..n : x[k] = y[k]
       /\ IF n = Len(x) THEN n < Len(y) ELSE n < Len(y) /\ Rank[x[n + 1]] < Rank[y[n + 1]]

\* Behind the names that are less, but behind the first one in any case unless
\* the new one is less.
InsertSortedByPlace(names, name) == <<name>> \o names
InsertSorted(names, name) ==
  IF names = <<>> \/ (names # <<>> /\ GlobLess(name, names[1])) THEN <<name>> \o names
  ELSE LET stops == {k \in 2..Len(names) : ~GlobLess(names[k], name)}
           at == IF stops = {} THEN Len(names) + 1 ELSE CHOOSE k \in stops : \A j \in stops : k <= j
       IN SubSeq(names, 1, at - 1) \o <<name>> \o SubSeq(names, at, Len(names))

ExpandWildcards(pattern, dirs) ==
  LET slashes == {k \in 1..Len(pattern) : pattern[k] = "/"}
      slash == IF slashes = {} THEN 0 ELSE CHOOSE k \in slashes : \A j \in slashes : j <= k
      dir == SubSeq(pattern, 1, slash)
      rest == SubSeq(pattern, slash + 1, Len(pattern))
      shown(name) == name[1] # "." /\ MatchStar(rest, name)
  IN IF dir \notin DOMAIN dirs THEN <<>>
     ELSE FoldLeft(LAMBDA found, name : InsertSorted(found, dir \o name), <<>>,
                   SelectSeq(dirs[dir], shown))

\* The tokens of the matches, linked with each other.
GlobToken(h, name) ==
  LET g == NewToken(NewPart(h, "GLOB", <<>>), "WORD", "ARG")
      t == LastToken(g)
  IN [g EXCEPT !.tok[t].head = LastPart(g), !.tok[t].tail = LastPart(g), !.tok[t].count = 1,
               !.tok[t].str = name]
GlobTokens(h, names) ==
  LET first == LastToken(h) + 1
      link(g, name) ==
        LET new == GlobToken(g, name)
        IN IF LastToken(g) < first THEN new ELSE [new EXCEPT !.tok[LastToken(g)].next = LastToken(new)]
  IN FoldLeft(link, h, names)

IsGlob(tok) == tok.glob /\ ~tok.quoted
GetGlobs(h, list, t, names) ==
  IF names = <<>> THEN h
  ELSE LET g == Replace(GlobTokens(h, names), list, t, LastToken(h) + 1)
       IN [g EXCEPT !.list[list].count = @ + Len(names) - 1]
ExpandCmdWildcards(h, list, dirs) ==
  OverTokens(h, list, IsGlob,
             LAMBDA g, t : GetGlobs(g, list, t, ExpandWildcards(g.tok[t].str, dirs)))

\* Only the first word of the redirections is looked at, unless it has exactly
\* one match.
RedirGlobs(h, t, names) == [h |-> GetGlobs(h, "redirs", t, names), done |-> Len(names) # 1]
RedirWildcardStep(r, t, dirs) ==
  IF r.done \/ ~IsExpanded(r.h.tok[t]) THEN r
  ELSE RedirGlobs(r.h, t, IF IsGlob(r.h.tok[t]) THEN ExpandWildcards(r.h.tok[t].str, dirs) ELSE <<>>)
ExpandRedirWildcards(h, dirs) ==
  FoldLeft(LAMBDA r, t : RedirWildcardStep(r, t, dirs), [h |-> h, done |-> FALSE], Walk(h, "redirs")).h

-----------------------------------------------------------------------------
(* The whole of a list. *)

\* expand_redirs: ok is FALSE if a word is not one field.
ExpandSplitRedirs(split, dirs) ==
  LET plain == Aggregate(Normalize(TagGlobs(split.h, "redirs"), "redirs"), "redirs")
  IN IF split.fields # -1 THEN [h |-> split.h, ok |-> FALSE]
     ELSE [h |-> ExpandRedirWildcards(plain, dirs), ok |-> TRUE]
ExpandRedirs(h, env, special, users, dirs) ==
  LET tagged == TagVars(TagTildes(h, "redirs"), "redirs")
      bodies == ExpandHeredocs(tagged, env, special)
      values == ExpandVars(ExpandTildes(bodies, "redirs", env, users), "redirs", env, special)
  IN ExpandSplitRedirs(SplitTokens(values, "redirs"), dirs)

\* expand_args.
ExpandArgs(h, env, special, users, dirs) ==
  LET tagged == TagVars(TagTildes(h, "words"), "words")
      values == ExpandVars(ExpandTildes(tagged, "words", env, users), "words", env, special)
      split == SplitTokens(values, "words").h
      plain == Aggregate(Normalize(TagGlobs(split, "words"), "words"), "words")
  IN ExpandCmdWildcards(plain, "words", dirs)

\* apply_redirs: a redirection is given the body behind its delimiter, or the word
\* behind it.
Sources(h) ==
  LET ops == SelectSeq(Walk(h, "redirs"), LAMBDA t : h.tok[t].role = "OP")
      behind(t) == h.tok[t].next
      source(t) == IF h.tok[t].type = "<<" THEN behind(behind(t)) ELSE behind(t)
  IN [k \in 1..Len(ops) |-> [op |-> h.tok[ops[k]].type, str |-> h.tok[source(ops[k])].str]]

\* assemble_node.
Argv(h) ==
  LET toks == SelectSeq(Walk(h, "words"), LAMBDA t : h.tok[t].role = "ARG" /\ h.tok[t].str # NoString)
  IN [k \in 1..Len(toks) |-> h.tok[toks[k]].str]
=============================================================================
