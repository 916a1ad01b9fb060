---------------------------- MODULE MCFrontEnd -----------------------------
(* Alphabets for TLC. *)
EXTENDS Parsing

\* Quotes, comments and operators over two lines.
LexingAlphabet == {"a", " ", "\"", "#", "&&", "|", ";", "(", ")"}

\* The whole grammar of one line.
GrammarAlphabet == {"a", "&&", "||", "|", ";", ">", "(", ")"}

\* Backslashes.
EscapeAlphabet == {"a", " ", "'", "\\"}

\* A quoted word before an operator.
QuoteAlphabet == {"a", "'", ";"}
=============================================================================
