----------------------------- MODULE PythonParser -----------------------------
(***************************************************************************)
(* PythonParserService: which keywords and classes it finds in a Python    *)
(* library, compared with what Python makes of the same file.              *)
(*                                                                         *)
(* The parser looks at lines one by one with regular expressions, so that  *)
(* a file is a sequence of kinds of lines, and a method, a class or a      *)
(* docstring is known by its lines.  What a line says, names and arguments, *)
(* is left out, and so are the imports, found line by line.  Quotes are     *)
(* three double ones, at the beginning or the end of a line: the parser    *)
(* knows no others, and files that have some are left out.                 *)
(***************************************************************************)
EXTENDS Naturals, FiniteSets, Sequences

CONSTANT MaxLines \* bound on the lines of a file

ASSUME LinesAssumption == MaxLines \in Nat

VARIABLE text \* the file

\* "def" is the head of a method and "function" that of a function outside
\* classes, "wrapped" one whose parameters go over several lines, and "async" one
\* that begins with that word; "inner" is a class inside another; "quote" has
\* nothing but quotes, "ahead" has them before and "behind" after other text, and
\* "oneline" is a whole docstring; "words" is anything else.
LineKinds == {"decorator", "def", "function", "wrapped", "async", "class", "inner",
              "quote", "ahead", "behind", "oneline", "words"}

-----------------------------------------------------------------------------
(* The parser *)

IsDef == {"def", "function", "wrapped"}
Matched == IsDef \ {"wrapped"}

\* The lines that begin, and those that end, with quotes.
Opening == {"quote", "ahead", "oneline"}
Closing == {"quote", "behind", "oneline"}

LinesOf(t, kinds) == {i \in 1..Len(t) : t[i] \in kinds}

\* The first line from i on of one of the kinds, or the one after the last.
First(t, i, kinds) ==
  CHOOSE j \in {Len(t) + 1} \union {m \in LinesOf(t, kinds) : m >= i} :
    \A m \in LinesOf(t, kinds) : m >= i => j <= m

\* Does a docstring follow line i?
HasDocstring(t, i) == i < Len(t) /\ t[i + 1] \in Opening

\* The lines between one that begins with quotes and the next that ends with them;
\* what else these two say is dropped.
Docstring(t, i) ==
  IF HasDocstring(t, i) THEN (i + 2)..(First(t, i + 2, Closing) - 1) ELSE {}

\* Fault: the line after the decorator is not looked at.
KeywordsLate(t) ==
  {[at |-> i, method |-> First(t, i + 2, IsDef),
    docstring |-> Docstring(t, First(t, i + 2, IsDef))] :
     i \in {d \in LinesOf(t, {"decorator"}) :
              First(t, d + 2, IsDef) \in LinesOf(t, Matched)}}

\* extractKeywords: each decorator goes to the next line that begins a method,
\* and is lost if that line does not hold all parameters.
Keywords(t) ==
  {[at |-> i, method |-> First(t, i + 1, IsDef),
    docstring |-> Docstring(t, First(t, i + 1, IsDef))] :
     i \in {d \in LinesOf(t, {"decorator"}) :
              First(t, d + 1, IsDef) \in LinesOf(t, Matched)}}

\* Where the search for the methods of the class at line c begins.
Body(t, c) == IF HasDocstring(t, c) THEN First(t, c + 2, Closing) + 1 ELSE c + 1

\* Fault: the methods of the classes after it are taken for its own.
ClassesToEnd(t) ==
  {[class |-> c, docstring |-> Docstring(t, c),
    methods |-> {m \in LinesOf(t, Matched) : m >= Body(t, c)}] :
     c \in LinesOf(t, {"class", "inner"})}

\* extractClasses: a class ends where a line begins with "class", unindented.
Classes(t) ==
  {[class |-> c, docstring |-> Docstring(t, c),
    methods |-> {m \in LinesOf(t, Matched) :
                   Body(t, c) <= m /\ m < First(t, Body(t, c), {"class"})}] :
     c \in LinesOf(t, {"class", "inner"})}

-----------------------------------------------------------------------------
(* Files *)

WriteLine(kind) == Len(text) < MaxLines /\ text' = Append(text, kind)

ParserInit == text = <<>>
ParserNext == \E kind \in LineKinds : WriteLine(kind)

-----------------------------------------------------------------------------
(* What Python makes of a file *)

PythonDef == IsDef \union {"async"}

\* The lines that a string goes on after, or that it ends on.
Turning == {"quote", "ahead", "behind"}

\* Line i begins inside a string: an odd number of lines turn before.
InString(t, i) == Cardinality({m \in LinesOf(t, Turning) : m < i}) % 2 = 1

CodeOf(t, kinds) == {i \in LinesOf(t, kinds) : ~InString(t, i)}

\* The lines that have text of the docstring below line i.
StringAfter(t, i) ==
  {m \in 1..Len(t) : /\ i < m
                     /\ t[i + 1] \in Opening
                     /\ t[m] # "quote"
                     /\ \A n \in i + 2..m : InString(t, n)}

\* A decorator belongs to the method below it, comments and decorators of other
\* kinds aside.
Decorates(t, d, m) ==
  /\ d \in CodeOf(t, {"decorator"})
  /\ m \in CodeOf(t, PythonDef)
  /\ d < m
  /\ \A i \in (d + 1)..(m - 1) : t[i] = "words"

PythonKeywords(t) ==
  {[at |-> p[1], method |-> p[2], docstring |-> StringAfter(t, p[2])] :
     p \in {q \in (1..Len(t)) \X (1..Len(t)) : Decorates(t, q[1], q[2])}}

\* A class goes on to the next one.
PythonClasses(t) ==
  {[class |-> c, docstring |-> StringAfter(t, c),
    methods |-> {m \in CodeOf(t, PythonDef) :
                   c < m /\ \A d \in CodeOf(t, {"class"}) : ~(c < d /\ d < m)}] :
     c \in CodeOf(t, {"class"})}

-----------------------------------------------------------------------------

\* A file is a sequence of lines within the bound.
ParserTypeOK == text \in Seq(LineKinds) /\ Len(text) <= MaxLines

\* Strings are closed and hold nothing like code, and docstrings go over several
\* lines.
PlainDocstrings(t) ==
  /\ ~InString(t, Len(t) + 1)
  /\ \A i \in 1..Len(t) :
       /\ InString(t, i) => t[i] \in {"words", "quote", "behind"}
       /\ i > 1 /\ t[i] = "oneline" => t[i - 1] \notin IsDef \union {"class", "inner"}

\* Docstrings without what stands on a line with their quotes.
Inside(t, lines) == {m \in lines : t[m] \notin Opening \union Closing}
BetweenQuotes(t, found) == {[x EXCEPT !.docstring = Inside(t, @)] : x \in found}

\* Where docstrings are plain and each decorator stands before a method with its
\* parameters on one line, the parser finds just the decorated methods, each with
\* its own docstring, except that it loses the text on a line with the quotes.
KeywordsAsPython ==
  /\ PlainDocstrings(text)
  /\ \A d \in LinesOf(text, {"decorator"}) :
       \E m \in LinesOf(text, Matched) : Decorates(text, d, m)
  => Keywords(text) = BetweenQuotes(text, PythonKeywords(text))

\* Where docstrings are plain, methods are not asynchronous, parameters are on one
\* line, and no class is inside another nor followed by a function, the parser finds
\* the classes with their methods and, again without the text on lines with quotes,
\* their docstrings.
ClassesAsPython ==
  /\ PlainDocstrings(text)
  /\ LinesOf(text, {"wrapped", "async", "inner"}) = {}
  /\ \A c \in LinesOf(text, {"class"}), f \in LinesOf(text, {"function"}) : f < c
  => Classes(text) = BetweenQuotes(text, PythonClasses(text))
=============================================================================
