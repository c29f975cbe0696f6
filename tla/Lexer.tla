------------------------------- MODULE Lexer --------------------------------
(***************************************************************************)
(* lexer.c: one list of tokens from a file and the files it includes.      *)
(*                                                                         *)
(* source gives each file its lines and a line its written tokens.  A      *)
(* negative number is written as two tokens, joined when all files are     *)
(* read.  The three tokens .include "f" are one token here, and "bad"      *)
(* stands for a character the lexer does not know.  How characters become  *)
(* tokens is left out.                                                     *)
(***************************************************************************)
EXTENDS Integers, Sequences

CONSTANTS Root, MaxDepth, MaxLines

ASSUME LexerAssumption == MaxDepth \in Nat \ {0} /\ MaxLines \in Nat \ {0}

VARIABLES
    source,     \* the files: name -> lines
    open,       \* include_stack, each file with the number of lines read
    tokens,     \* tokenList
    lexed       \* "reading", "read" or "refused"

Minus == [t |-> "minus", v |-> 0]
IsNegative(token) == token.t = "num" /\ token.v < 0

\* get_token takes '-' and the digits apart.
RECURSIVE Spelled(_)
Spelled(line) ==
    IF line = <<>> THEN <<>>
    ELSE (IF IsNegative(Head(line)) THEN <<Minus, [t |-> "num", v |-> -Head(line).v]>>
          ELSE <<Head(line)>>) \o Spelled(Tail(line))

\* lexer: a minus before a number is joined to it.
Joined(ts) ==
    LET joins(i) == i \in 1..(Len(ts) - 1) /\ ts[i].t = "minus" /\ ts[i + 1].t = "num"
        signed == [i \in 1..Len(ts) |-> IF joins(i - 1) THEN [ts[i] EXCEPT !.v = -@] ELSE ts[i]]
        kept == SelectSeq([i \in 1..Len(ts) |-> i], LAMBDA i : ~joins(i))
    IN  [k \in 1..Len(kept) |-> signed[kept[k]]]

Chain == {open[i].file : i \in 1..Len(open)}
Top == open[Len(open)]
LinesOf(file) == IF Len(source[file]) < MaxLines THEN Len(source[file]) ELSE MaxLines
HasLine == lexed = "reading" /\ open # <<>> /\ Top.line < LinesOf(Top.file)
Line == source[Top.file][Top.line + 1]
NextLine == [open EXCEPT ![Len(open)].line = @ + 1]
Known(line) == \A i \in 1..Len(line) : line[i].t # "bad"
IsInclude(line) == Len(line) = 1 /\ line[1].t = "include"

\* Seeded bug: one file too many.
TooDeepLate == Len(open) > MaxDepth

\* lexer_recursive, up to fopen: too deep, circular, or missing.
TooDeep == Len(open) >= MaxDepth
CanOpen(file) == ~TooDeep /\ file \notin Chain /\ file \in DOMAIN source

LexerInit(sources) ==
    /\ source \in sources
    /\ open = <<>>
    /\ tokens = <<>>
    /\ lexed = "starting"

Refuse == lexed' = "refused" /\ UNCHANGED <<source, open, tokens>>

\* lexer opens the first file.
OpenRoot ==
    /\ lexed = "starting"
    /\ CanOpen(Root)
    /\ open' = <<[file |-> Root, line |-> 0]>>
    /\ lexed' = "reading"
    /\ UNCHANGED <<source, tokens>>

RefuseRoot == lexed = "starting" /\ ~CanOpen(Root) /\ Refuse

\* process_line_tokens.
TakeLine ==
    /\ HasLine
    /\ Known(Line)
    /\ ~IsInclude(Line)
    /\ tokens' = tokens \o Spelled(Line)
    /\ open' = NextLine
    /\ UNCHANGED <<source, lexed>>

RefuseLine == HasLine /\ ~Known(Line) /\ Refuse

\* process_include: a line of just these three tokens, which are dropped.
Include ==
    /\ HasLine
    /\ IsInclude(Line)
    /\ CanOpen(Line[1].v)
    /\ open' = Append(NextLine, [file |-> Line[1].v, line |-> 0])
    /\ UNCHANGED <<source, tokens, lexed>>

RefuseInclude == HasLine /\ IsInclude(Line) /\ ~CanOpen(Line[1].v) /\ Refuse

\* A file ends, or has MaxLines lines read; with the first file, the lexer.
EndFile ==
    /\ lexed = "reading"
    /\ open # <<>>
    /\ ~HasLine
    /\ open' = SubSeq(open, 1, Len(open) - 1)
    /\ IF Len(open) > 1 THEN UNCHANGED <<tokens, lexed>>
       ELSE tokens' = Joined(tokens) /\ lexed' = "read"
    /\ UNCHANGED source

LexerNext == OpenRoot \/ RefuseRoot \/ TakeLine \/ RefuseLine \/ Include \/ RefuseInclude \/ EndFile
=============================================================================
