------------------------------ MODULE Console ------------------------------
(***************************************************************************)
(* The VGA text console and printf: characters, newlines and tabs written  *)
(* at the cursor, scrolling when the cursor leaves the last row, and the   *)
(* strings that tty_puts and printf make of them.  One task writes at a    *)
(* time (what happens to the critical region around it is the subject of   *)
(* Scheduler.tla).                                                         *)
(***************************************************************************)
EXTENDS Format

CONSTANTS
    Chars,        \* printable characters
    BLANK,        \* a space in the screen's color
    Width,        \* VGA_WIDTH
    Height,       \* VGA_HEIGHT
    Tab,          \* columns a tab advances, 4
    Words,        \* arguments of printf
    MaxLines      \* bound on the lines written between two tty_clear calls

ASSUME ScreenAssumption ==
    /\ {Width, Height, Tab} \subseteq Nat \ {0}
    /\ BLANK \notin Chars
    /\ Words \subseteq 0 .. (WordSpace - 1)

VARIABLES
    screen,   \* buf: tty_buf by rows, row Height being the memory behind the
              \* screen; row, col: tty_row, tty_col; cursor: the VGA's register
    page,     \* history: all the lines since the screen was cleared
    printed   \* the last call of printf: conversion, argument, text, result

vars == <<screen, page, printed>>

NoCall == [conv |-> "none"]

BlankRow == [x \in 0 .. (Width - 1) |-> BLANK]

\* tty_clear: the memory behind the screen is left as it is.
Cleared(b) == [y \in 0 .. Height |-> IF y < Height THEN BlankRow ELSE b[y]]

\* Mutant: the last row keeps its text.
ScrolledUncleared(b) ==
    [y \in 0 .. Height |-> IF y < Height - 1 THEN b[y + 1] ELSE b[y]]

\* scroll: every row gets the one below it, the last one is blanked.
Scrolled(b) == [y \in 0 .. Height |->
                  CASE y < Height - 1 -> b[y + 1]
                    [] y = Height - 1 -> BlankRow
                    [] OTHER -> b[y]]

\* update_cursor, the last statement of every operation
UpdateCursor(s) == [s EXCEPT !.cursor = s.row * Width + s.col]

\* tty_init; the boot code has blanked the memory.
Init ==
    /\ screen = [buf |-> Cleared([y \in 0 .. Height |-> BlankRow]),
                 row |-> 0, col |-> 0, cursor |-> 0]
    /\ page = <<BlankRow>>
    /\ printed = NoCall

\* Mutant: the screen is scrolled one row late.
NewLineLate(s) ==
    IF s.row + 1 > Height
    THEN [s EXCEPT !.buf = Scrolled(s.buf), !.col = 0]
    ELSE [s EXCEPT !.row = s.row + 1, !.col = 0]

\* tty_col = 0; if (++tty_row == VGA_HEIGHT) scroll()
NewLine(s) ==
    IF s.row + 1 = Height
    THEN [s EXCEPT !.buf = Scrolled(s.buf), !.col = 0]
    ELSE [s EXCEPT !.row = s.row + 1, !.col = 0]

\* tty_putchar_color
Put(s, c) ==
    UpdateCursor(
        CASE c = "\n" -> NewLine(s)
          [] c = "\t" -> IF s.col + Tab >= Width THEN NewLine(s)
                         ELSE [s EXCEPT !.col = s.col + Tab]
          [] OTHER    -> LET w == [s EXCEPT !.buf[s.row][s.col] = c]
                         IN  IF s.col + 1 = Width THEN NewLine(w)
                             ELSE [w EXCEPT !.col = s.col + 1])

\* tty_puts_color
Puts(s, str, newline) ==
    FoldLeft(Put, s, IF newline THEN Append(str, "\n") ELSE str)

\* The history: the lines and the column at the end of the last one, with c
\* behind them.
Written(p, c) ==
    LET line == p.lines[Len(p.lines)]
        grown == IF c \in {"\n", "\t"} THEN line ELSE [line EXCEPT ![p.at] = c]
        at == CASE c = "\n" -> Width [] c = "\t" -> p.at + Tab [] OTHER -> p.at + 1
        lines == [p.lines EXCEPT ![Len(p.lines)] = grown]
    IN  IF at >= Width THEN [lines |-> Append(lines, BlankRow), at |-> 0]
        ELSE [lines |-> lines, at |-> at]

\* The screen becomes s by the output of a string, within the bound.
Output(s, str) ==
    LET p == FoldLeft(Written, [lines |-> page, at |-> screen.col], str)
    IN  /\ Len(p.lines) <= MaxLines
        /\ screen' = s
        /\ page' = p.lines

\* putchar, tty_putchar
PutChar(c) ==
    /\ printed = NoCall
    /\ Output(Put(screen, c), <<c>>)
    /\ UNCHANGED printed

\* tty_puts, puts
TtyPuts(str, newline) ==
    /\ printed = NoCall
    /\ Output(Puts(screen, str, newline), IF newline THEN Append(str, "\n") ELSE str)
    /\ UNCHANGED printed

TtyClear ==
    /\ screen' = UpdateCursor([screen EXCEPT !.buf = Cleared(@), !.row = 0, !.col = 0])
    /\ page' = <<BlankRow>>
    /\ printed' = NoCall

\* printf with one conversion between other characters, on a clear screen
\* (the bound on the calls of printf between two tty_clear calls is one).
\* vprintf makes the text in a buffer and passes it to tty_puts, whose result
\* it returns; sprintf returns the length of the text.
Printf(conv, arg) ==
    LET text == Vsprintf(<<"%", "%", "%", conv, ";", "%">>, <<arg>>)
        shown == CString(text)
    IN
    /\ screen.row = 0 /\ screen.col = 0 /\ printed = NoCall
    /\ Output(Puts(screen, shown, FALSE), shown)
    /\ printed' = [conv |-> conv, arg |-> arg, text |-> text, ret |-> Len(shown),
                   sprintf |-> Len(text)]

Next ==
    \/ TtyClear
    \/ \E c \in Chars \cup {"\n", "\t"} : PutChar(c)
    \/ \E c \in Chars, newline \in BOOLEAN : TtyPuts(<<c, "\t", c>>, newline)
    \/ \E conv \in {"d", "u", "x", "b"}, n \in Words : Printf(conv, n)
    \/ \E c \in Chars : Printf("s", <<c, c>>)
    \/ \E c \in Chars \cup {NUL} : Printf("c", c)

Spec == Init /\ [][Next]_vars

-----------------------------------------------------------------------------
(* Properties.                                                             *)

\* The cursor is on the screen after every operation, so that every write to
\* tty_buf falls inside it.
CursorOnScreen ==
    /\ screen.row \in 0 .. (Height - 1)
    /\ screen.col \in 0 .. (Width - 1)
    /\ screen.cursor \in 0 .. (Width * Height - 1)

\* The screen shows the end of everything written since it was cleared: its
\* rows are the last Height lines, whatever mix of long lines, newlines and
\* tabs scrolled it, and rows not reached yet are blank.
ScreenShowsTail ==
    LET top == Len(page) - (screen.row + 1)
    IN  /\ top = IF Len(page) > Height THEN Len(page) - Height ELSE 0
        /\ \A y \in 0 .. (Height - 1) :
              screen.buf[y] = IF top + y + 1 <= Len(page) THEN page[top + y + 1]
                              ELSE BlankRow

\* The characters that a conversion put between the "%" and the ";".
Middle == SubSeq(printed.text, 2, Len(printed.text) - 1)

\* printf prints numbers that mean its arguments, without superfluous zeros,
\* at both ends of the range of int; the rest of the format surrounds them
\* and sprintf returns the length.
NumbersPrinted ==
    printed.conv \in {"d", "u", "x"} =>
        LET n == printed.arg
            negative == printed.conv = "d" /\ AsInt(n) < 0
            digits == CASE printed.conv = "x" -> SubSeq(Middle, 3, Len(Middle))
                        [] negative           -> Tail(Middle)
                        [] OTHER              -> Middle
            base == IF printed.conv = "x" THEN 16 ELSE 10
        IN  /\ printed.text[1] = "%" /\ Last(printed.text) = ";"
            /\ IsNumeral(digits, base)
            /\ Meaning(digits, base) = IF negative THEN -AsInt(n) ELSE n
            /\ (Middle[1] = "-") = negative
            /\ printed.sprintf = Len(printed.text)

\* What printf returns is the number of characters on the screen: less than
\* the length of the text if %c was given a terminator.
ResultIsShown ==
    printed # NoCall =>
        screen.cursor = (printed.ret % Width) +
                        Width * (IF printed.ret \div Width < Height
                                 THEN printed.ret \div Width ELSE Height - 1)

\* printf shows numbers as what they are and reports what it shows.
PrintfCorrect == NumbersPrinted /\ ResultIsShown

=============================================================================
