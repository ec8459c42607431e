------------------------------ MODULE Terminal ------------------------------
(***************************************************************************)
(* The terminal of kernel/src/sys/tty.c on the text screen of              *)
(* ega_driver.c.  A text is a sequence of characters, each a string;       *)
(* characters that do something are named ("esc", "nl", "tab", "bs"), and  *)
(* a conversion of kprintf is one character ("%s").  A cell holds a        *)
(* character; the colour it was drawn in is left out.                      *)
(***************************************************************************)
EXTENDS Integers, Sequences, SequencesExt, FiniteSetsExt

CONSTANTS
    Width, Height,   \* of the screen; scroll_line takes Width to be 80
    Glyph,           \* characters that are drawn, " " among them
    Formats,         \* what the kernel passes to kprintf
    Texts,           \* what %s, %d, %x may print: file contents, lines, numbers
    Resetting,       \* the formats of the kernel that end in "\033[0m"
    Arguments,       \* characters passed for %c; an ESC, which is drawn there, is a glyph
    DigitLimit,      \* digits read in an escape sequence, 50 in the code
    MaxGone          \* bound: lines that may scroll away

Digit == <<"0", "1", "2", "3", "4", "5", "6", "7", "8", "9">>
Control == {"esc", "nl", "tab", "bs"}
Conversion == {"%s", "%c", "%?"}

(* "\033[0m" *)
Reset == <<"esc", "[", "0", "m">>

EndsReset(s) == Len(s) >= 4 /\ \A k \in 1..4 : s[Len(s) - 4 + k] = Reset[k]

ASSUME TerminalAssumption ==
    /\ Width \in Nat \ {0} /\ Height \in Nat \ {0} /\ DigitLimit \in Nat \ {0, 1}
    /\ " " \in Glyph /\ Glyph \cap (Control \cup Conversion) = {}
    /\ Texts \subseteq Seq(Glyph \cup Control) /\ Arguments \subseteq Glyph \cup (Control \ {"esc"})
    /\ Formats \subseteq Seq(Glyph \cup Control \cup Conversion) \ {<<>>}
    /\ \A f \in Resetting : EndsReset(f)

VARIABLES
    row, col,
    current_fg_color, current_bg_color, current_color,
    screen,          \* screen[y][x]
    fmt,             \* what kprintf has still to read of its format
    str,             \* what kprint has still to read of its message
    last,            \* the format of the latest call of kprintf
    gone             \* history: lines that scrolled off the screen

colors == <<current_fg_color, current_bg_color, current_color>>
display == <<row, col, screen, gone>>
terminalVars == <<display, colors, fmt, str, last>>

White == 15
Black == 0
BlankLine == [x \in 0..Width - 1 |-> " "]

(* TTY_COLOR, a bitwise or.  A background that is no multiple of 16 comes from
   an unknown code only and is White. *)
TtyColor(fg, bg) == IF bg = White THEN White ELSE fg + bg

(* The state clear_tty leaves behind; kernel_main calls it before it prints. *)
TerminalInit ==
    /\ row = 0 /\ col = 0
    /\ current_fg_color = White
    /\ current_bg_color = Black
    /\ current_color = TtyColor(White, Black)
    /\ screen = [y \in 0..Height - 1 |-> BlankLine]
    /\ fmt = <<>> /\ str = <<>> /\ last = <<>> /\ gone = <<>>

-----------------------------------------------------------------------------
(* Cells and cursor *)

(* Fault: the line that comes up is the one that was there. *)
ScrolledUncleared(cells) ==
    [y \in 0..Height - 1 |-> IF y < Height - 1 THEN cells[y + 1] ELSE cells[y]]

(* ega_driver_scroll_line: each line but the last takes the next one's cells. *)
Scrolled(cells) ==
    [y \in 0..Height - 1 |-> IF y < Height - 1 THEN cells[y + 1] ELSE BlankLine]

(* row++ and scroll_screen, which leaves at once while row is on the screen. *)
Down(cells) ==
    /\ col' = 0
    /\ IF row + 1 < Height
       THEN row' = row + 1 /\ screen' = cells /\ UNCHANGED gone
       ELSE /\ row' = row
            /\ screen' = Scrolled(cells)
            /\ gone' = Append(gone, cells[0])

KputChar(g) ==
    LET cells == [screen EXCEPT ![row] = [x \in 0..Width - 1 |->
                                          IF x = col THEN g ELSE screen[row][x]]]
    IN  IF col + 1 >= Width THEN Down(cells)
        ELSE screen' = cells /\ col' = col + 1 /\ UNCHANGED <<row, gone>>

NewLine == Down(screen)

AtHome == row = 0 /\ col = 0

(* The cell "\b" goes back to. *)
Before == IF col > 0 THEN [y |-> row, x |-> col - 1] ELSE [y |-> row - 1, x |-> Width - 1]

Redrawn(p, g) == [screen EXCEPT ![p.y] = [x \in 0..Width - 1 |->
                                          IF x = p.x THEN g ELSE screen[p.y][x]]]

(* "\b" in kprintf: back by one cell, which is blanked.  The shell, its only
   user, does so behind characters it has put. *)
RubOut ==
    /\ ~AtHome
    /\ screen' = Redrawn(Before, " ")
    /\ row' = Before.y /\ col' = Before.x
    /\ UNCHANGED gone

(* "\b" in kprint: back by one cell, and the loop goes on to draw the character
   itself there.  From the first cell of the screen it goes to row -1, outside
   the screen's memory, and comes back. *)
Overtype ==
    /\ screen' = IF AtHome THEN screen ELSE Redrawn(Before, "bs")
    /\ UNCHANGED <<row, col, gone>>

-----------------------------------------------------------------------------
(* Escape sequences.  A text s begins with "esc". *)

CharAt(s, i) == IF i <= Len(s) THEN s[i] ELSE "nul"

(* How many digits follow "\033[", as far as the loop reads. *)
Digits(s) ==
    Max({n \in 0..DigitLimit : \A i \in 3..n + 2 : CharAt(s, i) \in Range(Digit)})

(* The number they are, in an uint8_t. *)
EscapeCode(s) ==
    LET digit(n) == CHOOSE v \in 0..9 : Digit[v + 1] = s[n + 2]
        code[n \in 0..Digits(s)] == IF n = 0 THEN 0 ELSE (10 * code[n - 1] + digit(n)) % 256
    IN  code[Digits(s)]

(* The character the parser stops at, as an index of s. *)
StopsAt(s) ==
    LET end == Digits(s) + 3 IN
    IF CharAt(s, 2) # "[" THEN 2
    ELSE IF Digits(s) = DigitLimit \/ CharAt(s, end) # ";" THEN end
    ELSE IF CharAt(s, end + 1) # "1" THEN end + 1
    ELSE end + 2

Bright(s) == CharAt(s, 2) = "[" /\ StopsAt(s) > Digits(s) + 3

(* The sequence is one the parser understands; otherwise it is left at once. *)
Understood(s) ==
    /\ CharAt(s, 2) = "["
    /\ \/ CharAt(s, StopsAt(s)) = "m" /\ StopsAt(s) # Digits(s) + 4
       \/ Digits(s) = DigitLimit

(* What is read next: past the "m", or the character that was not understood,
   which kprint skips and kprintf prints. *)
ResumesAt(s, kprint) ==
    IF kprint \/ (Understood(s) /\ Digits(s) # DigitLimit) THEN StopsAt(s) + 1 ELSE StopsAt(s)

Dark  == <<0, 4, 2, 14, 1, 5, 3, 15>>
Light == <<7, 12, 10, 14, 9, 13, 11, 15>>

(* ansi_color_to_tty_color: by the last digit of the code. *)
AnsiColor(code, bright) ==
    LET color(n) == IF bright THEN Light[n + 1] ELSE Dark[n + 1]
    IN  IF code \in 30..37 THEN color(code - 30)
        ELSE IF code \in 40..47 THEN 16 * color(code - 40)
        ELSE White

(* Fault: code 0 leaves the background. *)
RecolorKeepsBackground(code, bright) ==
    /\ current_fg_color' = IF code = 0 THEN White
                           ELSE IF code < 40 THEN AnsiColor(code, bright) ELSE current_fg_color
    /\ current_bg_color' = IF code >= 40 THEN AnsiColor(code, bright) ELSE current_bg_color
    /\ current_color' = TtyColor(current_fg_color', current_bg_color')

Recolor(code, bright) ==
    /\ current_fg_color' = IF code = 0 THEN White
                           ELSE IF code < 40 THEN AnsiColor(code, bright) ELSE current_fg_color
    /\ current_bg_color' = IF code = 0 THEN Black
                           ELSE IF code >= 40 THEN AnsiColor(code, bright) ELSE current_bg_color
    /\ current_color' = TtyColor(current_fg_color', current_bg_color')

Escape(s) == IF Understood(s) THEN Recolor(EscapeCode(s), Bright(s)) ELSE UNCHANGED colors

From(s, i) == SubSeq(s, i, Len(s))

-----------------------------------------------------------------------------
(* kprint and kprintf, one character per step *)

(* The rest of a text whose first character is drawn, or whose tab is: four
   kput_char(' '). *)
Kprint ==
    /\ str # <<>>
    /\ UNCHANGED <<fmt, last>>
    /\ LET c == Head(str) IN
       \/ c \in Glyph /\ KputChar(c) /\ str' = Tail(str) /\ UNCHANGED colors
       \/ c = "tab" /\ str' = <<" ", " ", " ", " ">> \o Tail(str) /\ UNCHANGED <<display, colors>>
       \/ c = "nl" /\ NewLine /\ str' = Tail(str) /\ UNCHANGED colors
       \/ c = "bs" /\ Overtype /\ str' = Tail(str) /\ UNCHANGED colors
       \/ c = "esc" /\ Escape(str) /\ UNCHANGED display
          /\ \/ ResumesAt(str, TRUE) <= Len(str) + 1 /\ str' = From(str, ResumesAt(str, TRUE))
             \* the terminator was skipped: whatever lies behind it is printed
             \/ ResumesAt(str, TRUE) > Len(str) + 1 /\ str' \in Texts

(* kprintf's own characters.  A conversion prints its argument by kprint, except
   %c and %%, which do what the character does in the format itself (but draw an
   ESC, tty.c:521); one that is not known prints nothing. *)
Kprintf ==
    /\ str = <<>> /\ fmt # <<>>
    /\ UNCHANGED last
    /\ LET c == Head(fmt) IN
       \/ c \in Glyph /\ KputChar(c) /\ fmt' = Tail(fmt) /\ UNCHANGED <<colors, str>>
       \/ c = "tab" /\ fmt' = <<" ", " ", " ", " ">> \o Tail(fmt) /\ UNCHANGED <<display, colors, str>>
       \/ c = "nl" /\ NewLine /\ fmt' = Tail(fmt) /\ UNCHANGED <<colors, str>>
       \/ c = "bs" /\ RubOut /\ fmt' = Tail(fmt) /\ UNCHANGED <<colors, str>>
       \/ c = "esc" /\ Escape(fmt) /\ fmt' = From(fmt, ResumesAt(fmt, FALSE)) /\ UNCHANGED <<display, str>>
       \/ c = "%s" /\ str' \in Texts /\ fmt' = Tail(fmt) /\ UNCHANGED <<display, colors>>
       \/ c = "%c" /\ UNCHANGED <<display, colors, str>>
          /\ \E arg \in Arguments :
                (arg = "bs" => ~AtHome) /\ fmt' = <<arg>> \o Tail(fmt)
       \/ c = "%?" /\ fmt' = Tail(fmt) /\ UNCHANGED <<display, colors, str>>

(* The kernel calls kprintf. *)
Call ==
    /\ fmt = <<>> /\ str = <<>> /\ Len(gone) < MaxGone
    /\ \E f \in Formats :
          /\ Head(f) = "bs" => ~AtHome
          /\ fmt' = f /\ last' = f
    /\ UNCHANGED <<display, colors, str>>

(* The bound MaxGone is reached. *)
Enough == fmt = <<>> /\ str = <<>> /\ Len(gone) >= MaxGone /\ UNCHANGED terminalVars

TerminalNext == Call \/ Kprintf \/ Kprint \/ Enough

TerminalSpec == TerminalInit /\ [][TerminalNext]_terminalVars

-----------------------------------------------------------------------------
(* Properties *)

Shown == INSTANCE Page WITH
    Glyph <- Glyph \cup {"bs"}, Blank <- " ",
    lines <- gone \o [y \in 1..Height |-> screen[y - 1]], at <- Len(gone) + row + 1

(* However lines wrap, scroll and are rubbed out, the screen shows the last
   lines of the page that was printed, and nothing that scrolled away changes. *)
ImplementsPage == Shown!Spec

(* Whatever a printed file did to the colours, complete or broken off in the
   middle of an escape sequence: once one of the kernel's messages that end in
   "\033[0m" is out, the terminal is back to white on black (shell.c:203). *)
PromptIsPlain ==
    (fmt = <<>> /\ str = <<>> /\ last \in Resetting) => current_color = TtyColor(White, Black)
=============================================================================
