--------------------------- MODULE ShellTerminal ---------------------------
(***************************************************************************)
(* The bytes that run_shell passes between the terminal and the shell.     *)
(* What the shell's programs print is read from the PTY in chunks, each of *)
(* which process_data turns into lines of plain text: TerminalBuffer, of   *)
(* which console.txt and the parts are made.  What is typed is forwarded   *)
(* to the PTY, but for Alt+S.                                              *)
(*                                                                         *)
(* Beside the buffer stands the screen on which the user sees the same     *)
(* output.  It is as wide and as high as need be, and each character takes *)
(* one column: lines that a terminal wraps, screens that it scrolls and    *)
(* characters of two columns are left out.                                 *)
(***************************************************************************)
EXTENDS Integers, Sequences, FiniteSets, SequencesExt

CONSTANTS
    Tokens,      \* what programs print, one at a time
    Rooms        \* what may happen: a set of bounds

Token(kind, ch, params) == [kind |-> kind, ch |-> ch, params |-> params]

TerminalAssumption ==
    /\ \A token \in Tokens : token = Token(token.kind, token.ch, token.params)
    /\ Rooms \subseteq [tokens : Nat, pending : Nat, keys : Nat]

ASSUME TerminalAssumption

VARIABLES
    room,        \* the number of tokens printed, of those not read at a time, and of keys
    terminal,    \* terminal_buffer
    printing,    \* bytes of tokens printed and not read yet
    printed,
    screen,      \* what the user sees
    aligned,     \* history: the first line of the buffer is the first of the screen
    stale,       \* history: the saved position is not one of this record
    odd,         \* history: something was printed that the buffer does not follow
    torn,        \* history: a read ended within a token
    typed,       \* what was typed
    unread,      \* the rest of it that was not read yet
    held,        \* stdin_esc_pending
    forwarded,   \* written to the PTY
    taken,       \* keys taken as Alt+S
    closed       \* stdin_eof

outputVars == <<room, terminal, printing, printed, screen, aligned, stale, odd, torn>>
typingVars == <<typed, unread, held, forwarded, taken, closed>>
terminalVars == <<outputVars, typingVars>>

-----------------------------------------------------------------------------
(* The buffer.  Rows and columns count from 0.                             *)

NewTerminal == [lines |-> <<<<>>>>, row |-> 0, col |-> 0, saved |-> <<0, 0>>]

Least(a, b) == IF a < b THEN a ELSE b
Most(a, b) == IF a > b THEN a ELSE b

LineOf(t) == IF t.row < Len(t.lines) THEN t.lines[t.row + 1] ELSE <<>>

\* get_line: the line of the cursor is made, with those above it.
WithLine(t, line) ==
    [t EXCEPT !.lines = [r \in 1..Most(Len(t.lines), t.row + 1) |->
        CASE r = t.row + 1 -> line
          [] r # t.row + 1 /\ r <= Len(t.lines) -> t.lines[r]
          [] OTHER -> <<>>]]

\* Slip: what stands to the right of the cursor is pushed on.
InsertCharBefore(t, ch) ==
    LET line == LineOf(t)
        blanks == [k \in 1..(t.col - Len(line)) |-> " "]
    IN  [WithLine(t, SubSeq(line, 1, Least(t.col, Len(line))) \o blanks \o <<ch>>
                         \o SubSeq(line, t.col + 1, Len(line))) EXCEPT !.col = t.col + 1]

\* A line that ends before the cursor is filled up; what is under it is replaced.
InsertChar(t, ch) ==
    LET line == LineOf(t)
        new == [k \in 1..Most(Len(line), t.col + 1) |->
                   CASE k = t.col + 1 -> ch
                     [] k # t.col + 1 /\ k <= Len(line) -> line[k]
                     [] OTHER -> " "]
    IN  [WithLine(t, new) EXCEPT !.col = t.col + 1]

\* The character before the cursor is removed, not passed over.
Backspace(t) ==
    LET line == LineOf(t)
    IN  IF t.col = 0 THEN t
        ELSE [WithLine(t, IF t.col <= Len(line) THEN RemoveAt(line, t.col) ELSE line)
                 EXCEPT !.col = t.col - 1]

CarriageReturn(t) == [t EXCEPT !.col = 0]
LineFeed(t) ==
    LET down == [t EXCEPT !.row = t.row + 1, !.col = 0] IN WithLine(down, LineOf(down))

MoveLeft(t, n) == [t EXCEPT !.col = Most(t.col - n, 0)]
MoveRight(t, n) == [t EXCEPT !.col = t.col + n]
\* Up and down, to the end of the line that is found there if it is shorter.
MoveTo(t, row) ==
    LET there == [t EXCEPT !.row = row]
    IN  [WithLine(there, LineOf(there)) EXCEPT !.col = Least(t.col, Len(LineOf(there)))]

EraseLine(t, how) ==
    LET line == LineOf(t)
    IN  CASE how = 0 -> WithLine(t, SubSeq(line, 1, Least(t.col, Len(line))))
          [] how = 1 -> [WithLine(t, SubSeq(line, t.col + 1, Len(line))) EXCEPT !.col = 0]
          [] how = 2 -> [WithLine(t, <<>>) EXCEPT !.col = 0]
          [] OTHER -> t

EraseScreen(t, how) ==
    LET line == LineOf(t)
    IN  CASE how = 0 ->
               LET cut == WithLine(t, SubSeq(line, 1, Least(t.col, Len(line))))
               IN  [cut EXCEPT !.lines = SubSeq(@, 1, t.row + 1)]
          [] how = 1 ->
               LET cut == WithLine(t, SubSeq(line, t.col + 1, Len(line)))
               IN  [cut EXCEPT !.lines = SubSeq(@, t.row + 1, Len(@)), !.row = 0]
          [] how = 2 -> [t EXCEPT !.lines = <<<<>>>>, !.row = 0, !.col = 0]
          [] OTHER -> t

\* Rows and columns that are given count from 1; a column that is not given stays.
SetPosition(t, params) ==
    [t EXCEPT !.row = IF params = <<>> THEN 0 ELSE Most(params[1] - 1, 0),
              !.col = CASE params = <<>> -> 0
                        [] Len(params) = 1 -> t.col
                        [] OTHER -> Most(params[2] - 1, 0)]

ApplyEscape(t, final, params) ==
    LET steps == IF params = <<>> THEN 1 ELSE params[1]
        how == IF params = <<>> THEN 0 ELSE params[1]
    IN  CASE final = "D" -> MoveLeft(t, steps)
          [] final = "C" -> MoveRight(t, steps)
          [] final = "A" -> MoveTo(t, Most(t.row - steps, 0))
          [] final = "B" -> MoveTo(t, t.row + steps)
          [] final = "s" -> [t EXCEPT !.saved = <<t.row, t.col>>]
          [] final = "u" -> [t EXCEPT !.row = t.saved[1], !.col = t.saved[2]]
          [] final = "K" -> EraseLine(t, how)
          [] final = "J" -> EraseScreen(t, how)
          [] final = "H" -> SetPosition(t, params)
          [] OTHER -> t

-----------------------------------------------------------------------------
(* process_data: one chunk.  Nothing is remembered from the chunk before.  *)

Digits == <<"0", "1", "2">>
IsDigit(b) == b \in ToSet(Digits)
DigitOf(b) == (CHOOSE k \in 1..3 : Digits[k] = b) - 1
Ignored == {"bel", "nul"}

\* A character of more than one byte is a "lead" and a "tail".
Utf8(chunk) ==
    \A k \in DOMAIN chunk :
        /\ chunk[k] = "lead" => k < Len(chunk) /\ chunk[k + 1] = "tail"
        /\ chunk[k] = "tail" => k > 1 /\ chunk[k - 1] = "lead"

\* Of a chunk that is not UTF-8 only what moves the cursor is processed.
TextByte(p, b, utf8) ==
    CASE b = "esc" -> [p EXCEPT !.mode = "escape"]
      [] b = "bs" -> [p EXCEPT !.t = Backspace(p.t)]
      [] b = "cr" -> [p EXCEPT !.t = CarriageReturn(p.t)]
      [] b = "lf" -> [p EXCEPT !.t = LineFeed(p.t)]
      [] b = "tab" -> [p EXCEPT !.t = InsertChar(p.t, "tab")]
      [] b = "lead" /\ utf8 -> [p EXCEPT !.t = InsertChar(p.t, "long")]
      [] b \in Ignored \union {"lead", "tail"} -> p
      [] OTHER -> IF utf8 THEN [p EXCEPT !.t = InsertChar(p.t, b)] ELSE p

Parameter(p) == IF p.number = -1 THEN p.params ELSE Append(p.params, p.number)
ParameterByte(p, b) ==
    CASE IsDigit(b) -> [p EXCEPT !.mode = "params",
                                 !.number = 10 * Most(p.number, 0) + DigitOf(b)]
      [] b = ";" -> [p EXCEPT !.mode = "params", !.number = -1,
                              !.params = Append(p.params, Most(p.number, 0))]
      [] OTHER -> [p EXCEPT !.mode = "text", !.number = -1, !.params = <<>>,
                            !.t = ApplyEscape(p.t, b, Parameter(p))]

\* What follows an escape that is neither "[" nor "]" is text.
NextByte(p, b, utf8) ==
    CASE p.mode = "text" -> TextByte(p, b, utf8)
      [] p.mode = "escape" ->
           CASE b = "[" -> [p EXCEPT !.mode = "csi"]
             [] b = "]" -> [p EXCEPT !.mode = "osc"]
             [] OTHER -> TextByte([p EXCEPT !.mode = "text"], b, utf8)
      [] p.mode = "csi" /\ b = "?" -> [p EXCEPT !.mode = "params"]
      [] p.mode = "osc" ->
           [p EXCEPT !.mode = CASE b = "bel" -> "text" [] b = "esc" -> "osc end"
                                [] OTHER -> "osc"]
      [] p.mode = "osc end" ->
           [p EXCEPT !.mode = CASE b \in {"bel", "\\"} -> "text" [] b = "esc" -> "osc end"
                                [] OTHER -> "osc"]
      [] OTHER -> ParameterByte(p, b)

ProcessData(t, chunk) ==
    LET Step(p, b) == NextByte(p, b, Utf8(chunk))
    IN  FoldLeft(Step, [mode |-> "text", params |-> <<>>, number |-> -1, t |-> t], chunk).t

-----------------------------------------------------------------------------
(* What a token is in bytes, and what it does on the screen.               *)

NumberBytes(n) == <<Digits[n + 1]>>
ParamBytes(params) ==
    FlattenSeq([k \in DOMAIN params |->
                   (IF k = 1 THEN <<>> ELSE <<";">>) \o NumberBytes(params[k])])

Bytes(token) ==
    CASE token.kind = "char" -> IF token.ch = "long" THEN <<"lead", "tail">> ELSE <<token.ch>>
      [] token.kind = "rubout" -> <<"bs", " ", "bs">>
      [] token.kind = "newline" -> <<"cr", "lf">>
      [] token.kind = "control" -> <<token.ch>>
      [] token.kind = "csi" -> <<"esc", "[">> \o ParamBytes(token.params) \o <<token.ch>>
      [] token.kind = "private" ->
           <<"esc", "[", "?">> \o ParamBytes(token.params) \o <<token.ch>>
      [] token.kind = "title" ->
           <<"esc", "]", "x">> \o IF token.ch = "bel" THEN <<"bel">> ELSE <<"esc", "\\">>
      [] token.kind = "charset" -> <<"esc", "(", token.ch>>

NewScreen == [cells |-> <<>>, row |-> 0, col |-> 0, saved |-> <<0, 0>>]

Cell(s, r, c) == IF <<r, c>> \in DOMAIN s.cells THEN s.cells[<<r, c>>] ELSE " "
WithCell(s, r, c, ch) ==
    [s EXCEPT !.cells = [x \in DOMAIN s.cells \union {<<r, c>>} |->
                            IF x = <<r, c>> THEN ch ELSE s.cells[x]]]
EraseCells(s, Gone(_, _)) ==
    [s EXCEPT !.cells = [x \in {y \in DOMAIN s.cells : ~Gone(y[1], y[2])} |-> s.cells[x]]]
CursorAt(s, r, c) == [s EXCEPT !.row = Most(r, 0), !.col = Most(c, 0)]

\* What a terminal makes of a sequence, as far as the buffer follows it.
ShowEscape(s, final, params) ==
    LET steps == IF params = <<>> THEN 1 ELSE params[1]
        how == IF params = <<>> THEN 0 ELSE params[1]
        Behind(r, c) == r = s.row /\ c >= s.col
        Below(r, c) == Behind(r, c) \/ r > s.row
        InLine(r, c) == r = s.row
        All(r, c) == TRUE
    IN  CASE final = "D" -> CursorAt(s, s.row, s.col - steps)
          [] final = "C" -> CursorAt(s, s.row, s.col + steps)
          [] final = "A" -> CursorAt(s, s.row - steps, s.col)
          [] final = "B" -> CursorAt(s, s.row + steps, s.col)
          [] final = "s" -> [s EXCEPT !.saved = <<s.row, s.col>>]
          [] final = "u" -> CursorAt(s, s.saved[1], s.saved[2])
          [] final = "K" /\ how = 0 -> EraseCells(s, Behind)
          [] final = "K" /\ how = 2 -> EraseCells(s, InLine)
          [] final = "J" /\ how = 0 -> EraseCells(s, Below)
          [] final = "J" /\ how = 2 -> EraseCells(s, All)
          [] final = "H" -> CursorAt(s, IF params = <<>> THEN 0 ELSE params[1] - 1,
                                   IF Len(params) < 2 THEN 0 ELSE params[2] - 1)
          [] OTHER -> s

Show(s, token) ==
    CASE token.kind = "char" -> CursorAt(WithCell(s, s.row, s.col, token.ch), s.row, s.col + 1)
      [] token.kind = "rubout" ->
           LET c == Most(s.col - 1, 0) IN CursorAt(WithCell(s, s.row, c, " "), s.row, c)
      [] token.kind = "newline" -> CursorAt(s, s.row + 1, 0)
      [] token.kind = "control" /\ token.ch = "cr" -> CursorAt(s, s.row, 0)
      [] token.kind = "control" /\ token.ch = "bs" -> CursorAt(s, s.row, s.col - 1)
      [] token.kind = "csi" -> ShowEscape(s, token.ch, token.params)
      [] OTHER -> s

\* Where the buffer differs from a terminal: a backspace alone removes a character, tabs
\* are characters, other escapes are printed, vertical moves end at the end of a line, an
\* erasure up to the cursor closes the gap, an erased line or screen takes the cursor
\* back, and positions count from where the record began.
FollowsEscape(t, final, params) ==
    LET steps == IF params = <<>> THEN 1 ELSE params[1]
        how == IF params = <<>> THEN 0 ELSE params[1]
        Fits(row) == t.col <= Len(LineOf([t EXCEPT !.row = row]))
    IN  CASE final \in {"C", "D"} -> steps > 0
          [] final = "A" -> /\ steps > 0 /\ (aligned \/ steps <= t.row)
                             /\ Fits(Most(t.row - steps, 0))
          [] final = "B" -> steps > 0 /\ Fits(t.row + steps)
          [] final = "u" -> ~stale
          [] final = "K" -> how = 0 \/ (how = 2 /\ t.col = 0)
          [] final = "J" -> how = 0 \/ (how = 2 /\ t.row = 0 /\ t.col = 0)
          [] final = "H" -> aligned /\ (Len(params) = 1 => t.col = 0)
          [] OTHER -> TRUE

Follows(t, token) ==
    CASE token.kind = "rubout" -> t.col >= Len(LineOf(t))
      [] token.kind = "control" ->
           CASE token.ch = "bs" -> t.col = 0 \/ t.col > Len(LineOf(t))
             [] token.ch = "tab" -> FALSE
             [] OTHER -> TRUE
      [] token.kind = "csi" -> FollowsEscape(t, token.ch, token.params)
      [] token.kind = "charset" -> FALSE
      [] OTHER -> TRUE

-----------------------------------------------------------------------------
OutputInit ==
    /\ room \in Rooms
    /\ terminal = NewTerminal /\ screen = NewScreen
    /\ printing = <<>> /\ printed = 0
    /\ aligned \in BOOLEAN /\ stale = ~aligned
    /\ odd = FALSE /\ torn = FALSE

\* Nothing is printed after what the buffer did not follow.
PrintToken(token) ==
    /\ ~odd /\ ~torn /\ printed < room.tokens /\ Len(printing) < room.pending
    /\ printed' = printed + 1
    /\ printing' = Append(printing, Bytes(token))
    /\ screen' = Show(screen, token)
    /\ odd' = ~Follows(FoldLeft(ProcessData, terminal, printing), token)
    /\ stale' = (stale /\ ~(token.kind = "csi" /\ token.ch = "s"))
    /\ UNCHANGED <<room, terminal, aligned, torn, typingVars>>

\* A read takes n tokens and m bytes of the next one.
ReadChunk(n, m) ==
    /\ n + m > 0
    /\ m > 0 => n < Len(printing) /\ m < Len(printing[n + 1])
    /\ LET part == IF m = 0 THEN <<>> ELSE SubSeq(printing[n + 1], 1, m)
           rest == SubSeq(printing, n + 1, Len(printing))
       IN  /\ terminal' = ProcessData(terminal, FlattenSeq(SubSeq(printing, 1, n)) \o part)
           /\ printing' = IF m = 0 THEN rest
                          ELSE <<SubSeq(rest[1], m + 1, Len(rest[1]))>> \o Tail(rest)
    /\ torn' = (torn \/ m > 0)
    /\ UNCHANGED <<room, printed, screen, aligned, stale, odd, typingVars>>

\* On a signal: what is in the buffer is written away, and the record begins anew where
\* the cursor is.  The saved position stays.
ClearBuffer ==
    /\ printing = <<>> /\ ~odd /\ ~torn
    /\ terminal # NewTerminal
    /\ terminal' = [NewTerminal EXCEPT !.saved = terminal.saved]
    /\ screen' = [NewScreen EXCEPT !.saved = screen.saved]
    /\ aligned' = FALSE /\ stale' = TRUE
    /\ UNCHANGED <<room, printing, printed, odd, torn, typingVars>>

-----------------------------------------------------------------------------
(* The keyboard: a key is its number and what it is.  Alt+S is the two     *)
(* keys "esc" and "s".                                                   *)

KeyKinds == {"esc", "s", "x"}

TypingInit ==
    /\ typed = <<>> /\ unread = <<>> /\ held = <<>> /\ forwarded = <<>> /\ taken = {}
    /\ closed = FALSE

TypeKey(which) ==
    /\ ~closed /\ Len(typed) < room.keys
    /\ LET k == [n |-> Len(typed) + 1, is |-> which]
       IN  typed' = Append(typed, k) /\ unread' = Append(unread, k)
    /\ UNCHANGED <<held, forwarded, taken, closed, outputVars>>

AltSAt(chunk, k) ==
    k < Len(chunk) /\ chunk[k].is = "esc" /\ chunk[k + 1].is = "s"

\* The keys at the front that are Alt+S; how often that is, only the suggestion tells.
FrontKeys(chunk) ==
    2 * Cardinality({k \in 1..Len(chunk) : \A j \in 1..k : 2*j - 1 < Len(chunk)
                                                        /\ AltSAt(chunk, 2*j - 1)})

\* An escape at the end waits for the key after it; what then is forwarded are the keys
\* taken before it.
ReadKeys(n) ==
    LET chunk == held \o SubSeq(unread, 1, n)
        front == FrontKeys(chunk)
        waits == Len(chunk) = front + 1 /\ chunk[front + 1].is = "esc"
    IN  /\ unread' = SubSeq(unread, n + 1, Len(unread))
        /\ taken' = taken \union {chunk[k].n : k \in 1..front}
        /\ held' = IF waits THEN <<chunk[front + 1]>> ELSE <<>>
        /\ forwarded' = forwarded \o IF waits THEN SubSeq(chunk, 1, front)
                                     ELSE SubSeq(chunk, front + 1, Len(chunk))
        /\ UNCHANGED <<typed, closed, outputVars>>

CloseKeyboard ==
    /\ ~closed /\ unread = <<>> /\ room.keys > 0
    /\ closed' = TRUE
    /\ UNCHANGED <<typed, unread, held, forwarded, taken, outputVars>>

-----------------------------------------------------------------------------
TerminalInit == OutputInit /\ TypingInit

TerminalNext ==
    \/ \E token \in Tokens : PrintToken(token)
    \/ \E n \in 0..Len(printing) : \E m \in 0..4 : ReadChunk(n, m)
    \/ ClearBuffer
    \/ \E which \in KeyKinds : TypeKey(which)
    \/ \E n \in 1..Len(unread) : ReadKeys(n)
    \/ CloseKeyboard

TerminalSpec == TerminalInit /\ [][TerminalNext]_terminalVars

-----------------------------------------------------------------------------
(* Properties                                                              *)

CellIn(t, r, c) ==
    IF r < Len(t.lines) /\ c < Len(t.lines[r + 1]) THEN t.lines[r + 1][c + 1] ELSE " "

\* What is recorded is what the user saw, with the cursor where it is, however the output
\* is cut into reads between its characters and sequences: a program may type, rub out,
\* draw its line anew, colour it, set titles and modes, move, save and restore the cursor
\* and erase what is behind it (process_data, process_ansi_escape, insert_char).
RecordedAsShown ==
    (printing = <<>> /\ ~odd /\ ~torn) =>
        /\ terminal.row = screen.row /\ terminal.col = screen.col
        /\ \A r \in 0..Most(Len(terminal.lines), 2 * room.tokens) :
             \A c \in 0..2 * room.tokens : CellIn(terminal, r, c) = Cell(screen, r, c)

\* Every key reaches the shell once and in order, but for those taken as Alt+S, in
\* whatever pieces the keyboard is read; one that is taken reaches it as well only when an
\* escape was read with it (run_shell).
KeysArrive ==
    LET arrives == forwarded \o held \o unread
        Ns == {arrives[k].n : k \in DOMAIN arrives}
    IN  /\ \A j, k \in DOMAIN arrives : j < k => arrives[j].n < arrives[k].n
        /\ Ns \union taken = 1..Len(typed)
        /\ \A n \in taken : \E k \in {n - 1, n} : k > 0 /\ AltSAt(typed, k)
        /\ \A n \in taken \intersect Ns : \E k \in (n + 1)..Len(typed) : typed[k].is = "esc"

\* Both ways through run_shell.
PassesThrough == RecordedAsShown /\ KeysArrive

=============================================================================
