-------------------------- MODULE FbConsoleProofs --------------------------
(***************************************************************************)
(* Proofs about FbConsole, for any framebuffer the console accepts, any    *)
(* character set, and any limits of the DMA channel.                       *)
(*                                                                         *)
(* While the console scrolls, the screen lags behind the log, row by row;  *)
(* the invariant says by how much at each point of scroll, and for which   *)
(* rows a transfer that was given up leaves that open.  It rests on what   *)
(* the channel can be doing: only a transfer of the console's own, and     *)
(* behind its back only after it will never start another.                 *)
(***************************************************************************)
EXTENDS FbConsole, SequenceTheorems, TLAPS

(* The provers may take their time on a slow machine. *)
USE SMTT(30), ZenonT(30)

Cells == Printable \cup {Blank}
Modes == {"Normal", "Escape", "Csi", "Osc"}
Lines(cols) == [0 .. cols - 1 -> Cells]
Logs(cols) == [lines : Seq(Lines(cols)) \ {<<>>}, col : 0 .. cols - 1, mode : Modes]

Pcs == {"bytes", "scroll", "wait", "copy", "clear"}

(* Where a row of the screen comes from while the console scrolls: before
   its line of the log moves up, and after. *)
LineBefore(r) == log.lines[Len(log.lines) - Rows + r]
LineAfter(r)  == log.lines[Len(log.lines) - Rows + r + 1]

(* The framebuffer is one the console was made for. *)
GeoInv == geo \in Geometries /\ Usable(geo) /\ ColsOf(geo) > 0 /\ RowsOf(geo) > 0

Channels == [active : BOOLEAN, copied : 0 .. Rows - 1, ended : BOOLEAN, err : BOOLEAN]

(* An active channel carries out the console's only kind of transfer, has
   raised nothing yet, and is waited for or given up for good; what the
   console waits for nobody else reports, and an END means that all rows are
   copied. *)
ChannelInv ==
  /\ chan \in Channels
  /\ irq_complete \in BOOLEAN /\ irq_error \in BOOLEAN
  /\ dma_failed \in BOOLEAN /\ locked \in BOOLEAN
  /\ pc \in Pcs
  /\ pc # "bytes" => locked
  /\ chan.active => block = ScrollTransfer /\ ~chan.ended /\ ~chan.err
  /\ chan.active => pc = "wait" \/ dma_failed
  /\ pc = "wait" => ~dma_failed /\ ~irq_complete /\ ~irq_error
  /\ pc = "wait" /\ chan.ended => chan.copied = Rows - 1

(* What the screen shows between bytes, before a scroll has moved anything,
   while the engine moves rows, and before the last row is cleared. *)
BytesShown ==
  pc = "bytes" =>
      /\ col = log.col
      /\ row = CursorRow(log, Rows)
      /\ \A r \in (0 .. Rows - 1) \ torn : fb[r] = ShownLine(log, Rows, Cols, r)
LineAdded ==
  pc # "bytes" =>
      /\ col = 0 /\ log.col = 0
      /\ Len(log.lines) > Rows
      /\ log.lines[Len(log.lines)] = BlankLine(Cols)
UnmovedShown ==
  pc \in {"scroll", "copy"} =>
      \A r \in (0 .. Rows - 1) \ torn : fb[r] = LineBefore(r)
MovingShown ==
  pc = "wait" =>
      \A r \in 0 .. Rows - 1 :
          IF r < chan.copied THEN r + 1 \in torn \/ fb[r] = LineAfter(r)
                             ELSE r \in torn \/ fb[r] = LineBefore(r)
MovedShown ==
  pc = "clear" =>
      \A r \in (0 .. Rows - 2) \ torn : fb[r] = LineAfter(r)

ScreenInv ==
  /\ fb \in [0 .. Rows - 1 -> Lines(Cols)]
  /\ torn \subseteq 0 .. Rows - 1
  /\ log \in Logs(Cols)
  /\ ansi_state = log.mode
  /\ BytesShown /\ LineAdded /\ UnmovedShown /\ MovingShown /\ MovedShown

IInv == GeoInv /\ ChannelInv /\ ScreenInv

-----------------------------------------------------------------------------
(* The log. *)

(* The last line of a log with one cell changed. *)
Put(lines, c, cell) ==
  [lines EXCEPT ![Len(lines)] = [lines[Len(lines)] EXCEPT ![c] = cell]]

LEMMA BlankIsALine ==
  ASSUME NEW cols \in Nat \ {0} PROVE BlankLine(cols) \in Lines(cols)
BY DEF BlankLine, Lines, Cells

(* Changing a cell keeps the number of lines. *)
LEMMA PutLines ==
  ASSUME NEW cols \in Nat \ {0}, NEW lines \in Seq(Lines(cols)), lines # <<>>,
         NEW c \in 0 .. cols - 1, NEW cell \in Cells
  PROVE  /\ Put(lines, c, cell) \in Seq(Lines(cols))
         /\ Len(Put(lines, c, cell)) = Len(lines)
         /\ Put(lines, c, cell) # <<>>
         /\ Len(lines) \in 1 .. Len(lines)
         /\ \A i \in 1 .. Len(lines) :
              Put(lines, c, cell)[i] =
                IF i = Len(lines) THEN [lines[i] EXCEPT ![c] = cell] ELSE lines[i]
<1>1. Len(lines) \in Nat /\ Len(lines) > 0
  BY LenProperties, EmptySeq
<1>2. lines \in [1 .. Len(lines) -> Lines(cols)]
  BY LenProperties
<1> DEFINE new == [lines[Len(lines)] EXCEPT ![c] = cell]
<1>3. new \in Lines(cols)
  BY <1>1, <1>2 DEF Lines
<1> HIDE DEF new
<1>4. Put(lines, c, cell) \in [1 .. Len(lines) -> Lines(cols)]
  BY <1>1, <1>2, <1>3 DEF Put, new
<1>5. Put(lines, c, cell) \in Seq(Lines(cols)) /\ Len(Put(lines, c, cell)) = Len(lines)
  BY <1>1, <1>4, IsASeq, LenProperties
<1>6. Put(lines, c, cell) # <<>>
  BY <1>1, <1>5, EmptySeq
<1>7. \A i \in 1 .. Len(lines) :
         Put(lines, c, cell)[i] =
           IF i = Len(lines) THEN [lines[i] EXCEPT ![c] = cell] ELSE lines[i]
  BY <1>1, <1>2 DEF Put
<1>8. QED BY <1>1, <1>5, <1>6, <1>7

(* So does the operation of the log that is built from it. *)
LEMMA SetCellLog ==
  ASSUME NEW cols \in Nat \ {0}, NEW l \in Logs(cols),
         NEW c \in 0 .. cols - 1, NEW cell \in Cells
  PROVE  LET new == SetCell(l, c, cell)
         IN  /\ new \in Logs(cols)
             /\ new.lines = Put(l.lines, c, cell)
             /\ new.col = l.col /\ new.mode = l.mode
<1>1. l.lines \in Seq(Lines(cols)) /\ l.lines # <<>>
  BY DEF Logs
<1>2. Put(l.lines, c, cell) \in Seq(Lines(cols)) \ {<<>>}
  BY <1>1, PutLines
<1>3. SetCell(l, c, cell) = [l EXCEPT !.lines = Put(l.lines, c, cell)]
  BY DEF SetCell, Put, Logs
<1>4. QED BY <1>2, <1>3 DEF Logs

(* A new line is blank and comes last, wherever the cursor was. *)
LEMMA NewLineRecord ==
  ASSUME NEW cols, NEW l, NEW ls, NEW k, NEW m,
         l = [lines |-> ls, col |-> k, mode |-> m]
  PROVE  NewLine(l, cols) = [lines |-> Append(ls, BlankLine(cols)), col |-> 0, mode |-> m]
<1> DEFINE more == Append(ls, BlankLine(cols))
<1>1. l.lines = ls
  OBVIOUS
<1>2. NewLine(l, cols) = [l EXCEPT !.lines = more, !.col = 0]
  BY <1>1 DEF NewLine
<1> HIDE DEF more
<1>3. QED BY <1>2 DEF more

LEMMA NewLineLog ==
  ASSUME NEW cols \in Nat \ {0}, NEW l \in Logs(cols)
  PROVE  LET new == NewLine(l, cols)
         IN  /\ new \in Logs(cols)
             /\ new.lines = Append(l.lines, BlankLine(cols))
             /\ new.col = 0 /\ new.mode = l.mode
<1> DEFINE more == Append(l.lines, BlankLine(cols))
<1>1. more \in Seq(Lines(cols)) \ {<<>>}
  BY BlankIsALine, AppendProperties DEF Logs
<1>2. l = [lines |-> l.lines, col |-> l.col, mode |-> l.mode]
  BY DEF Logs
<1>3. NewLine(l, cols) = [lines |-> more, col |-> 0, mode |-> l.mode]
  BY <1>2, NewLineRecord
<1> HIDE DEF more
<1>4. 0 \in 0 .. cols - 1 /\ l.mode \in Modes
  BY DEF Logs
<1>5. QED BY <1>1, <1>3, <1>4 DEF Logs, more

(* What a byte does to the text under the cursor, one case for each kind. *)
Typed(l, new, cols, byte) ==
  /\ byte \in Printable =>
       LET put == Put(l.lines, l.col, byte)
       IN  IF l.col + 1 = cols
           THEN new.lines = Append(put, BlankLine(cols)) /\ new.col = 0
           ELSE new.lines = put /\ new.col = l.col + 1
  /\ byte = NL => new.lines = Append(l.lines, BlankLine(cols)) /\ new.col = 0
  /\ byte = CR => new.lines = l.lines /\ new.col = 0
  /\ byte = BS => LET c == IF l.col > 0 THEN l.col - 1 ELSE 0
                 IN  new.lines = Put(l.lines, c, Blank) /\ new.col = c
  /\ byte \in {ESC, BEL} => new.lines = l.lines /\ new.col = l.col

LEMMA KindsApart ==
  /\ {ESC, BEL, BS, NL, CR} \cap Printable = {}
  /\ NL # CR /\ NL # BS /\ CR # BS
  /\ {ESC, BEL} \cap {BS, NL, CR} = {}
BY TextLogAssumption

LEMMA GlyphLog ==
  ASSUME NEW cols \in Nat \ {0}, NEW l \in Logs(cols), NEW byte \in Printable
  PROVE  LET new == Glyph(l, cols, byte)
         IN  new \in Logs(cols) /\ new.mode = l.mode /\ Typed(l, new, cols, byte)
<1> DEFINE set == SetCell(l, l.col, byte)
           put == [set EXCEPT !.col = @ + 1]
<1>1. /\ set \in Logs(cols)
      /\ set.lines = Put(l.lines, l.col, byte)
      /\ set.col = l.col /\ set.mode = l.mode
  BY SetCellLog DEF Logs, Cells
<1>2. Glyph(l, cols, byte) = IF put.col = cols THEN NewLine(put, cols) ELSE put
  BY DEF Glyph
<1> HIDE DEF set
<1>3. /\ put.col = l.col + 1 /\ put.mode = l.mode
      /\ put.lines = Put(l.lines, l.col, byte)
  BY <1>1 DEF Logs
<1> DEFINE ps == Put(l.lines, l.col, byte)
<1>7. set = [lines |-> ps, col |-> l.col, mode |-> l.mode]
  BY <1>1 DEF Logs
<1>8. put = [lines |-> ps, col |-> l.col + 1, mode |-> l.mode]
  BY <1>7
<1>4. CASE l.col + 1 = cols
  <2> DEFINE back == [lines |-> ps, col |-> 0, mode |-> l.mode]
  <2>1. back \in Logs(cols)
    BY <1>1 DEF Logs
  <2>2. back.lines = ps /\ back.mode = l.mode
    OBVIOUS
  <2>3. NewLine(put, cols) = NewLine(back, cols)
    <3> DEFINE first == l.col + 1
               mode == l.mode
    <3> HIDE DEF put, ps, first, mode
    <3>1. put = [lines |-> ps, col |-> first, mode |-> mode]
      BY <1>8 DEF first, mode
    <3>2. back = [lines |-> ps, col |-> 0, mode |-> mode]
      BY DEF mode
    <3>3. NewLine(put, cols) = [lines |-> Append(ps, BlankLine(cols)), col |-> 0, mode |-> mode]
      BY <3>1, NewLineRecord
    <3> HIDE DEF back
    <3>4. NewLine(back, cols) = [lines |-> Append(ps, BlankLine(cols)), col |-> 0, mode |-> mode]
      BY <3>2, NewLineRecord
    <3>5. QED BY <3>3, <3>4
  <2> HIDE DEF back
  <2>4. /\ NewLine(back, cols) \in Logs(cols)
        /\ NewLine(back, cols).lines = Append(back.lines, BlankLine(cols))
        /\ NewLine(back, cols).col = 0 /\ NewLine(back, cols).mode = back.mode
    BY <2>1, NewLineLog
  <2>5. Glyph(l, cols, byte) = NewLine(back, cols)
    BY <1>2, <1>3, <1>4, <2>3
  <2>6. /\ Glyph(l, cols, byte).lines = Append(ps, BlankLine(cols))
        /\ Glyph(l, cols, byte).col = 0
        /\ Glyph(l, cols, byte).mode = l.mode
    BY <1>3, <2>2, <2>4, <2>5
  <2>7. QED BY <1>4, <2>4, <2>5, <2>6, KindsApart DEF Typed
<1>5. CASE l.col + 1 # cols
  <2>1. Glyph(l, cols, byte) = put
    BY <1>2, <1>3, <1>5
  <2>2. put \in Logs(cols)
    <3>1. /\ ps \in Seq(Lines(cols)) \ {<<>>} /\ l.mode \in Modes
          /\ l.col \in 0 .. cols - 1
      BY <1>1 DEF Logs
    <3>2. l.col + 1 \in 0 .. cols - 1
      BY <1>5, <3>1
    <3> HIDE DEF put, ps
    <3>3. QED BY <1>8, <3>1, <3>2 DEF Logs
  <2> HIDE DEF put
  <2>3. QED BY <1>3, <1>5, <2>1, <2>2, KindsApart DEF Typed
<1>6. QED BY <1>4, <1>5

LEMMA EraseLog ==
  ASSUME NEW cols \in Nat \ {0}, NEW l \in Logs(cols)
  PROVE  LET new == Erase(l)
         IN  new \in Logs(cols) /\ new.mode = l.mode /\ Typed(l, new, cols, BS)
<1> DEFINE c == IF l.col > 0 THEN l.col - 1 ELSE 0
           set == SetCell(l, c, Blank)
           new == Erase(l)
<1>1. c \in 0 .. cols - 1 /\ c = IF l.col = 0 THEN 0 ELSE l.col - 1
  BY DEF Logs
<1> HIDE DEF c
<1>2. /\ set \in Logs(cols)
      /\ set.lines = Put(l.lines, c, Blank)
      /\ set.col = l.col /\ set.mode = l.mode
  BY <1>1, SetCellLog DEF Cells
<1>3. new = [set EXCEPT !.col = c]
  BY <1>1 DEF Erase
<1> HIDE DEF set, new
<1>4. new \in Logs(cols) /\ new.lines = set.lines /\ new.col = c /\ new.mode = set.mode
  BY <1>1, <1>2, <1>3 DEF Logs
<1>6. Typed(l, new, cols, BS)
  BY <1>2, <1>4, KindsApart DEF Typed, c
<1>7. QED BY <1>2, <1>4, <1>6 DEF new

(* A byte moves the escape parser; outside an escape sequence it is typed. *)
LEMMA WrittenLog ==
  ASSUME NEW cols \in Nat \ {0}, NEW l \in Logs(cols), NEW byte \in Bytes
  PROVE  LET new == Written(l, cols, byte)
         IN  /\ new \in Logs(cols)
             /\ new.mode = NextMode(l.mode, byte)
             /\ IF l.mode = "Normal" THEN Typed(l, new, cols, byte)
                ELSE new.lines = l.lines /\ new.col = l.col
<1> DEFINE text == CASE byte \in Printable -> Glyph(l, cols, byte)
                     [] byte = NL -> NewLine(l, cols)
                     [] byte = CR -> [l EXCEPT !.col = 0]
                     [] byte = BS -> Erase(l)
                     [] OTHER     -> l
           base == IF l.mode = "Normal" THEN text ELSE l
           new == Written(l, cols, byte)
<1>1. text \in Logs(cols) /\ Typed(l, text, cols, byte)
  <2>1. CASE byte \in Printable
    <3>1. text = Glyph(l, cols, byte)
      BY KindsApart, <2>1
    <3>2. QED BY <2>1, <3>1, GlyphLog
  <2>2. CASE byte = NL
    <3>1. text = NewLine(l, cols)
      BY KindsApart, <2>2
    <3> HIDE DEF text
    <3>2. QED BY KindsApart, <2>2, <3>1, NewLineLog DEF Typed
  <2>3. CASE byte = CR
    <3>1. text = [l EXCEPT !.col = 0]
      BY KindsApart, <2>3
    <3> HIDE DEF text
    <3>2. text \in Logs(cols) /\ text.lines = l.lines /\ text.col = 0
      BY <3>1 DEF Logs
    <3>3. QED BY KindsApart, <2>3, <3>2 DEF Typed
  <2>4. CASE byte = BS
    <3>1. text = Erase(l)
      BY KindsApart, <2>4
    <3>2. QED BY <2>4, <3>1, EraseLog
  <2>5. CASE byte \in {ESC, BEL}
    <3>1. text = l
      BY KindsApart, <2>5
    <3> HIDE DEF text
    <3>2. QED BY KindsApart, <2>5, <3>1 DEF Typed
  <2>6. QED BY <2>1, <2>2, <2>3, <2>4, <2>5 DEF Bytes
<1>2. new = [base EXCEPT !.mode = NextMode(l.mode, byte)]
  BY DEF Written
<1>3. NextMode(l.mode, byte) \in Modes
  BY DEF NextMode, Modes, Logs
<1>4. base \in Logs(cols)
  BY <1>1
<1> HIDE DEF text, new
<1>5. new \in Logs(cols) /\ new.mode = NextMode(l.mode, byte)
      /\ new.lines = base.lines /\ new.col = base.col
  <2> HIDE DEF base
  <2>1. QED BY <1>2, <1>3, <1>4 DEF Logs
<1>6. CASE l.mode = "Normal"
  <2>1. base = text
    BY <1>6
  <2> HIDE DEF base
  <2>2. Typed(l, new, cols, byte)
    BY <1>1, <1>5, <2>1 DEF Typed
  <2>3. QED BY <1>5, <1>6, <2>2 DEF new
<1>7. CASE l.mode # "Normal"
  <2>1. base = l
    BY <1>7
  <2> HIDE DEF base
  <2>2. QED BY <1>5, <1>7, <2>1 DEF new
<1>8. QED BY <1>6, <1>7

-----------------------------------------------------------------------------
(* The log on a screen, whatever the rows called bad hold. *)

Screens(rows, cols) == [0 .. rows - 1 -> Lines(cols)]

(* The screen shows the end of the lines. *)
Shows(screen, lines, rows, cols, bad) ==
  \A r \in (0 .. rows - 1) \ bad :
     LET first == IF Len(lines) > rows THEN Len(lines) - rows ELSE 0
     IN  screen[r] = IF first + r + 1 \in 1 .. Len(lines)
                     THEN lines[first + r + 1] ELSE BlankLine(cols)

LastRow(lines, rows) == (IF Len(lines) > rows THEN rows ELSE Len(lines)) - 1

(* It shows them one line late. *)
ShowsBefore(screen, lines, rows, bad) ==
  \A r \in (0 .. rows - 1) \ bad : screen[r] = lines[Len(lines) - rows + r]

(* The row of the cursor is on the screen. *)
LEMMA LastRowIsOnScreen ==
  ASSUME NEW rows \in Nat \ {0}, NEW cols \in Nat \ {0},
         NEW lines \in Seq(Lines(cols)), lines # <<>>
  PROVE  LastRow(lines, rows) \in 0 .. rows - 1 /\ Len(lines) \in Nat \ {0}
<1>1. Len(lines) \in Nat \ {0}
  BY LenProperties, EmptySeq
<1>2. QED BY <1>1 DEF LastRow

(* The same cell set on the screen and in the log. *)
LEMMA SetOnBoth ==
  ASSUME NEW rows \in Nat \ {0}, NEW cols \in Nat \ {0},
         NEW lines \in Seq(Lines(cols)), lines # <<>>,
         NEW screen \in Screens(rows, cols), NEW bad,
         Shows(screen, lines, rows, cols, bad),
         NEW c \in 0 .. cols - 1, NEW cell \in Cells
  PROVE  LET r0 == LastRow(lines, rows)
             new == [screen EXCEPT ![r0][c] = cell]
         IN  /\ new \in Screens(rows, cols)
             /\ Shows(new, Put(lines, c, cell), rows, cols, bad)
<1> DEFINE r0 == LastRow(lines, rows)
           n == Len(lines)
           first == IF n > rows THEN n - rows ELSE 0
           line == [screen[r0] EXCEPT ![c] = cell]
           new == [screen EXCEPT ![r0][c] = cell]
           put == Put(lines, c, cell)
<1>1. r0 \in 0 .. rows - 1 /\ n \in Nat \ {0} /\ first \in Nat
  BY LastRowIsOnScreen
<1>2. first + r0 + 1 = n
  BY <1>1 DEF LastRow
<1>3. /\ Len(put) = n
      /\ \A i \in 1 .. n :
           put[i] = IF i = n THEN [lines[i] EXCEPT ![c] = cell] ELSE lines[i]
  BY PutLines
<1>4. line \in Lines(cols)
  BY <1>1 DEF Screens, Lines
<1>5. new = [screen EXCEPT ![r0] = line]
  OBVIOUS
<1> HIDE DEF r0, n, line, new, put
<1>6. new \in Screens(rows, cols)
  BY <1>1, <1>4, <1>5 DEF Screens
<1>7. \A r \in 0 .. rows - 1 : new[r] = IF r = r0 THEN line ELSE screen[r]
  BY <1>1, <1>5 DEF Screens
<1>8. ASSUME NEW r \in (0 .. rows - 1) \ bad
      PROVE  new[r] = IF first + r + 1 \in 1 .. n
                      THEN put[first + r + 1] ELSE BlankLine(cols)
  <2>1. screen[r] = IF first + r + 1 \in 1 .. n
                    THEN lines[first + r + 1] ELSE BlankLine(cols)
    BY <1>8 DEF Shows, n
  <2>2. CASE r = r0
    <3>1. n \in 1 .. n /\ first + r + 1 = n
      BY <1>1, <1>2, <2>2
    <3>2. screen[r0] = lines[n]
      BY <2>1, <2>2, <3>1
    <3>3. put[n] = [lines[n] EXCEPT ![c] = cell]
      BY <1>3, <3>1
    <3>4. put[n] = line
      BY <3>2, <3>3 DEF line
    <3>5. new[r] = line
      BY <1>7, <2>2
    <3>6. QED BY <3>1, <3>4, <3>5
  <2>3. CASE r # r0
    <3>1. new[r] = screen[r]
      BY <1>7, <2>3
    <3>2. first + r + 1 # n
      BY <1>1, <1>2, <2>3
    <3>3. first + r + 1 \in 1 .. n => put[first + r + 1] = lines[first + r + 1]
      BY <1>1, <1>3, <3>2
    <3>4. QED BY <2>1, <3>1, <3>3
  <2>4. QED BY <2>2, <2>3
<1>9. Shows(new, put, rows, cols, bad)
  BY <1>3, <1>8 DEF Shows, n
<1>10. QED BY <1>6, <1>9 DEF new, r0, put

(* A new line where the screen has room for it, and where it has not. *)
LEMMA NewLineOnScreen ==
  ASSUME NEW rows \in Nat \ {0}, NEW cols \in Nat \ {0},
         NEW lines \in Seq(Lines(cols)), lines # <<>>,
         NEW screen \in Screens(rows, cols), NEW bad,
         Shows(screen, lines, rows, cols, bad)
  PROVE  LET more == Append(lines, BlankLine(cols))
             r1 == LastRow(lines, rows) + 1
         IN  /\ r1 < rows => /\ Shows(screen, more, rows, cols, bad)
                             /\ r1 = LastRow(more, rows)
             /\ r1 >= rows => /\ ShowsBefore(screen, more, rows, bad)
                              /\ Len(more) > rows
                              /\ more[Len(more)] = BlankLine(cols)
<1> DEFINE more == Append(lines, BlankLine(cols))
           n == Len(lines)
           r1 == LastRow(lines, rows) + 1
<1>1. n \in Nat \ {0}
  BY LastRowIsOnScreen
<1>2. Len(more) = n + 1 /\ more[n + 1] = BlankLine(cols)
      /\ \A i \in 1 .. n : more[i] = lines[i]
  BY BlankIsALine, AppendProperties
<1>3. r1 = IF n > rows THEN rows ELSE n
  BY <1>1 DEF LastRow
<1> HIDE DEF more, n, r1
<1>4. ASSUME r1 < rows
      PROVE  Shows(screen, more, rows, cols, bad) /\ r1 = LastRow(more, rows)
  <2>1. n < rows /\ r1 = n
    BY <1>1, <1>3, <1>4
  <2>2. ASSUME NEW r \in (0 .. rows - 1) \ bad
        PROVE  screen[r] = IF r + 1 \in 1 .. n + 1 THEN more[r + 1] ELSE BlankLine(cols)
    <3>1. screen[r] = IF r + 1 \in 1 .. n THEN lines[r + 1] ELSE BlankLine(cols)
      BY <2>1, <2>2 DEF Shows, n
    <3>2. QED BY <1>1, <1>2, <3>1
  <2>3. Shows(screen, more, rows, cols, bad)
    BY <1>1, <1>2, <2>1, <2>2 DEF Shows
  <2>4. r1 = LastRow(more, rows)
    BY <1>1, <1>2, <2>1 DEF LastRow
  <2>5. QED BY <2>3, <2>4
<1>5. ASSUME r1 >= rows
      PROVE  /\ ShowsBefore(screen, more, rows, bad)
             /\ Len(more) > rows
             /\ more[Len(more)] = BlankLine(cols)
  <2>1. n >= rows
    BY <1>1, <1>3, <1>5
  <2>2. ASSUME NEW r \in (0 .. rows - 1) \ bad
        PROVE  screen[r] = more[Len(more) - rows + r]
    <3>1. n - rows + r + 1 \in 1 .. n
      BY <1>1, <2>1
    <3>2. screen[r] = lines[n - rows + r + 1]
      <4>1. CASE n > rows
        BY <2>2, <3>1, <4>1 DEF Shows, n
      <4>2. CASE n = rows
        BY <2>2, <3>1, <4>2 DEF Shows, n
      <4>3. QED BY <1>1, <2>1, <4>1, <4>2
    <3>3. Len(more) - rows + r = n - rows + r + 1
      BY <1>1, <1>2
    <3>4. QED BY <1>2, <3>1, <3>2, <3>3
  <2>3. ShowsBefore(screen, more, rows, bad)
    BY <2>2 DEF ShowsBefore
  <2>4. QED BY <1>1, <1>2, <2>1, <2>3
<1>6. QED BY <1>4, <1>5 DEF more, r1

-----------------------------------------------------------------------------
(* The framebuffer and the transfer that scrolls it. *)

LEMMA Sizes ==
  ASSUME GeoInv
  PROVE  /\ geo \in [width : Nat, height : Nat, pitch : Nat, size : Nat, depth : Nat]
         /\ Rows \in Nat \ {0} /\ Cols \in Nat \ {0}
         /\ Rows * FONT_HEIGHT <= geo.height
<1>1. geo \in [width : Nat, height : Nat, pitch : Nat, size : Nat, depth : Nat]
  BY FbConsoleAssumption DEF GeoInv
<1>2. FONT_HEIGHT \in Nat \ {0} /\ FONT_WIDTH \in Nat \ {0}
  BY FbConsoleAssumption
<1>3. Rows \in Int /\ Cols \in Int
  BY <1>1, <1>2 DEF Rows, Cols, RowsOf, ColsOf
<1>4. Rows > 0 /\ Cols > 0
  BY DEF GeoInv, Rows, Cols
<1>5. Rows * FONT_HEIGHT <= geo.height
  BY <1>1, <1>2 DEF Rows, RowsOf
<1>6. QED BY <1>1, <1>3, <1>4, <1>5

LEMMA ProductsGrow ==
  ASSUME NEW a \in Nat, NEW b \in Nat, NEW p \in Nat, a <= b
  PROVE  a * p <= b * p
OBVIOUS

(* The last byte the scroll reads is in the framebuffer, and so is the last
   it writes. *)
LEMMA ScrollFits ==
  ASSUME GeoInv
  PROVE  LET t == ScrollTransfer
             last == (t.row_count - 1) * (t.row_len + t.src_stride) + t.row_len
         IN  t.src + last <= geo.size /\ t.dst + last <= geo.size
<1> DEFINE t == ScrollTransfer
           F == FONT_HEIGHT
           p == geo.pitch
           w == geo.width * 4
           last == (t.row_count - 1) * (t.row_len + t.src_stride) + t.row_len
<1>1. F \in Nat \ {0} /\ p \in Nat /\ w \in Nat /\ Rows \in Nat \ {0}
      /\ geo.height \in Nat /\ geo.size \in Nat
  BY Sizes, FbConsoleAssumption
<1>2. w <= p /\ geo.height * p <= geo.size
  BY DEF GeoInv, Usable
<1>3. t.src = F * p /\ t.dst = 0 /\ t.row_len = w /\ t.row_count = (Rows - 1) * F
      /\ t.src_stride = p - w
  BY DEF ScrollTransfer
<1>4. Rows * F <= geo.height
  BY Sizes
<1> HIDE DEF t, F, p, w
<1>5. last = ((Rows - 1) * F - 1) * p + w
  <2>1. t.row_len + t.src_stride = p
    BY <1>1, <1>3
  <2>2. QED BY <1>3, <2>1
<1>6. \A k \in Int : (k - 1) * p + w <= k * p
  BY <1>1, <1>2
<1>7. (Rows - 1) * F \in Nat /\ Rows * F \in Nat
  BY <1>1
<1>8. last <= (Rows - 1) * F * p /\ last \in Int
  BY <1>1, <1>5, <1>6, <1>7
<1>9. F * p + (Rows - 1) * F * p = Rows * F * p
  BY <1>1
<1>10. Rows * F * p <= geo.height * p
  BY <1>1, <1>4, <1>7, ProductsGrow
<1>11. F * p \in Nat /\ (Rows - 1) * F * p \in Nat /\ Rows * F * p \in Nat /\ geo.height * p \in Nat
  BY <1>1, <1>7
<1> HIDE DEF last
<1>12. F * p + last <= geo.size
  BY <1>1, <1>2, <1>8, <1>9, <1>10, <1>11
<1>13. t.src + last <= geo.size /\ t.dst + last <= geo.size
  BY <1>1, <1>3, <1>8, <1>11, <1>12
<1>14. QED BY <1>13 DEF last, t

LEMMA GeoNext == ASSUME GeoInv, [Next]_vars PROVE GeoInv' /\ geo' = geo
<1>1. geo' = geo
  BY DEF Next, Step, Call, Return, Byte, ScrollByCpu, ScrollByDma, ScrollDmaRefused,
         DmaWait, DmaOk, DmaGivenUp, CopyRegion, ClearBottomRow, Engine, CopyRow, Irq,
         vars, consoleVars
<1>2. QED BY <1>1 DEF GeoInv

-----------------------------------------------------------------------------
(* The channel. *)

LEMMA ChannelValues ==
  ASSUME GeoInv
  PROVE  /\ Quiet \in Channels
         /\ \A c \in Channels :
              /\ Cleared(c) \in Channels
              /\ Cleared(c).active = c.active /\ Cleared(c).copied = c.copied
              /\ ~Cleared(c).ended /\ ~Cleared(c).err
<1>1. Rows \in Nat \ {0}
  BY Sizes
<1>2. Quiet \in Channels
  BY <1>1 DEF Quiet, Channels
<1>3. ASSUME NEW c \in Channels
      PROVE  /\ Cleared(c) \in Channels
             /\ Cleared(c).active = c.active /\ Cleared(c).copied = c.copied
             /\ ~Cleared(c).ended /\ ~Cleared(c).err
  BY DEF Channels, Cleared
<1>4. QED BY <1>2, <1>3

LEMMA ChannelInit == GeoInv /\ Init => ChannelInv
<1> SUFFICES ASSUME GeoInv, Init PROVE ChannelInv
  OBVIOUS
<1>1. Quiet \in Channels /\ ~Quiet.active
  BY ChannelValues DEF Quiet
<1>2. QED BY <1>1 DEF Init, DmaInit, ChannelInv, Pcs

LEMMA ChannelNext ==
  ASSUME GeoInv, ChannelInv, [Next]_vars
  PROVE  ChannelInv'
<1>1. Rows \in Nat \ {0} /\ geo' = geo /\ Rows' = Rows /\ ScrollTransfer' = ScrollTransfer
  BY Sizes, GeoNext DEF Rows, ScrollTransfer
<1>2. Channels' = Channels
  BY <1>1 DEF Channels
<1> USE DEF ChannelInv, Pcs
<1>3. CASE UNCHANGED vars
  BY <1>1, <1>2, <1>3 DEF vars, consoleVars, dmaVars
<1>4. CASE Call
  BY <1>1, <1>2, <1>4 DEF Call, dmaVars
<1>5. CASE Return
  BY <1>1, <1>2, <1>5 DEF Return, dmaVars
<1>6. ASSUME NEW b \in Bytes, Byte(b) PROVE ChannelInv'
  <2>1. pc' \in {"bytes", "scroll"}
    BY <1>6 DEF Byte, TextByte, DrawGlyph, Newline, Backspace, MoveTo
  <2>2. QED BY <1>1, <1>2, <1>6, <2>1 DEF Byte, dmaVars
<1>7. CASE ScrollByCpu
  BY <1>1, <1>2, <1>7 DEF ScrollByCpu, dmaVars
<1>8. CASE ScrollByDma
  <2>1. chan' = [active |-> TRUE, copied |-> 0, ended |-> FALSE, err |-> FALSE]
    BY <1>8 DEF ScrollByDma, StartTransfer, Quiet
  <2>2. chan' \in Channels
    BY <1>1, <2>1 DEF Channels
  <2>3. /\ block' = ScrollTransfer /\ ~irq_complete' /\ ~irq_error'
        /\ pc = "scroll" /\ pc' = "wait" /\ ~dma_failed
        /\ UNCHANGED <<dma_failed, locked>>
    BY <1>8 DEF ScrollByDma, StartTransfer
  <2>4. irq_complete' \in BOOLEAN /\ irq_error' \in BOOLEAN
    BY <1>8 DEF ScrollByDma, StartTransfer
  <2>5. ~chan'.ended /\ ~chan'.err
    BY <2>1
  <2>6. QED BY <1>1, <1>2, <2>2, <2>3, <2>4, <2>5
<1>9. CASE ScrollDmaRefused
  <2>1. UNCHANGED <<chan, irq_complete, irq_error>> /\ block' \in {block, ScrollTransfer}
    BY <1>9 DEF ScrollDmaRefused, StartFails, dmaVars
  <2>2. QED BY <1>1, <1>2, <1>9, <2>1 DEF ScrollDmaRefused
<1>10. CASE DmaWait
  BY <1>1, <1>2, <1>10 DEF DmaWait, WaitAgain, consoleVars
<1>11. CASE DmaOk
  <2>1. chan.ended /\ ~chan.active /\ chan' = Cleared(chan)
    BY <1>11 DEF DmaOk, WaitOk, Found
  <2>2. chan' \in Channels /\ ~chan'.active
    BY <2>1, ChannelValues
  <2>3. QED BY <1>1, <1>2, <1>11, <2>2 DEF DmaOk, WaitOk
<1>12. CASE DmaGivenUp
  <2>1. chan' \in {Quiet, chan} /\ block' = block
        /\ irq_complete' = irq_complete /\ irq_error' \in BOOLEAN
    BY <1>12 DEF DmaGivenUp, WaitFails, AbortChannel
  <2>2. chan' \in Channels /\ (chan'.active => chan' = chan)
    BY <2>1, ChannelValues DEF Quiet
  <2>3. QED BY <1>1, <1>2, <1>12, <2>1, <2>2 DEF DmaGivenUp
<1>13. CASE CopyRegion
  BY <1>1, <1>2, <1>13 DEF CopyRegion, dmaVars
<1>14. CASE ClearBottomRow
  BY <1>1, <1>2, <1>14 DEF ClearBottomRow, dmaVars
<1>15. CASE CopyRow
  <2>1. /\ chan.active /\ chan.copied < Rows - 1
        /\ chan' = [chan EXCEPT !.copied = chan.copied + 1]
    BY <1>15 DEF CopyRow, DmaCopyRow
  <2>2. chan' \in Channels /\ chan'.active /\ ~chan'.ended /\ ~chan'.err
    BY <1>1, <2>1 DEF Channels
  <2>3. QED BY <1>1, <1>2, <1>15, <2>1, <2>2 DEF CopyRow, DmaCopyRow
<1>16. CASE DmaEnd(Rows - 1) /\ UNCHANGED <<consoleVars, log, torn, written>>
  <2>1. /\ chan.copied = Rows - 1
        /\ chan' = [chan EXCEPT !.active = FALSE, !.ended = TRUE]
    BY <1>16 DEF DmaEnd
  <2>2. chan' \in Channels /\ ~chan'.active /\ chan'.copied = Rows - 1
    BY <1>1, <2>1 DEF Channels
  <2>3. QED BY <1>1, <1>2, <1>16, <2>2 DEF DmaEnd, consoleVars
<1>17. CASE DmaFault /\ UNCHANGED <<consoleVars, log, torn, written>>
  <2>1. chan.active /\ chan' = [chan EXCEPT !.active = FALSE, !.err = TRUE]
    BY <1>17 DEF DmaFault
  <2>2. chan' \in Channels /\ ~chan'.active /\ ~chan'.ended
    BY <2>1 DEF Channels
  <2>3. QED BY <1>1, <1>2, <1>17, <2>2 DEF DmaFault, consoleVars
<1>18. CASE Irq
  <2>1. chan' = Cleared(chan) /\ pc = "bytes" /\ ~chan.active
    BY <1>18 DEF Irq, DmaIrq
  <2>2. chan' \in Channels /\ ~chan'.active
    BY <2>1, ChannelValues
  <2>3. irq_complete' \in BOOLEAN /\ irq_error' \in BOOLEAN
    BY <1>18 DEF Irq, DmaIrq, Channels
  <2>4. QED BY <1>1, <1>2, <1>18, <2>1, <2>2, <2>3 DEF Irq, DmaIrq, consoleVars
<1>19. QED
  BY <1>3, <1>4, <1>5, <1>6, <1>7, <1>8, <1>9, <1>10, <1>11, <1>12, <1>13, <1>14,
     <1>15, <1>16, <1>17, <1>18 DEF Next, Step, Engine

-----------------------------------------------------------------------------
(* The screen. *)

ShowsLog(screen, l, rows, cols, bad) ==
  \A r \in (0 .. rows - 1) \ bad : screen[r] = ShownLine(l, rows, cols, r)

(* The screen's operators on a log and the ones above on its lines agree. *)
LEMMA ShownIsShows ==
  ASSUME NEW rows, NEW cols, NEW l \in Logs(cols), NEW screen, NEW bad
  PROVE  /\ ShowsLog(screen, l, rows, cols, bad) <=> Shows(screen, l.lines, rows, cols, bad)
         /\ CursorRow(l, rows) = LastRow(l.lines, rows)
<1>1. DOMAIN l.lines = 1 .. Len(l.lines)
  BY LenProperties DEF Logs
<1>2. QED BY <1>1 DEF ShowsLog, ShownLine, Shows, CursorRow, LastRow

(* The console's escape parser is the log's. *)
LEMMA ParsersAgree ==
  ASSUME NEW m \in Modes, NEW b \in Bytes
  PROVE  AnsiNext(m, b) = NextMode(m, b)
<1>1. /\ ESC # BEL /\ ESC \notin Printable
      /\ {"[", "]"} \subseteq Printable /\ Final \subseteq Printable
  BY TextLogAssumption
<1>2. CASE m = "Normal"
  BY <1>2 DEF AnsiNext, NextMode
<1>3. CASE m = "Escape"
  BY <1>1, <1>3 DEF AnsiNext, NextMode
<1>4. CASE m = "Csi"
  BY <1>4 DEF AnsiNext, NextMode
<1>5. CASE m = "Osc"
  BY <1>1, <1>5 DEF AnsiNext, NextMode
<1>6. QED BY <1>2, <1>3, <1>4, <1>5 DEF Modes

LEMMA ScreenInit == GeoInv /\ Init => ScreenInv
<1> SUFFICES ASSUME GeoInv, Init PROVE ScreenInv
  OBVIOUS
<1>1. Rows \in Nat \ {0} /\ Cols \in Nat \ {0}
  BY Sizes
<1> DEFINE blank == BlankLine(Cols)
<1>2. blank \in Lines(Cols)
  BY <1>1, BlankIsALine
<1>3. log.lines = <<blank>> /\ log.col = 0 /\ log.mode = "Normal"
  BY DEF Init, EmptyLog
<1>4. log = [lines |-> <<blank>>, col |-> 0, mode |-> "Normal"]
  BY DEF Init, EmptyLog
<1>5. fb = [r \in 0 .. Rows - 1 |-> blank] /\ torn = {} /\ pc = "bytes"
      /\ col = 0 /\ row = 0 /\ ansi_state = "Normal"
  BY DEF Init
<1> HIDE DEF blank
<1>6. <<blank>> \in Seq(Lines(Cols)) /\ <<blank>> # <<>> /\ Len(<<blank>>) = 1
      /\ <<blank>>[1] = blank
  BY <1>2
<1>7. 0 \in 0 .. Cols - 1
  BY <1>1
<1>8. log \in Logs(Cols)
  BY <1>4, <1>6, <1>7 DEF Logs, Modes
<1>9. Shows(fb, log.lines, Rows, Cols, torn)
  BY <1>1, <1>3, <1>5, <1>6 DEF Shows, blank
<1>10. LastRow(log.lines, Rows) = 0
  BY <1>1, <1>3, <1>6 DEF LastRow
<1>11. BytesShown
  <2>1. ShowsLog(fb, log, Rows, Cols, torn)
    BY <1>8, <1>9, ShownIsShows
  <2>2. CursorRow(log, Rows) = LastRow(log.lines, Rows)
    BY <1>8, ShownIsShows
  <2>3. QED BY <1>3, <1>5, <1>10, <2>1, <2>2 DEF BytesShown, ShowsLog
<1>12. fb \in [0 .. Rows - 1 -> Lines(Cols)]
  BY <1>2, <1>5
<1>13. QED
  BY <1>3, <1>5, <1>8, <1>11, <1>12
     DEF ScreenInv, LineAdded, UnmovedShown, MovingShown, MovedShown

(* A byte leaves the screen as the log wants it, or has to scroll. *)
LEMMA ByteOnScreen ==
  ASSUME IInv, NEW b \in Bytes, Byte(b)
  PROVE  ScreenInv'
<1>1. Rows \in Nat \ {0} /\ Cols \in Nat \ {0} /\ geo' = geo
      /\ Rows' = Rows /\ Cols' = Cols /\ torn' = torn /\ torn \subseteq 0 .. Rows - 1
      /\ pc = "bytes" /\ ansi_state = log.mode
  BY Sizes DEF Byte, Rows, Cols, IInv, ScreenInv
<1>2. log \in Logs(Cols) /\ fb \in Screens(Rows, Cols)
  BY DEF IInv, ScreenInv, Screens
<1>3. log.lines \in Seq(Lines(Cols)) /\ log.lines # <<>> /\ log.col \in 0 .. Cols - 1
      /\ log.mode \in Modes
  BY <1>2 DEF Logs
<1>4. /\ col = log.col /\ row = LastRow(log.lines, Rows)
      /\ Shows(fb, log.lines, Rows, Cols, torn)
  <2>1. /\ col = log.col /\ row = CursorRow(log, Rows)
        /\ ShowsLog(fb, log, Rows, Cols, torn)
    BY <1>1 DEF IInv, ScreenInv, BytesShown, ShowsLog
  <2>2. QED BY <1>2, <2>1, ShownIsShows
<1>4a. LastRow(log.lines, Rows) \in 0 .. Rows - 1
  BY <1>1, <1>3, LastRowIsOnScreen
<1>5. /\ log' \in Logs(Cols)
      /\ log'.mode = NextMode(log.mode, b)
      /\ IF log.mode = "Normal" THEN Typed(log, log', Cols, b)
         ELSE log'.lines = log.lines /\ log'.col = log.col
  <2>1. log' = Written(log, Cols, b)
    BY DEF Byte
  <2>2. QED BY <1>1, <1>2, <2>1, WrittenLog
<1>6. ansi_state' = log'.mode
  BY <1>1, <1>3, <1>5, ParsersAgree DEF Byte
<1> DEFINE Settled == /\ pc' = "bytes" /\ col' = log'.col
                      /\ row' = LastRow(log'.lines, Rows)
                      /\ Shows(fb', log'.lines, Rows, Cols, torn)
           Full == /\ pc' = "scroll" /\ col' = 0 /\ log'.col = 0
                   /\ Len(log'.lines) > Rows
                   /\ log'.lines[Len(log'.lines)] = BlankLine(Cols)
                   /\ ShowsBefore(fb', log'.lines, Rows, torn)
<1>7. fb' \in Screens(Rows, Cols) /\ (Settled \/ Full)
  <2>1. CASE log.mode # "Normal"
    <3>1. UNCHANGED <<fb, col, row, pc>>
      BY <1>1, <2>1 DEF Byte, MoveTo
    <3>2. log'.lines = log.lines /\ log'.col = log.col
      BY <1>5, <2>1
    <3>3. QED BY <1>1, <1>2, <1>4, <3>1, <3>2
  <2>2. CASE log.mode = "Normal" /\ b \in Printable
    <3> DEFINE put == Put(log.lines, log.col, b)
    <3>1. DrawGlyph(b)
      BY <1>1, <2>2, KindsApart DEF Byte, TextByte
    <3>2. Typed(log, log', Cols, b)
      BY <1>5, <2>2
    <3>3. b \in Cells
      BY <2>2 DEF Cells
    <3>4. /\ fb' \in Screens(Rows, Cols)
          /\ Shows(fb', put, Rows, Cols, torn)
      <4>1. fb' = [fb EXCEPT ![LastRow(log.lines, Rows)][log.col] = b]
        BY <1>4, <3>1 DEF DrawGlyph
      <4>2. QED BY <1>1, <1>2, <1>3, <1>4, <3>3, <4>1, SetOnBoth
    <3>5. put \in Seq(Lines(Cols)) /\ put # <<>> /\ LastRow(put, Rows) = row
      BY <1>1, <1>3, <1>4, <3>3, PutLines DEF LastRow
    <3> HIDE DEF put
    <3>6. CASE log.col + 1 = Cols
      <4>1. log'.lines = Append(put, BlankLine(Cols)) /\ log'.col = 0
        BY <2>2, <3>2, <3>6 DEF Typed, put
      <4>2. Newline
        BY <1>1, <1>3, <1>4, <3>1, <3>6 DEF DrawGlyph
      <4>3. /\ row + 1 < Rows => /\ Shows(fb', log'.lines, Rows, Cols, torn)
                                 /\ row + 1 = LastRow(log'.lines, Rows)
            /\ row + 1 >= Rows => /\ ShowsBefore(fb', log'.lines, Rows, torn)
                                  /\ Len(log'.lines) > Rows
                                  /\ log'.lines[Len(log'.lines)] = BlankLine(Cols)
        <5>1. LET more == Append(put, BlankLine(Cols))
                  r1 == LastRow(put, Rows) + 1
              IN  /\ r1 < Rows => /\ Shows(fb', more, Rows, Cols, torn)
                                  /\ r1 = LastRow(more, Rows)
                  /\ r1 >= Rows => /\ ShowsBefore(fb', more, Rows, torn)
                                   /\ Len(more) > Rows
                                   /\ more[Len(more)] = BlankLine(Cols)
          BY <1>1, <3>4, <3>5, NewLineOnScreen
        <5>2. QED BY <3>5, <4>1, <5>1
      <4>4. row \in 0 .. Rows - 1
        BY <1>4, <1>4a
      <4>5. CASE row + 1 < Rows
        BY <1>1, <3>4, <4>1, <4>2, <4>3, <4>4, <4>5 DEF Newline
      <4>6. CASE row + 1 >= Rows
        BY <1>1, <3>4, <4>1, <4>2, <4>3, <4>4, <4>6 DEF Newline
      <4>7. QED BY <1>1, <4>4, <4>5, <4>6
    <3>7. CASE log.col + 1 # Cols
      <4>1. log'.lines = put /\ log'.col = log.col + 1
        BY <2>2, <3>2, <3>7 DEF Typed, put
      <4>2. MoveTo(col + 1)
        BY <1>1, <1>3, <1>4, <3>1, <3>7 DEF DrawGlyph
      <4>3. QED BY <1>1, <1>4, <3>4, <3>5, <4>1, <4>2 DEF MoveTo
    <3>8. QED BY <3>6, <3>7
  <2>3. CASE log.mode = "Normal" /\ b = NL
    <3>1. Newline /\ fb' = fb
      BY <1>1, <2>3, KindsApart DEF Byte, TextByte
    <3>2. log'.lines = Append(log.lines, BlankLine(Cols)) /\ log'.col = 0
      BY <1>5, <2>3 DEF Typed
    <3>3. /\ row + 1 < Rows => /\ Shows(fb', log'.lines, Rows, Cols, torn)
                               /\ row + 1 = LastRow(log'.lines, Rows)
          /\ row + 1 >= Rows => /\ ShowsBefore(fb', log'.lines, Rows, torn)
                                /\ Len(log'.lines) > Rows
                                /\ log'.lines[Len(log'.lines)] = BlankLine(Cols)
      <4>1. LET more == Append(log.lines, BlankLine(Cols))
                r1 == LastRow(log.lines, Rows) + 1
            IN  /\ r1 < Rows => /\ Shows(fb, more, Rows, Cols, torn)
                                /\ r1 = LastRow(more, Rows)
                /\ r1 >= Rows => /\ ShowsBefore(fb, more, Rows, torn)
                                 /\ Len(more) > Rows
                                 /\ more[Len(more)] = BlankLine(Cols)
        BY <1>1, <1>2, <1>3, <1>4, NewLineOnScreen
      <4>2. QED BY <1>4, <3>1, <3>2, <4>1
    <3>4. row \in 0 .. Rows - 1
      BY <1>4, <1>4a
    <3>5. CASE row + 1 < Rows
      BY <1>1, <1>2, <3>1, <3>2, <3>3, <3>4, <3>5 DEF Newline
    <3>6. CASE row + 1 >= Rows
      BY <1>1, <1>2, <3>1, <3>2, <3>3, <3>4, <3>6 DEF Newline
    <3>7. QED BY <1>1, <3>4, <3>5, <3>6
  <2>4. CASE log.mode = "Normal" /\ b = CR
    <3>1. MoveTo(0) /\ fb' = fb
      BY <1>1, <2>4, KindsApart DEF Byte, TextByte
    <3>2. log'.lines = log.lines /\ log'.col = 0
      BY <1>5, <2>4 DEF Typed
    <3>3. QED BY <1>1, <1>2, <1>4, <3>1, <3>2 DEF MoveTo
  <2>5. CASE log.mode = "Normal" /\ b = BS
    <3> DEFINE c == IF log.col > 0 THEN log.col - 1 ELSE 0
               put == Put(log.lines, c, Blank)
    <3>1. Backspace
      BY <1>1, <2>5, KindsApart DEF Byte, TextByte
    <3>2. log'.lines = put /\ log'.col = c
      BY <1>5, <2>5 DEF Typed
    <3>3. MoveTo(c) /\ fb' = [fb EXCEPT ![LastRow(log.lines, Rows)][c] = Blank]
      BY <1>4, <3>1 DEF Backspace
    <3>4. c \in 0 .. Cols - 1 /\ Blank \in Cells
      BY <1>1, <1>3 DEF Cells
    <3> HIDE DEF c
    <3>5. /\ fb' \in Screens(Rows, Cols)
          /\ Shows(fb', put, Rows, Cols, torn)
      BY <1>1, <1>2, <1>3, <1>4, <3>3, <3>4, SetOnBoth
    <3>6. LastRow(put, Rows) = row
      <4>1. Len(put) = Len(log.lines)
        <5>1. /\ Cols \in Nat \ {0} /\ log.lines \in Seq(Lines(Cols)) /\ log.lines # <<>>
              /\ c \in 0 .. Cols - 1 /\ Blank \in Cells
          BY <1>1, <1>3, <3>4
        <5>2. Len(Put(log.lines, c, Blank)) = Len(log.lines)
          BY <5>1, PutLines
        <5>3. QED BY <5>2
      <4>2. QED BY <1>4, <4>1 DEF LastRow
    <3> HIDE DEF put
    <3>7. QED BY <1>1, <3>2, <3>3, <3>5, <3>6 DEF MoveTo
  <2>6. CASE log.mode = "Normal" /\ b \in {ESC, BEL}
    <3>1. MoveTo(col) /\ fb' = fb
      BY <1>1, <2>6, KindsApart DEF Byte, TextByte
    <3>2. log'.lines = log.lines /\ log'.col = log.col
      BY <1>5, <2>6 DEF Typed
    <3>3. QED BY <1>1, <1>2, <1>4, <3>1, <3>2 DEF MoveTo
  <2>7. QED BY <2>1, <2>2, <2>3, <2>4, <2>5, <2>6 DEF Bytes
<1>8. CASE Settled
  <2>1. BytesShown'
    <3>1. ShowsLog(fb', log', Rows, Cols, torn)
      BY <1>5, <1>8, ShownIsShows
    <3>2. CursorRow(log', Rows) = LastRow(log'.lines, Rows)
      BY <1>5, ShownIsShows
    <3>3. QED BY <1>1, <1>8, <3>1, <3>2 DEF BytesShown, ShowsLog
  <2>2. QED BY <1>1, <1>5, <1>6, <1>7, <1>8, <2>1
     DEF ScreenInv, LineAdded, UnmovedShown, MovingShown, MovedShown, Screens
<1>9. CASE Full
  <2>1. LineAdded'
    BY <1>1, <1>9 DEF LineAdded
  <2>2. UnmovedShown'
    BY <1>1, <1>9 DEF UnmovedShown, LineBefore, ShowsBefore
  <2>3. QED BY <1>1, <1>5, <1>6, <1>7, <1>9, <2>1, <2>2
     DEF ScreenInv, BytesShown, MovingShown, MovedShown, Screens
<1>10. QED BY <1>7, <1>8, <1>9

(* A step that neither moves the call nor touches the screen. *)
LEMMA ScreenSame ==
  ASSUME IInv,
         UNCHANGED <<geo, fb, col, row, ansi_state, pc, log, torn>>,
         pc = "wait" => chan'.copied = chan.copied
  PROVE  ScreenInv'
<1>1. Rows' = Rows /\ Cols' = Cols
  BY DEF Rows, Cols
<1>2. BytesShown' /\ LineAdded' /\ UnmovedShown' /\ MovedShown'
  BY <1>1 DEF IInv, ScreenInv, BytesShown, LineAdded, UnmovedShown, MovedShown,
              LineBefore, LineAfter
<1>3. MovingShown'
  BY <1>1 DEF IInv, ScreenInv, MovingShown, LineBefore, LineAfter
<1>4. QED BY <1>1, <1>2, <1>3 DEF IInv, ScreenInv

(* The rows that may be wrong after all others moved up. *)
LEMMA RaisedRows ==
  ASSUME GeoInv, torn \subseteq 0 .. Rows - 1
  PROVE  /\ Raised(torn) \subseteq 0 .. Rows - 1
         /\ \A r \in 0 .. Rows - 2 : r + 1 \in torn => r \in Raised(torn)
<1>1. Rows \in Nat \ {0}
  BY Sizes
<1>2. QED BY <1>1 DEF Raised

(* The steps of a scroll. *)
LEMMA ScrollOnScreen ==
  ASSUME IInv, ChannelInv',
         \/ ScrollByCpu \/ ScrollByDma \/ ScrollDmaRefused
         \/ DmaOk \/ DmaGivenUp \/ CopyRegion \/ ClearBottomRow
  PROVE  ScreenInv'
<1>1. geo' = geo /\ log' = log /\ ansi_state' = ansi_state /\ col' = col
  BY DEF ScrollByCpu, ScrollByDma, ScrollDmaRefused, DmaOk, DmaGivenUp, CopyRegion,
         ClearBottomRow
<1>2. Rows \in Nat \ {0} /\ Cols \in Nat \ {0} /\ Rows' = Rows /\ Cols' = Cols
  BY <1>1, Sizes DEF Rows, Cols, IInv
<1>3. /\ log \in Logs(Cols) /\ ansi_state = log.mode
      /\ torn \subseteq 0 .. Rows - 1
      /\ fb \in [0 .. Rows - 1 -> Lines(Cols)]
      /\ chan \in Channels
  BY DEF IInv, ScreenInv, ChannelInv
<1>4. Len(log.lines) \in Nat
  BY <1>3, LenProperties DEF Logs
<1> DEFINE n == Len(log.lines)
<1>5. pc # "bytes" => /\ col = 0 /\ log.col = 0 /\ n > Rows
                      /\ log.lines[n] = BlankLine(Cols)
  BY DEF IInv, ScreenInv, LineAdded
<1>6. CASE ScrollByCpu
  <2>1. pc = "scroll" /\ pc' = "copy" /\ UNCHANGED <<fb, torn>>
    BY <1>6 DEF ScrollByCpu
  <2>2. UnmovedShown'
    BY <1>1, <1>2, <2>1 DEF IInv, ScreenInv, UnmovedShown, LineBefore
  <2>3. QED BY <1>1, <1>2, <1>3, <1>5, <2>1, <2>2
     DEF ScreenInv, BytesShown, LineAdded, MovingShown, MovedShown
<1>7. CASE ScrollByDma
  <2>1. pc = "scroll" /\ pc' = "wait" /\ UNCHANGED <<fb, torn>> /\ chan'.copied = 0
    BY <1>7 DEF ScrollByDma, StartTransfer, Quiet
  <2>2. MovingShown'
    BY <1>1, <1>2, <2>1 DEF IInv, ScreenInv, UnmovedShown, MovingShown, LineBefore
  <2>3. QED BY <1>1, <1>2, <1>3, <1>5, <2>1, <2>2
     DEF ScreenInv, BytesShown, LineAdded, UnmovedShown, MovedShown
<1>8. CASE ScrollDmaRefused
  <2>1. pc = "scroll" /\ pc' = "copy" /\ UNCHANGED <<fb, torn>>
    BY <1>8 DEF ScrollDmaRefused
  <2>2. UnmovedShown'
    BY <1>1, <1>2, <2>1 DEF IInv, ScreenInv, UnmovedShown, LineBefore
  <2>3. QED BY <1>1, <1>2, <1>3, <1>5, <2>1, <2>2
     DEF ScreenInv, BytesShown, LineAdded, MovingShown, MovedShown
<1>9. CASE DmaOk
  <2>1. pc = "wait" /\ pc' = "clear" /\ fb' = fb /\ torn' = Raised(torn)
    BY <1>9 DEF DmaOk
  <2>2. chan.copied = Rows - 1
    BY <1>9 DEF DmaOk, WaitOk, Found, IInv, ChannelInv
  <2>3. \A r \in 0 .. Rows - 2 : r + 1 \in torn \/ fb[r] = LineAfter(r)
    BY <1>2, <2>1, <2>2 DEF IInv, ScreenInv, MovingShown
  <2>4. /\ torn' \subseteq 0 .. Rows - 1
        /\ \A r \in (0 .. Rows - 2) \ torn' : fb[r] = LineAfter(r)
    BY <1>2, <1>3, <2>1, <2>3, RaisedRows DEF IInv
  <2>5. MovedShown'
    BY <1>1, <1>2, <2>1, <2>4 DEF MovedShown, LineAfter
  <2>6. QED BY <1>1, <1>2, <1>3, <1>5, <2>1, <2>4, <2>5
     DEF ScreenInv, BytesShown, LineAdded, UnmovedShown, MovingShown
<1>10. CASE DmaGivenUp
  <2>1. /\ pc = "wait" /\ pc' = "copy" /\ fb' = fb
        /\ torn' = torn \cup 0 .. chan.copied - 1
    BY <1>10 DEF DmaGivenUp
  <2>2. chan.copied \in 0 .. Rows - 1
    BY <1>3 DEF Channels
  <2>3. torn' \subseteq 0 .. Rows - 1
    <3>1. (0 .. chan.copied - 1) \subseteq 0 .. Rows - 1
      BY <1>2, <2>2
    <3>2. QED BY <1>3, <2>1, <3>1
  <2>4. \A r \in (0 .. Rows - 1) \ torn' : fb[r] = LineBefore(r)
    BY <1>2, <2>1, <2>2 DEF IInv, ScreenInv, MovingShown
  <2>5. UnmovedShown'
    BY <1>1, <1>2, <2>1, <2>4 DEF UnmovedShown, LineBefore
  <2>6. QED BY <1>1, <1>2, <1>3, <1>5, <2>1, <2>3, <2>5
     DEF ScreenInv, BytesShown, LineAdded, MovingShown, MovedShown
<1>11. CASE CopyRegion
  <2>1. /\ pc = "copy" /\ pc' = "clear"
        /\ fb' = [r \in 0 .. Rows - 1 |-> IF r < Rows - 1 THEN fb[r + 1] ELSE fb[r]]
        /\ torn' = Raised(torn) \cup (torn \cap {Rows - 1})
    BY <1>11 DEF CopyRegion
  <2>2. fb' \in [0 .. Rows - 1 -> Lines(Cols)]
    BY <1>2, <1>3, <2>1
  <2>3. /\ torn' \subseteq 0 .. Rows - 1
        /\ \A r \in (0 .. Rows - 2) \ torn' : r + 1 \notin torn
    BY <1>2, <1>3, <2>1, RaisedRows DEF IInv
  <2>4. ASSUME NEW r \in (0 .. Rows - 2) \ torn' PROVE fb'[r] = LineAfter(r)
    <3>1. fb'[r] = fb[r + 1] /\ r + 1 \in (0 .. Rows - 1) \ torn
      BY <1>2, <2>1, <2>3, <2>4
    <3>2. fb[r + 1] = log.lines[n - Rows + (r + 1)]
      BY <2>1, <3>1 DEF IInv, ScreenInv, UnmovedShown, LineBefore
    <3>3. n - Rows + (r + 1) = n - Rows + r + 1
      <4>1. r \in Int /\ Rows \in Int /\ n \in Int
        BY <1>2, <1>4, <2>4
      <4> HIDE DEF n
      <4>2. QED BY <4>1
    <3>4. QED BY <3>1, <3>2, <3>3 DEF LineAfter
  <2>5. MovedShown'
    BY <1>1, <1>2, <2>1, <2>4 DEF MovedShown, LineAfter
  <2>6. QED BY <1>1, <1>2, <1>3, <1>5, <2>1, <2>2, <2>3, <2>5
     DEF ScreenInv, BytesShown, LineAdded, UnmovedShown, MovingShown
<1>12. CASE ClearBottomRow
  <2>1. /\ pc = "clear" /\ pc' = "bytes" /\ row' = Rows - 1
        /\ fb' = [fb EXCEPT ![Rows - 1] = BlankLine(Cols)]
        /\ torn' = torn \ {Rows - 1}
    BY <1>12 DEF ClearBottomRow
  <2>2. fb' \in [0 .. Rows - 1 -> Lines(Cols)] /\ torn' \subseteq 0 .. Rows - 1
    BY <1>2, <1>3, <2>1, BlankIsALine
  <2>3. \A r \in 0 .. Rows - 1 :
          fb'[r] = IF r = Rows - 1 THEN BlankLine(Cols) ELSE fb[r]
    BY <1>2, <1>3, <2>1
  <2>4. ASSUME NEW r \in (0 .. Rows - 1) \ torn' PROVE fb'[r] = log.lines[n - Rows + r + 1]
    <3>1. CASE r = Rows - 1
      <4>1. n - Rows + r + 1 = n
        BY <1>2, <1>4, <3>1
      <4>2. QED BY <1>5, <2>1, <2>3, <2>4, <3>1, <4>1
    <3>2. CASE r # Rows - 1
      <4>1. r \in (0 .. Rows - 2) \ torn
        BY <1>2, <2>1, <2>4, <3>2
      <4>2. fb[r] = LineAfter(r)
        BY <2>1, <4>1 DEF IInv, ScreenInv, MovedShown
      <4>3. QED BY <2>3, <2>4, <3>2, <4>2 DEF LineAfter
    <3>3. QED BY <3>1, <3>2
  <2>5. Shows(fb', log.lines, Rows, Cols, torn') /\ LastRow(log.lines, Rows) = Rows - 1
    <3>1. \A r \in 0 .. Rows - 1 : n - Rows + r + 1 \in 1 .. n
      BY <1>2, <1>4, <1>5, <2>1
    <3>2. QED BY <1>5, <2>1, <2>4, <3>1 DEF Shows, LastRow
  <2>6. BytesShown'
    <3>1. ShowsLog(fb', log, Rows, Cols, torn')
      BY <1>3, <2>5, ShownIsShows
    <3>2. CursorRow(log, Rows) = LastRow(log.lines, Rows)
      BY <1>3, ShownIsShows
    <3>3. QED BY <1>1, <1>2, <1>5, <2>1, <2>5, <3>1, <3>2 DEF BytesShown, ShowsLog
  <2>7. QED BY <1>1, <1>2, <1>3, <2>1, <2>2, <2>6
     DEF ScreenInv, LineAdded, UnmovedShown, MovingShown, MovedShown
<1>13. QED BY <1>6, <1>7, <1>8, <1>9, <1>10, <1>11, <1>12

(* The engine copies a row: as the console expects, or behind its back. *)
LEMMA EngineOnScreen ==
  ASSUME IInv, CopyRow
  PROVE  ScreenInv'
<1>1. geo' = geo /\ UNCHANGED <<log, ansi_state, col, row, pc>>
  BY DEF CopyRow
<1>2. Rows \in Nat \ {0} /\ Cols \in Nat \ {0} /\ Rows' = Rows /\ Cols' = Cols
  BY <1>1, Sizes DEF Rows, Cols, IInv
<1>3. /\ log \in Logs(Cols) /\ ansi_state = log.mode
      /\ torn \subseteq 0 .. Rows - 1
      /\ fb \in [0 .. Rows - 1 -> Lines(Cols)]
      /\ chan \in Channels
  BY DEF IInv, ScreenInv, ChannelInv
<1> DEFINE k == chan.copied
<1>4. k \in 0 .. Rows - 2 /\ chan.active
  BY <1>2, <1>3 DEF CopyRow, DmaCopyRow, Channels
<1>5. /\ fb' = [fb EXCEPT ![k] = fb[k + 1]]
      /\ torn' = IF pc = "wait" THEN torn ELSE torn \cup {k}
  BY DEF CopyRow
<1>6. chan'.copied = k + 1
  BY <1>3 DEF CopyRow, DmaCopyRow, Channels
<1> HIDE DEF k
<1>7. fb' \in [0 .. Rows - 1 -> Lines(Cols)] /\ torn' \subseteq 0 .. Rows - 1
  BY <1>2, <1>3, <1>4, <1>5
<1>8. \A r \in 0 .. Rows - 1 : fb'[r] = IF r = k THEN fb[k + 1] ELSE fb[r]
  BY <1>3, <1>4, <1>5
<1>9. LineAdded'
  BY <1>1, <1>2 DEF IInv, ScreenInv, LineAdded
<1>10. CASE pc = "wait"
  <2>1. torn' = torn
    BY <1>5, <1>10
  <2>2. \A r \in 0 .. Rows - 1 :
          IF r < k THEN r + 1 \in torn \/ fb[r] = LineAfter(r)
                   ELSE r \in torn \/ fb[r] = LineBefore(r)
    BY <1>10 DEF IInv, ScreenInv, MovingShown, k
  <2>3. LineBefore(k + 1) = LineAfter(k)
    <3>1. Len(log.lines) \in Nat
      BY <1>3, LenProperties DEF Logs
    <3>2. Len(log.lines) - Rows + (k + 1) = Len(log.lines) - Rows + k + 1
      <4>1. Len(log.lines) \in Int /\ Rows \in Int /\ k \in Int
        BY <1>2, <1>4, <3>1
      <4> DEFINE n == Len(log.lines)
      <4> HIDE DEF n
      <4>2. n \in Int /\ Rows \in Int /\ k \in Int
        BY <4>1 DEF n
      <4>3. n - Rows + (k + 1) = n - Rows + k + 1
        BY <4>2
      <4>4. QED BY <4>3 DEF n
    <3>3. QED BY <3>2 DEF LineBefore, LineAfter
  <2>4. ASSUME NEW r \in 0 .. Rows - 1
        PROVE  IF r < k + 1 THEN r + 1 \in torn \/ fb'[r] = LineAfter(r)
                            ELSE r \in torn \/ fb'[r] = LineBefore(r)
    <3>1. CASE r = k
      <4>1. k + 1 \in 0 .. Rows - 1 /\ ~(k + 1 < k) /\ k < k + 1
        BY <1>2, <1>4
      <4>2. k + 1 \in torn \/ fb[k + 1] = LineBefore(k + 1)
        BY <2>2, <4>1
      <4>3. QED BY <1>8, <2>3, <2>4, <3>1, <4>1, <4>2
    <3>2. CASE r # k
      <4>1. fb'[r] = fb[r]
        BY <1>8, <2>4, <3>2
      <4>2. r < k + 1 <=> r < k
        BY <1>4, <2>4, <3>2
      <4>3. QED BY <2>2, <2>4, <4>1, <4>2
    <3>3. QED BY <3>1, <3>2
  <2>5. MovingShown'
    BY <1>1, <1>2, <1>6, <2>1, <2>4 DEF MovingShown, LineBefore, LineAfter
  <2>6. QED BY <1>1, <1>2, <1>3, <1>7, <1>9, <1>10, <2>5
     DEF ScreenInv, BytesShown, UnmovedShown, MovedShown
<1>11. CASE pc # "wait"
  <2>1. torn' = torn \cup {k}
    BY <1>5, <1>11
  <2>2. \A r \in (0 .. Rows - 1) \ torn' : r \notin torn /\ fb'[r] = fb[r]
    BY <1>8, <2>1
  <2>3. BytesShown'
    BY <1>1, <1>2, <2>2 DEF IInv, ScreenInv, BytesShown
  <2>4. UnmovedShown'
    BY <1>1, <1>2, <2>2 DEF IInv, ScreenInv, UnmovedShown, LineBefore
  <2>5. MovedShown'
    <3>1. 0 .. Rows - 2 \subseteq 0 .. Rows - 1
      BY <1>2
    <3>2. QED BY <1>1, <1>2, <2>2, <3>1 DEF IInv, ScreenInv, MovedShown, LineAfter
  <2>6. QED BY <1>1, <1>2, <1>3, <1>7, <1>9, <1>11, <2>3, <2>4, <2>5
     DEF ScreenInv, MovingShown
<1>12. QED BY <1>10, <1>11

LEMMA ScreenNext ==
  ASSUME IInv, ChannelInv', [Next]_vars
  PROVE  ScreenInv'
<1>1. CASE UNCHANGED vars
  BY <1>1, ScreenSame DEF vars, consoleVars, dmaVars
<1>2. CASE Call
  BY <1>2, ScreenSame DEF Call, dmaVars
<1>3. CASE Return
  BY <1>3, ScreenSame DEF Return, dmaVars
<1>4. CASE \E b \in Bytes : Byte(b)
  BY <1>4, ByteOnScreen
<1>5. CASE ScrollByCpu \/ ScrollByDma \/ ScrollDmaRefused
           \/ DmaOk \/ DmaGivenUp \/ CopyRegion \/ ClearBottomRow
  BY <1>5, ScrollOnScreen
<1>6. CASE DmaWait
  BY <1>6, ScreenSame DEF DmaWait, WaitAgain, consoleVars
<1>7. CASE CopyRow
  BY <1>7, EngineOnScreen
<1>8. chan \in Channels
  BY DEF IInv, ChannelInv
<1>9. CASE (DmaEnd(Rows - 1) \/ DmaFault) /\ UNCHANGED <<consoleVars, log, torn, written>>
  <2>1. chan'.copied = chan.copied
    BY <1>8, <1>9 DEF DmaEnd, DmaFault, Channels
  <2>2. QED BY <1>9, <2>1, ScreenSame DEF consoleVars
<1>10. CASE Irq
  <2>1. chan'.copied = chan.copied
    BY <1>8, <1>10 DEF Irq, DmaIrq, Cleared, Channels
  <2>2. QED BY <1>10, <2>1, ScreenSame DEF Irq, consoleVars
<1>11. QED
  BY <1>1, <1>2, <1>3, <1>4, <1>5, <1>6, <1>7, <1>9, <1>10 DEF Next, Step, Engine

-----------------------------------------------------------------------------
(* What is proved of the console. *)

(* Where the screen stands against the log at every point of write and
   scroll, and what the DMA channel can be doing meanwhile, for any accepted
   framebuffer, engine and limits of the driver (FbConsole::write, scroll,
   copy_2d, wait_for_transfer, handle_irq). *)
THEOREM Invariance == Spec => []IInv
<1>1. Init => IInv
  <2>1. Init => GeoInv
    BY DEF Init, GeoInv
  <2>2. QED BY <2>1, ChannelInit, ScreenInit DEF IInv
<1>2. IInv /\ [Next]_vars => IInv'
  <2> SUFFICES ASSUME IInv, [Next]_vars PROVE IInv'
    OBVIOUS
  <2>1. GeoInv'
    BY GeoNext DEF IInv
  <2>2. ChannelInv'
    BY ChannelNext DEF IInv
  <2>3. ScreenInv'
    BY <2>2, ScreenNext
  <2>4. QED BY <2>1, <2>2, <2>3 DEF IInv
<1>3. QED BY <1>1, <1>2, PTL DEF Spec

(* Between two bytes the screen shows the end of the text and the cursor is
   where the text ends, on a screen of any size and after any text: only rows
   a transfer spoilt that the driver gave up on may differ
   (FbConsole::write, newline, scroll). *)
THEOREM ScreenKeepsShowingText == Spec => []ScreenShowsText
<1>1. IInv => ScreenShowsText
  BY DEF IInv, ScreenInv, BytesShown, ScreenShowsText
<1>2. QED BY <1>1, Invariance, PTL

(* Whatever framebuffer the firmware answers, as long as try_init accepts it,
   the channel reads and writes inside it, and only while the console waits,
   or when it never uses the engine again (scroll, fill_control_block,
   abort_channel). *)
THEOREM DmaStaysConfined == Spec => []DmaConfined
<1>1. ASSUME IInv PROVE DmaConfined
  <2>1. chan.active => block = ScrollTransfer
    BY <1>1 DEF IInv, ChannelInv
  <2>2. chan.active => pc = "wait" \/ dma_failed
    BY <1>1 DEF IInv, ChannelInv
  <2>3. LET t == ScrollTransfer
            last == (t.row_count - 1) * (t.row_len + t.src_stride) + t.row_len
        IN  t.src + last <= geo.size /\ t.dst + last <= geo.size
    BY <1>1, ScrollFits DEF IInv
  <2> HIDE DEF ScrollTransfer
  <2>4. QED BY <2>1, <2>2, <2>3 DEF DmaConfined
<1>2. QED BY <1>1, Invariance, PTL
=============================================================================
