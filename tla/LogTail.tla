------------------------------- MODULE LogTail --------------------------------
(***************************************************************************)
(* GetLogFileLines of src/internal/storage/db.go: the last lines of a      *)
(* server's log, which is read in pieces from at most Limit bytes before   *)
(* its end.  A file is a sequence of bytes; only the newline matters.  A   *)
(* negative number of lines, which the code does not expect, is left out.  *)
(***************************************************************************)
EXTENDS Integers, Sequences, SequencesExt

CONSTANTS Limit,   \* bytes that are read at most (10 MB)
          Newline  \* the byte 10

ASSUME TailAssumption == Limit \in Nat \ {0}

LastOf(s, n) == IF Len(s) > n THEN SubSeq(s, Len(s) - n + 1, Len(s)) ELSE s

(* One byte of a chunk: current (lines), and the start of the next line. *)
CutByte(turn, chunk, i) ==
    IF chunk[i] = Newline
    THEN [lines |-> Append(turn.lines, SubSeq(chunk, turn.start, i - 1)), start |-> i + 1]
    ELSE turn

(* The loop over a chunk: the state after the first i bytes. *)
CutTurns(lines, chunk) ==
    LET turns[i \in 0..Len(chunk)] ==
            IF i = 0 THEN [lines |-> lines, start |-> 1] ELSE CutByte(turns[i - 1], chunk, i)
    IN turns

(* The lines that end within a chunk are added, and the rest is kept. *)
CutUp(at, lines, chunk) ==
    LET end == CutTurns(lines, chunk)[Len(chunk)] IN
    [at |-> at, lines |-> end.lines, leftOver |-> SubSeq(chunk, end.start, Len(chunk))]

(* Mutant: a piece is cut by itself. *)
ReadPiece_Alone(turn, bytes, buffer) ==
    LET end == Min({turn.at + buffer, Len(bytes)}) IN
    IF turn.at = Len(bytes) THEN turn ELSE CutUp(end, turn.lines, SubSeq(bytes, turn.at + 1, end))

(* One call of file.Read, from the offset it has come to: the piece is cut *)
(* up behind what the one before has left over.                            *)
ReadPiece(turn, bytes, buffer) ==
    LET end == Min({turn.at + buffer, Len(bytes)}) IN
    IF turn.at = Len(bytes) THEN turn
    ELSE CutUp(end, turn.lines, turn.leftOver \o SubSeq(bytes, turn.at + 1, end))

(* The loop: as many calls as there are bytes are enough to read them all. *)
ReadTurns(bytes, buffer) ==
    LET turns[k \in 0..Len(bytes)] ==
            IF k = 0 THEN [at |-> 0, lines |-> <<>>, leftOver |-> <<>>]
            ELSE ReadPiece(turns[k - 1], bytes, buffer)
    IN turns

GetLogFileLines(file, buffer, maxLines) ==
    LET bytes == LastOf(file, Limit)
        end == ReadTurns(bytes, buffer)[Len(bytes)]
    IN LastOf(IF end.leftOver = <<>> THEN end.lines ELSE Append(end.lines, end.leftOver), maxLines)

------------------------------------------------------------------------------
(* The file, with a newline at its end. *)
Ended(file) == IF file = <<>> \/ file[Len(file)] = Newline THEN file ELSE Append(file, Newline)

(* The lines, each with its newline. *)
TextOfLines(lines) == FlattenSeq([k \in DOMAIN lines |-> Append(lines[k], Newline)])

(* The lines, put together again, are the end of the file: all of it when  *)
(* there are fewer than maxLines, a last line without its newline too, and *)
(* from the start of a line unless the file is longer than Limit.          *)
IsTail(file, buffer, maxLines) ==
    LET lines == GetLogFileLines(file, buffer, maxLines)
        whole == Ended(file)
        before == Len(whole) - Len(TextOfLines(lines))
        unread == IF Len(file) > Limit THEN Len(file) - Limit ELSE 0
    IN /\ \A k \in DOMAIN lines : Newline \notin Range(lines[k])
       /\ before >= 0 /\ TextOfLines(lines) = SubSeq(whole, before + 1, Len(whole))
       /\ Len(lines) <= maxLines
       /\ Len(lines) < maxLines => before = unread
       /\ before \notin {0, unread} => whole[before] = Newline
==============================================================================
