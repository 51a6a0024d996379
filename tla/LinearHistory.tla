---------------------------- MODULE LinearHistory ----------------------------
(***************************************************************************)
(* What undo and redo promise the user of an editor: a line of versions    *)
(* with a cursor.  A change forgets the undone versions; undo and redo     *)
(* step back and forth along the line and return the very same versions.   *)
(***************************************************************************)
EXTENDS Sequences

VARIABLES past,     \* the versions before the present one, newest first
          present,  \* the version shown
          future    \* the undone versions, nearest first

line == <<past, present, future>>

Init == past = <<>> /\ future = <<>>

Change ==
    /\ past' = <<present>> \o past
    /\ future' = <<>>

Undo ==
    /\ past # <<>>
    /\ present' = Head(past)
    /\ past' = Tail(past)
    /\ future' = <<present>> \o future

Redo ==
    /\ future # <<>>
    /\ present' = Head(future)
    /\ future' = Tail(future)
    /\ past' = <<present>> \o past

Next == Change \/ Undo \/ Redo

Spec == Init /\ [][Next]_line

=============================================================================
