--------------------------- MODULE MCQnaTracking ---------------------------
(* The instances of QnaTracking that TLC checks; the .cfg files give the     *)
(* constants.  Threads need no bound of their own: a post of the bot needs a *)
(* draft, and MaxWords bounds the drafts.                                    *)
EXTENDS QnaTracking

=============================================================================
