--------------------------- MODULE MCAttachments ---------------------------
(***************************************************************************)
(* Instances of Attachments for TLC: operations each device may author.    *)
(***************************************************************************)
EXTENDS Attachments

Three_Two == <<3, 2>>
One_Each == <<1, 1, 1>>

=============================================================================
