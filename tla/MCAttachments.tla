---------------------------- MODULE MCAttachments ----------------------------
(* Attachments for TLC; MCAttachments.cfg names its instance. *)
EXTENDS Attachments
=============================================================================
