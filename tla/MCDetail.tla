------------------------------- MODULE MCDetail -------------------------------
(* The detail page beside the writers of MCNotices. *)
EXTENDS MCNotices, NoticeDetail
===============================================================================
