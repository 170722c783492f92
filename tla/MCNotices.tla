----------------------------- MODULE MCNotices -----------------------------
(***************************************************************************)
(* One notice of the Castilla portal, its list and its page.               *)
(***************************************************************************)
EXTENDS Notices

CONSTANT fiesta

MCPages == { NoticeList, NoticePage(fiesta) }
=============================================================================
