------------------------ MODULE MCKirimImportDevice ------------------------
(***************************************************************************)
(* An instance of KirimImport for TLC: a phone import beside one from the  *)
(* stored copy.                                                            *)
(***************************************************************************)
EXTENDS KirimImport

\* A chat as long as the pages that are read.
MessagesOfChat == [c \in Chat |-> CopyLimit]
=============================================================================
