---------------------------- MODULE MCPageFollow ----------------------------
(***************************************************************************)
(* Two pages of one site, one of them by its hash, and a page of another.  *)
(***************************************************************************)
EXTENDS PageFollow

CONSTANTS r1, r2, page1, page1hash, elsewhere

MCRooms == {r1, r2}
MCUrls == {page1, page1hash, elsewhere}
MCAnchored == {page1hash}
MCDocument == [u \in MCUrls |-> IF u = page1hash THEN page1 ELSE u]
MCOrigin == [u \in MCUrls |-> IF u = elsewhere THEN "other" ELSE "site"]
MCHome == [r \in MCRooms |-> IF r = r1 THEN page1 ELSE elsewhere]
=============================================================================
