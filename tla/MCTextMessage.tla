--------------------------- MODULE MCTextMessage ---------------------------
(***************************************************************************)
(* Two texts with one key and an entry for their voice that pays for one   *)
(* of them and a short one, which comes without a voice of its own entry.  *)
(***************************************************************************)
EXTENDS TextMessage

CONSTANTS t1, t2, t3, hello, bye, common

MCTexts == {t1, t2, t3}
MCKey == [t \in MCTexts |-> IF t = t3 THEN bye ELSE hello]
MCAccount == [t \in MCTexts |-> common]
MCQuota == [a \in {common} |-> 3]
MCCredit == [t \in MCTexts |-> IF t = t3 THEN 1 ELSE 2]
=============================================================================
