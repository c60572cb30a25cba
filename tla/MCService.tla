------------------------------ MODULE MCService ------------------------------
(***************************************************************************)
(* Small instances of the service for TLC.  The key "m4x" is the one the   *)
(* callback x asks for; clients may use it too.                            *)
(***************************************************************************)
EXTENDS Service, TLC

MCTexts == {"", "ops", "ntfy", "whatsapp", "b", "c", "p", "q", "ready", "+49"}

OneNtfy == {[title |-> "", body |-> "b"]}
OneWhatsapp == {[destination |-> "+49", payload |-> "p"]}

\* A body that is the text of a WhatsApp payload.
AliasNtfy == {[title |-> "", body |-> "p"]}

NoCalls == {}
NoCallKeys == [i \in {} |-> "k1"]
OneCall == {[id |-> "x", sender |-> "49", verb |-> "notify", ts |-> 1]}
OneCallKey == [i \in {"x"} |-> "m4x"]
Plus == [s \in Senders |-> "+49"]

\* Nothing orders keys: rows are claimed by age, and ids of one age are digests.
KeySymmetry == Permutations(Keys)

AllowAll == {<<"49", "notify">>, <<"49", "status">>}
=============================================================================
