----------------------------- MODULE MCKeyboard -----------------------------
(* Keyboard with every text of up to four keys. *)
EXTENDS Keyboard
Keys == {"a", "@", "#"}
AllFiles == UNION {[1 .. n -> Keys] : n \in 0 .. 4}
=============================================================================
