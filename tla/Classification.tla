---------------------------- MODULE Classification ----------------------------
(***************************************************************************)
(* What kind of failure an error code and an error reason stand for:       *)
(* classify_failure.  A text is known by what the code finds in it: the    *)
(* category of the table of reasons and of the table of codes that has it, *)
(* normalised, as an entry ("none" if neither), and the categories one of  *)
(* whose patterns it matches.                                              *)
(***************************************************************************)
EXTENDS Naturals

Terminal == {"card_blocked", "expired_card"}
Transient == {"network_timeout", "gateway_issue"}
Specific == {"insufficient_funds", "limit_exceeded", "authentication_failed"}
Categories == Terminal \cup Transient \cup Specific \cup {"unknown"}

Known == Categories \ {"unknown"}

Texts == [asReason : Known \cup {"none"}, asCode : Known \cup {"none"},
          names : SUBSET Known]

Blank == [asReason |-> "none", asCode |-> "none", names |-> {}]

\* KEYWORD_PATTERNS, the first category first.
Priority == <<"insufficient_funds", "expired_card", "limit_exceeded",
              "authentication_failed", "card_blocked", "network_timeout",
              "gateway_issue">>

Places(t) == {i \in 1 .. 7 : Priority[i] \in t.names}

\* Mutant: the last match wins.
Named_Last(t) == Priority[CHOOSE i \in Places(t) : \A j \in Places(t) : i >= j]

\* The first category whose patterns match.
Named(t) == Priority[CHOOSE i \in Places(t) : \A j \in Places(t) : i <= j]

\* An entry for the reason decides, then one for the code, in either table;
\* then what the reason matches, then what the code does.
Classify(code, reason) ==
  IF reason.asReason # "none" THEN reason.asReason
  ELSE IF code.asCode # "none" THEN code.asCode
  ELSE IF code.asReason # "none" THEN code.asReason
  ELSE IF reason.names # {} THEN Named(reason)
  ELSE IF code.names # {} THEN Named(code)
  ELSE "unknown"
=============================================================================
