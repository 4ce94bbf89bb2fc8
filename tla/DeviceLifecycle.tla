--------------------------- MODULE DeviceLifecycle ---------------------------
(***************************************************************************)
(* What a device promises the application (the contract of the FpDevice    *)
(* calls): one action at a time, one result for each, and the hardware at  *)
(* rest from the moment the result is decided until the next request.      *)
(***************************************************************************)

CONSTANT Actions        \* the actions beside "open" and "close"

VARIABLES
  isOpen,   \* the device is open
  action,   \* the action under way, or "none"
  result,   \* "no" until it is decided, then "ok" or "error"
  busy      \* the device works for the action

lifeVars == <<isOpen, action, result, busy>>

Init == isOpen = FALSE /\ action = "none" /\ result = "no" /\ busy = FALSE

Request(a) ==
  /\ action = "none" /\ ~busy
  /\ IF a = "open" THEN ~isOpen ELSE isOpen
  /\ action' = a
  /\ UNCHANGED <<isOpen, busy>>
  /\ result' \in {"no", "error"}

Work ==
  /\ action \in Actions /\ result = "no"
  /\ busy' \in BOOLEAN
  /\ UNCHANGED <<isOpen, action, result>>

Decide(r) ==
  /\ action # "none" /\ result = "no"
  /\ result' = r
  /\ ~busy /\ busy' = FALSE
  /\ UNCHANGED <<isOpen, action>>

Return ==
  /\ result # "no" /\ ~busy
  /\ action' = "none" /\ result' = "no"
  /\ isOpen' = CASE action = "open" -> result = "ok"
                 [] action = "close" -> FALSE
                 [] OTHER -> isOpen
  /\ UNCHANGED busy

Next ==
  \/ \E a \in Actions \union {"open", "close"} : Request(a)
  \/ Work
  \/ \E r \in {"ok", "error"} : Decide(r)
  \/ Return

Spec == Init /\ [][Next]_lifeVars

=============================================================================
