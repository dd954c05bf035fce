-------------------------------- MODULE AuthWalk --------------------------------
(***************************************************************************)
(* The authentication walk of packages/http-server/src/auth.ts, shared by  *)
(* every answerer: the alternatives an endpoint declares are tried in      *)
(* order, each by its scheme's authenticator, and the first that is        *)
(* satisfied wins.                                                         *)
(*                                                                         *)
(* What each authenticator makes of the request is fixed by the request:   *)
(* an identity with the scopes it was granted (none, for a bare one), or   *)
(* one of the refusals.                                                    *)
(***************************************************************************)
EXTENDS Naturals, Sequences

CONSTANTS Scheme, Scope, MaxAlternatives

VARIABLES
  alternatives,  \* the requirements, flattened: a scheme and the scopes it has to grant
  says,          \* what each scheme's authenticator answers
  bearer,        \* the schemes marked as bearer verifiers
  turn,          \* the alternative to try
  underScoped,   \* somebody was recognised
  scopes,        \* the requirement to advertise, at most one
  verdict        \* the scheme that lets the caller in, or why none does

authVars == <<alternatives, says, bearer, turn, underScoped, scopes, verdict>>

Identity == [granted : SUBSET Scope]
Refusal == [refusal : {"unauthenticated", "refused", "unavailable", "defect"}]
Alternative == [scheme : Scheme, required : SUBSET Scope]
Pending == "pending"

Recognised(answer) == "granted" \in DOMAIN answer
Satisfies(answer, required) == Recognised(answer) /\ required \subseteq answer.granted
Breaks(answer) == ~Recognised(answer) /\ answer.refusal \in {"unavailable", "defect"}

Init ==
  /\ alternatives \in UNION {[1..n -> Alternative] : n \in 1..MaxAlternatives}
  /\ says \in [Scheme -> Identity \cup Refusal]
  /\ bearer \in SUBSET Scheme
  /\ turn = 1 /\ underScoped = FALSE /\ scopes = {} /\ verdict = Pending

Settled(how) == verdict' = how /\ UNCHANGED <<turn, underScoped, scopes>>

\* Wrong: a scheme that cannot be asked is passed over.
TryOnwards ==
  LET tried == alternatives[turn]
      answer == says[tried.scheme]
  IN IF Satisfies(answer, tried.required) THEN Settled(tried.scheme)
     ELSE /\ turn' = turn + 1
          /\ underScoped' = (underScoped \/ Recognised(answer) \/ answer.refusal = "refused")
          /\ UNCHANGED <<scopes, verdict>>

\* Wrong: any scheme's requirement is advertised, whether or not a bearer token could meet it.
TryAdvertising ==
  LET tried == alternatives[turn]
      answer == says[tried.scheme]
  IN IF Satisfies(answer, tried.required) THEN Settled(tried.scheme)
     ELSE IF Breaks(answer) THEN Settled(answer.refusal)
     ELSE /\ turn' = turn + 1
          /\ underScoped' = (underScoped \/ Recognised(answer) \/ answer.refusal = "refused")
          /\ scopes' = IF scopes = {} THEN {tried.required} ELSE scopes
          /\ UNCHANGED verdict

\* One turn of the loop: an answer of the authenticator, and what it comes to.
Try ==
  LET tried == alternatives[turn]
      answer == says[tried.scheme]
  IN IF Satisfies(answer, tried.required) THEN Settled(tried.scheme)
     ELSE IF Breaks(answer) THEN Settled(answer.refusal)
     ELSE /\ turn' = turn + 1
          /\ underScoped' = (underScoped \/ Recognised(answer) \/ answer.refusal = "refused")
          /\ scopes' = IF scopes = {} /\ Recognised(answer) /\ tried.scheme \in bearer
                       THEN {tried.required} ELSE scopes
          /\ UNCHANGED verdict

Walk ==
  /\ verdict = Pending
  /\ IF turn > Len(alternatives)
     THEN Settled(IF underScoped THEN "underScoped" ELSE "unauthenticated")
     ELSE Try
  /\ UNCHANGED <<alternatives, says, bearer>>

Next == Walk

Spec == Init /\ [][Next]_authVars

-----------------------------------------------------------------------------

Tried == DOMAIN alternatives
Met(i, answers) == Satisfies(answers[alternatives[i].scheme], alternatives[i].required)
Broken(i) == Breaks(says[alternatives[i].scheme])

\* The verdict is what the alternatives mean together, whatever their order does to the loop:
\* one that is met lets its scheme in, unless an earlier one could not be asked; a caller whom
\* no alternative lets in is under-scoped if any of them recognised it, and unauthenticated
\* otherwise; and the scopes it is told of are enough: with them, that bearer scheme would
\* have let it in.
VerdictIsTheRequirements ==
  /\ verdict \in Scheme =>
       \E i \in Tried : /\ Met(i, says) /\ verdict = alternatives[i].scheme
                        /\ \A j \in 1..(i - 1) : ~Met(j, says) /\ ~Broken(j)
  /\ verdict \in {"unavailable", "defect"} =>
       \E i \in Tried : /\ says[alternatives[i].scheme] = [refusal |-> verdict]
                        /\ \A j \in 1..(i - 1) : ~Met(j, says) /\ ~Broken(j)
  /\ verdict \in {"underScoped", "unauthenticated"} =>
       /\ \A i \in Tried : ~Met(i, says) /\ ~Broken(i)
       /\ verdict = "unauthenticated" <=>
            \A i \in Tried : says[alternatives[i].scheme] = [refusal |-> "unauthenticated"]
       /\ verdict = "unauthenticated" => scopes = {}
       /\ \A needed \in scopes : \E s \in bearer, i \in Tried :
            /\ alternatives[i] = [scheme |-> s, required |-> needed]
            /\ Recognised(says[s])
            /\ Met(i, [says EXCEPT ![s] = [granted |-> needed]])
=============================================================================
