------------------------------- MODULE Identity -------------------------------
(***************************************************************************)
(* Who a caller is (gateway/identity.py), and what becomes of the denial   *)
(* of a caller who is nobody (gateway/app.py, denial_is_recorded): the     *)
(* handlers of one gateway process, above its DenialBudget.                *)
(*                                                                         *)
(* A bearer token is good by its dates, which an issuer wrote by a clock   *)
(* of its own and which the gateway reads by its wall clock.  The wall     *)
(* clock is off by a drift that may change at any moment, as when it is    *)
(* set; the budget's clock is monotonic and is taken for the true time.    *)
(* One token is followed from its minting on; of what else it says the     *)
(* model keeps the one thing that may be amiss with it, and of a principal *)
(* that there is one.                                                      *)
(***************************************************************************)
EXTENDS DenialBudget

CONSTANTS
  Configurations,  \* AuthSettings that a gateway may be started with
  ClockSkew,       \* clock_skew_seconds
  MaxLifetime,     \* max_token_lifetime_seconds
  MaxDrift,        \* how far the wall clock may be off, either way
  Shapes,          \* of the tokens that issuers make
  Absent,          \* of a claim
  MaxTurnedAway    \* bound: denials under way at once

(* What may be amiss with a token, apart from its dates.                   *)
Defects == {"none", "malformed", "algorithm", "signature", "issuer", "audience", "subject"}

(* How long a token is good and after what delay, for one that says so,    *)
(* and whether it is dated.                                                *)
Shape == [defect : Defects, life : Nat \cup {Absent}, delay : Nat \cup {Absent}, dated : BOOLEAN]

ASSUME IdentityAssumption ==
  /\ Configurations \subseteq [secret : BOOLEAN, issuer : BOOLEAN, audience : BOOLEAN, demo : BOOLEAN]
  /\ ClockSkew \in Nat /\ MaxLifetime \in Nat /\ MaxDrift \in Nat
  /\ Absent \notin Int
  /\ Shapes \subseteq Shape
  /\ MaxTurnedAway \in Nat

VARIABLES
  settings,    \* auth_settings
  drift,       \* of the wall clock
  token,       \* the token, once there is one
  used,        \* history: the true times of the token's first and latest use
  answered,    \* history: of the latest request, whether it came with the token
               \* while that was fresh, and whether its caller was somebody
  turnedAway   \* callers who are nobody, on their way to denial_is_recorded

authVars == <<settings, drift, token, used, answered, turnedAway>>
allVars == <<vars, authVars>>

Wall == clock + drift

Drifts == - MaxDrift .. MaxDrift

NoToken == [exists |-> FALSE]

Token == [exists : {TRUE}, defect : Defects, minted : Nat,
          exp : Int \cup {Absent}, nbf : Int \cup {Absent}, iat : Int \cup {Absent}]

(* A request's two headers.                                                *)
Authorizations == {"none", "garbage", "token"}

DemoHeaders == {"none", "known", "unknown"}

Unused == [ever |-> FALSE, first |-> 0, latest |-> 0]

AuthInit ==
  /\ Init
  /\ settings \in Configurations
  /\ drift \in Drifts
  /\ token = NoToken
  /\ used = Unused
  /\ answered = [fresh |-> FALSE, accepted |-> FALSE]
  /\ turnedAway = 0

-----------------------------------------------------------------------------
Present(claim) == claim # Absent

(* Mutant: no lifetime is too long.                                        *)
ExpiryWithinOpen(exp, now) == Present(exp) /\ exp + ClockSkew >= now

ExpiryWithin(exp, now) ==
  /\ Present(exp)
  /\ exp + ClockSkew >= now
  /\ exp - now <= MaxLifetime + ClockSkew

(* Mutant: the skew is not allowed for.                                    *)
BegunStrictly(date, now) == Present(date) => date <= now

(* nbf and iat, which a token need not have.                               *)
Begun(date, now) == Present(date) => date - ClockSkew <= now

(* verify_hs256_jwt, _validate_claims and the subject that                 *)
(* principal_from_claims asks for.                                         *)
Verified(t, now) ==
  /\ settings.secret
  /\ t.defect \notin {"malformed", "algorithm", "signature", "subject"}
  /\ settings.issuer => t.defect # "issuer"
  /\ settings.audience => t.defect # "audience"
  /\ ExpiryWithin(t.exp, now)
  /\ Begun(t.nbf, now)
  /\ Begun(t.iat, now)

DemoAccepted(demo) == settings.demo /\ demo = "known"

(* Mutant: a caller whose token is refused may be a demo principal.        *)
SomebodyEitherWay(authorization, demo) ==
  (authorization = "token" /\ Verified(token, Wall)) \/ DemoAccepted(demo)

(* resolve_principal: whoever sends an Authorization header is who that    *)
(* says, or nobody.                                                        *)
Somebody(authorization, demo) ==
  IF authorization # "none"
  THEN authorization = "token" /\ Verified(token, Wall)
  ELSE DemoAccepted(demo)

(* What the gateway is meant for: a token that is whole, from an issuer    *)
(* that keeps to the lifetime and dates it by the true time.               *)
Fresh(t) ==
  /\ settings.secret
  /\ t.exists /\ t.defect = "none"
  /\ Present(t.exp) /\ clock <= t.exp /\ t.exp <= t.minted + MaxLifetime
  /\ Present(t.nbf) => t.nbf <= clock
  /\ Present(t.iat) => t.iat = t.minted

-----------------------------------------------------------------------------
TickBoth == Tick /\ UNCHANGED authVars

SetWallClock ==
  /\ drift' \in Drifts
  /\ UNCHANGED <<vars, settings, token, used, answered, turnedAway>>

(* An issuer's work, outside of the gateway: dates by the true time, some  *)
(* of them left out.                                                       *)
Mint ==
  /\ ~ token.exists
  /\ \E shape \in Shapes :
       token' = [exists |-> TRUE, defect |-> shape.defect, minted |-> clock,
                 exp |-> IF Present(shape.life) THEN clock + shape.life ELSE Absent,
                 nbf |-> IF Present(shape.delay) THEN clock + shape.delay ELSE Absent,
                 iat |-> IF shape.dated THEN clock ELSE Absent]
  /\ UNCHANGED <<vars, settings, drift, used, answered, turnedAway>>

Use == [ever |-> TRUE, first |-> IF used.ever THEN used.first ELSE clock, latest |-> clock]

(* A handler resolves its caller.  What policy makes of somebody is        *)
(* Gateway's; nobody is denied whatever was asked for.                     *)
Request(authorization, demo) ==
  LET accepted == Somebody(authorization, demo) IN
  /\ authorization = "token" => token.exists
  /\ answered' = [fresh |-> authorization = "token" /\ Fresh(token), accepted |-> accepted]
  /\ used' = IF authorization = "token" /\ accepted THEN Use ELSE used
  /\ \/ accepted /\ UNCHANGED turnedAway
     \/ ~ accepted /\ turnedAway < MaxTurnedAway /\ turnedAway' = turnedAway + 1
  /\ UNCHANGED <<vars, settings, drift, token>>

(* denial_is_recorded, for a caller who is nobody: other handlers may have *)
(* come in between.                                                        *)
RecordDenial ==
  /\ turnedAway > 0
  /\ turnedAway' = turnedAway - 1
  /\ Allow
  /\ UNCHANGED <<settings, drift, token, used, answered>>

AuthNext ==
  \/ TickBoth \/ SetWallClock \/ Mint \/ RecordDenial
  \/ \E authorization \in Authorizations, demo \in DemoHeaders : Request(authorization, demo)

AuthSpec == AuthInit /\ [][AuthNext]_allVars

-----------------------------------------------------------------------------
AuthTypeOK ==
  /\ TypeOK
  /\ settings \in Configurations
  /\ drift \in Drifts
  /\ token \in {NoToken} \cup Token
  /\ used \in [ever : BOOLEAN, first : Nat, latest : Nat]
  /\ answered \in [fresh : BOOLEAN, accepted : BOOLEAN]
  /\ turnedAway \in 0 .. MaxTurnedAway

(* However long a token says it is valid, whatever its other dates, and    *)
(* whatever else its bearer sends along, two uses of it are no further     *)
(* apart than the longest lifetime, the allowed skew and the wall clock's  *)
(* error, the latter two on either side (identity.py:62-75, 187-195).      *)
AcceptedBriefly ==
  used.ever => used.latest - used.first <= MaxLifetime + 2 * (ClockSkew + MaxDrift)

(* What the skew is for: while the wall clock is off by no more than that, *)
(* a token of an honest issuer is good from the moment it is minted, or    *)
(* from its nbf on, to the moment it expires, both included                *)
(* (identity.py:187-203).                                                  *)
FreshTokensWork == MaxDrift <= ClockSkew /\ answered.fresh => answered.accepted
=============================================================================
