----------------------------- MODULE MorphoAdmin -----------------------------
(***************************************************************************)
(* What Morpho.sol keeps besides its markets: authorizations that come by  *)
(* signature, with the nonces that make a signature good for one use, and  *)
(* what the owner enables for markets that are still to be created.        *)
(*                                                                         *)
(* External: users, who sign what they like at any time.  A signature is   *)
(* the authorization that was signed, and may be handed in by anybody.     *)
(***************************************************************************)
EXTENDS Morpho

CONSTANTS
  Signers,         \* users that take part
  Deadlines,
  MaxSignatures,   \* bound on the authorizations that are signed
  MaxTimestamp,    \* bound on the time
  Owners,          \* who may own the contract
  FirstOwner,      \* the constructor's newOwner
  Irms, Lltvs

ASSUME AdminAssumption ==
  /\ Signers \subseteq Users /\ FirstOwner \in Owners \ {ZeroAddress}
  /\ MaxSignatures \in Nat /\ MaxTimestamp \in Nat
  /\ Deadlines \subseteq Nat /\ Lltvs \subseteq Nat

VARIABLES
  nonce,          \* of each user
  timestamp,
  signed,         \* authorizations that users have signed
  used,           \* history: those that have taken effect
  granted,        \* history: pairs that setAuthorization has ever changed
  owner,
  isIrmEnabled,
  isLltvEnabled,
  markets         \* idToMarketParams of the markets that exist

signatureVars == <<nonce, timestamp, signed, used, granted>>
ownerVars == <<owner, isIrmEnabled, isLltvEnabled, markets>>
adminVars == <<vars, signatureVars, ownerVars>>

Authorization ==
  [authorizer : Signers, authorized : Signers, isAuthorized : BOOLEAN,
   nonce : 0..(MaxSignatures - 1), deadline : Deadlines]

Pair(a) == <<a.authorizer, a.authorized>>

-----------------------------------------------------------------------------
(* Authorizations.                                                          *)

(* A user may sign for any nonce, several times for the same.               *)
Sign(a) ==
  /\ Cardinality(signed) < MaxSignatures
  /\ signed' = signed \cup {a}
  /\ UNCHANGED <<vars, nonce, timestamp, used, granted, ownerVars>>

TimestampGrows ==
  /\ timestamp < MaxTimestamp
  /\ timestamp' = timestamp + 1
  /\ UNCHANGED <<vars, nonce, signed, used, granted, ownerVars>>

SetAuthorizationDirectly(sender, authorized) ==
  /\ SetAuthorization(sender, authorized)
  /\ granted' = granted \cup {<<sender, authorized>>}
  /\ UNCHANGED <<nonce, timestamp, signed, used, ownerVars>>

(* Mutant of SetAuthorizationWithSig: what is set already is left alone,    *)
(* with its nonce.                                                          *)
SetAuthorizationWithSigUnlessSet(a) ==
  /\ timestamp <= a.deadline
  /\ a.nonce = nonce[a.authorizer]
  /\ isAuthorized' = IF a.isAuthorized THEN isAuthorized \cup {Pair(a)} ELSE isAuthorized \ {Pair(a)}
  /\ nonce' = IF isAuthorized' = isAuthorized THEN nonce
              ELSE [nonce EXCEPT ![a.authorizer] = @ + 1]
  /\ used' = used \cup {a}
  /\ UNCHANGED <<position, market, fee, feeRecipient, growth, price, balance, calls>>
  /\ UNCHANGED <<timestamp, signed, granted, ownerVars>>

(* The nonce grows also when the authorization is set already.              *)
SetAuthorizationWithSig(a) ==
  /\ timestamp <= a.deadline
  /\ a.nonce = nonce[a.authorizer]
  /\ nonce' = [nonce EXCEPT ![a.authorizer] = @ + 1]
  /\ isAuthorized' = IF a.isAuthorized THEN isAuthorized \cup {Pair(a)} ELSE isAuthorized \ {Pair(a)}
  /\ used' = used \cup {a}
  /\ UNCHANGED <<position, market, fee, feeRecipient, growth, price, balance, calls>>
  /\ UNCHANGED <<timestamp, signed, granted, ownerVars>>

-----------------------------------------------------------------------------
(* The owner, and the markets.                                              *)

SetOwner(sender, newOwner) ==
  /\ sender = owner /\ newOwner # owner
  /\ owner' = newOwner
  /\ UNCHANGED <<vars, signatureVars, isIrmEnabled, isLltvEnabled, markets>>

EnableIrm(sender, irm) ==
  /\ sender = owner /\ irm \notin isIrmEnabled
  /\ isIrmEnabled' = isIrmEnabled \cup {irm}
  /\ UNCHANGED <<vars, signatureVars, owner, isLltvEnabled, markets>>

EnableLltv(sender, lltv) ==
  /\ sender = owner /\ lltv \notin isLltvEnabled /\ lltv < WAD
  /\ isLltvEnabled' = isLltvEnabled \cup {lltv}
  /\ UNCHANGED <<vars, signatureVars, owner, isIrmEnabled, markets>>

(* By anybody.  The tokens and the oracle are not checked.                  *)
CreateMarket(irm, lltv) ==
  /\ irm \in isIrmEnabled /\ lltv \in isLltvEnabled
  /\ <<irm, lltv>> \notin markets
  /\ markets' = markets \cup {<<irm, lltv>>}
  /\ UNCHANGED <<vars, signatureVars, owner, isIrmEnabled, isLltvEnabled>>

-----------------------------------------------------------------------------

AdminInit ==
  /\ Init
  /\ nonce = [u \in Signers |-> 0] /\ timestamp = 1
  /\ signed = {} /\ used = {} /\ granted = {}
  /\ owner = FirstOwner
  /\ isIrmEnabled = {} /\ isLltvEnabled = {} /\ markets = {}

Authorize ==
  \/ \E a \in Authorization : Sign(a)
  \/ TimestampGrows
  \/ \E sender, authorized \in Signers : SetAuthorizationDirectly(sender, authorized)
  \/ \E a \in signed : SetAuthorizationWithSig(a)

Administer ==
  \/ \E sender, newOwner \in Owners : SetOwner(sender, newOwner)
  \/ \E sender \in Owners, irm \in Irms : EnableIrm(sender, irm)
  \/ \E sender \in Owners, lltv \in Lltvs : EnableLltv(sender, lltv)
  \/ \E irm \in Irms, lltv \in Lltvs : CreateMarket(irm, lltv)

AdminNext == Authorize \/ Administer

AdminSpec == AdminInit /\ [][AdminNext]_adminVars

-----------------------------------------------------------------------------
(* Properties.                                                              *)

UsedBy(u) == {a \in used : a.authorizer = u}

(* Users spend their nonces in order and each on one signature, so that     *)
(* none takes effect twice and a second one for the same nonce never does;  *)
(* and nobody is authorized but by a call or a signature of the authorizer. *)
SignaturesUsedOnce ==
  /\ \A u \in Signers :
       /\ {a.nonce : a \in UsedBy(u)} = 0..(nonce[u] - 1)
       /\ Cardinality(UsedBy(u)) = nonce[u]
  /\ used \subseteq signed
  /\ isAuthorized \subseteq granted \cup {Pair(a) : a \in {b \in used : b.isAuthorized}}

=============================================================================
