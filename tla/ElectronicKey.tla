----------------------------- MODULE ElectronicKey -----------------------------
(***************************************************************************)
(* The electronic key check of a connection request (User.c:               *)
(* User_ValidateKey).  A key's major_rev is the number without the bit     *)
(* KEY_MUST_MATCH_MASK, and "compatible" is that bit.  Nothing is wrong    *)
(* with a field of the key that is zero.                                   *)
(***************************************************************************)
EXTENDS Naturals

CONSTANTS
  Products,  \* id_obj_inst_attr of the products
  Keys       \* the keys of requests

Identity == [vendor_id : Nat, product_type : Nat, product_code : Nat,
             major_rev : Nat, minor_rev : Nat]
KeyType  == [vendor_id : Nat, product_type : Nat, product_code : Nat,
             major_rev : Nat, minor_rev : Nat, compatible : BOOLEAN]

KeyAssumption == Products \subseteq Identity /\ Keys \subseteq KeyType

VARIABLES
  product,
  key,
  status  \* the general status and the extended one

vars == <<product, key, status>>

Init == product \in Products /\ key \in Keys /\ status = "none"

Mismatches(k, p, field) == k[field] # 0 /\ k[field] # p[field]

\* Mutant: the minor revision is compared whatever the major one.
RevisionFitsInBoth(k, p) ==
  IF k.compatible THEN k.major_rev <= p.major_rev /\ k.minor_rev <= p.minor_rev
  ELSE k.major_rev = p.major_rev /\ k.minor_rev = p.minor_rev

\* "Major/Minor rev must be less than or equal to product rev", or equal.
RevisionFits(k, p) ==
  IF k.compatible
  THEN ~(k.major_rev > p.major_rev \/ (k.major_rev = p.major_rev /\ k.minor_rev > p.minor_rev))
  ELSE k.major_rev = p.major_rev /\ k.minor_rev = p.minor_rev

\* What User_ValidateKey returns.
Validated(k, p) ==
  IF Mismatches(k, p, "vendor_id") THEN "product code mismatch"
  ELSE IF Mismatches(k, p, "product_type") THEN "product type mismatch"
  ELSE IF Mismatches(k, p, "product_code") THEN "product code mismatch"
  ELSE IF k.major_rev # 0 /\ ~RevisionFits(k, p) THEN "revision mismatch"
  ELSE "success"

User_ValidateKey ==
  /\ status = "none"
  /\ status' = Validated(key, product)
  /\ UNCHANGED <<product, key>>

Next == User_ValidateKey

Spec == Init /\ [][Next]_vars

-----------------------------------------------------------------------------
IsUpgradeOf(q, p) ==
  /\ \A field \in {"vendor_id", "product_type", "product_code"} : q[field] = p[field]
  /\ \/ q.major_rev > p.major_rev
     \/ q.major_rev = p.major_rev /\ q.minor_rev >= p.minor_rev

\* A compatible key that a product accepts is accepted by every later revision of the
\* product: an upgrade in the field never refuses the controller it worked with.
UpgradeKeepsCompatibleKeys ==
  \A q \in Products :
    status = "success" /\ key.compatible /\ IsUpgradeOf(q, product) =>
      Validated(key, q) = "success"

=============================================================================
