------------------------------- MODULE Errors -------------------------------
(***************************************************************************)
(* The error codes of the C library, their Rust form (cspcl/src/error.rs)  *)
(* and what a failed send means for a bundle: picod3tn-cspcl's FailureKind *)
(* (picod3tn-cspcl/src/error.rs) and C's cspcl_error_is_retryable().       *)
(***************************************************************************)
EXTENDS Naturals

\* Error: the variants of cspcl_error_t, in the order of its codes 1..16.
Variants ==
    <<"InvalidParam", "NoMemory", "BundleTooLarge", "CspSend", "CspRecv",
      "Timeout", "Sfp", "NotInitialized", "Connection", "CspInit",
      "CspStackInit", "CspZmqhubInit", "CspCanInit", "CspCanNotSupported",
      "CspRouter", "PoolFull">>

Code(v) == CHOOSE c \in DOMAIN Variants : Variants[c] = v

CSPCL_OK == 0

\* The variants C does not know; raw is the code of an UnknownError.
RustOnly == [ParseAddress |-> 420, Cancelled |-> 421, Spawn |-> 422]

Error(v) == [is |-> v, raw |-> 0]
Ok == Error("Ok")
ErrorSet(codes) ==
    {Error(v) : v \in {Variants[c] : c \in DOMAIN Variants} \cup DOMAIN RustOnly}
    \cup {[is |-> "UnknownError", raw |-> c] : c \in codes}

\* Error::from_raw(): OK is no error code, so it is unknown too.
from_raw(c) ==
    IF c \in DOMAIN Variants THEN Error(Variants[c])
    ELSE [is |-> "UnknownError", raw |-> c]

\* ok_or_err() and map_err(from_raw), Error::from_code().
from_code(c) == IF c = CSPCL_OK THEN Ok ELSE from_raw(c)

\* Error::code()
code(e) ==
    IF e.is = "UnknownError" THEN e.raw
    ELSE IF e.is \in DOMAIN RustOnly THEN RustOnly[e.is]
    ELSE Code(e.is)

-----------------------------------------------------------------------------
(* What an error means for the bundle *)

\* Mutant: timeouts are not worth a retry.
FailureKind_of_Timeout(e) ==
    CASE e.is \in {"BundleTooLarge", "InvalidParam", "Timeout"} -> "Permanent"
      [] e.is \in {"Cancelled", "NotInitialized"} -> "Cancelled"
      [] OTHER -> "Retryable"

\* FailureKind::of(), which SendError keeps.
FailureKind_of(e) ==
    CASE e.is \in {"BundleTooLarge", "InvalidParam"} -> "Permanent"
      [] e.is \in {"Cancelled", "NotInitialized"} -> "Cancelled"
      [] OTHER -> "Retryable"

\* cspcl_error_is_retryable()
error_is_retryable(c) ==
    c \in {Code("Timeout"), Code("PoolFull"), Code("CspSend"), Code("CspRecv")}

=============================================================================
