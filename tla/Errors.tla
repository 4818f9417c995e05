--------------------------------- MODULE Errors ---------------------------------
(***************************************************************************)
(* The error taxonomy of src/src/helix_sdk/errors.py and codes.py.         *)
(*                                                                         *)
(* Every exception class but the base has one code and one HTTP status of  *)
(* its own, so a group of classes is the record of its statuses by code,   *)
(* and a class goes by its code. Only some classes are in the table by     *)
(* which map_api_error() turns an answer of the API into an exception.     *)
(***************************************************************************)
EXTENDS Naturals

\* The class of an exception that is none of the taxonomy's.
Base == "HelixError"

DidStatus ==
    [INVALID_PUBLIC_KEY |-> 400, INVALID_DID_FORMAT |-> 400, DID_NOT_FOUND |-> 404,
     DID_METHOD_NOT_AVAILABLE |-> 501, UNSUPPORTED_DID_METHOD |-> 400,
     DID_ALREADY_EXISTS |-> 409, DID_DEACTIVATED |-> 410,
     INVALID_SERVICE_ENDPOINT_URL |-> 400, SERVICE_ENDPOINT_NOT_FOUND |-> 404,
     SERVICE_ENDPOINT_ALREADY_EXISTS |-> 409,
     HEDERA_ANCHOR_FAILED |-> 502, HEDERA_RESOLUTION_FAILED |-> 502]

GeneralStatus ==
    [INTERNAL_ERROR |-> 500, VALIDATION_ERROR |-> 400, ADMIN_AUTH_REQUIRED |-> 403]

VcStatus ==
    [VC_NOT_FOUND |-> 404, VC_ALREADY_REVOKED |-> 409, VC_EXPIRED |-> 400,
     VC_NOT_YET_VALID |-> 400, VC_SUBJECT_DID_NOT_FOUND |-> 404,
     VC_INVALID_PRIVILEGE_SCOPE |-> 400, STATUS_LIST_INDEX_EXHAUSTED |-> 503,
     VC_SIGNATURE_INVALID |-> 400, SELF_SIGNED_VC_NOT_ALLOWED |-> 403]

DelegationStatus ==
    [SCOPE_ESCALATION_DENIED |-> 400, MAX_DELEGATION_DEPTH_EXCEEDED |-> 400,
     DELEGATION_CHAIN_INVALID |-> 400, DELEGATION_PARENT_VC_NOT_FOUND |-> 404,
     DELEGATION_PARENT_VC_REVOKED |-> 400, DELEGATION_NOT_PERMITTED |-> 403,
     VC_REVOKED |-> 400, VC_ISSUER_NOT_FOUND |-> 400]

\* Raised by the wallet and the client themselves.
LocalStatus ==
    [WALLET_ALREADY_EXISTS |-> 409, NO_CREDENTIAL_IN_WALLET |-> 400,
     CREDENTIAL_NOT_FOR_THIS_AGENT |-> 400, CREDENTIAL_ALREADY_IN_WALLET |-> 409,
     SDK_ONLY_MODE_NO_API |-> 400, INSUFFICIENT_SCOPE |-> 403]

VpStatus ==
    [VP_MISSING |-> 401, VP_NOT_FOUND |-> 404, VP_EXPIRED |-> 400,
     VP_ALREADY_CONSUMED |-> 400, VP_VERIFICATION_FAILED |-> 400,
     VP_SIGNATURE_INVALID |-> 400, VP_INVALID_STRUCTURE |-> 400,
     CONSENT_GRANT_SUBJECT_MISMATCH |-> 400, CONSENT_GRANT_INVALID |-> 400,
     VP_AGENT_DID_NOT_FOUND |-> 404, VP_NO_ACTIVE_VC |-> 400,
     VP_MULTIPLE_ACTIVE_VC |-> 400,
     JWT_INVALID |-> 400, JWT_EXPIRED |-> 401, JWT_PUBLIC_KEY_NOT_FOUND |-> 500]

AgentStatus ==
    [ENROLLMENT_TOKEN_NOT_FOUND |-> 404, ENROLLMENT_TOKEN_EXPIRED |-> 400,
     ENROLLMENT_TOKEN_ALREADY_USED |-> 409, CHALLENGE_NOT_FOUND |-> 404,
     CHALLENGE_EXPIRED |-> 410, CHALLENGE_ALREADY_VERIFIED |-> 409,
     CHALLENGE_SIGNATURE_INVALID |-> 400, AGENT_ALREADY_ONBOARDED |-> 409]

PreparedStatus ==
    [PREPARED_PAYLOAD_NOT_FOUND |-> 404, PREPARED_PAYLOAD_EXPIRED |-> 410,
     PREPARED_PAYLOAD_ALREADY_CONSUMED |-> 409,
     PREPARED_PAYLOAD_SIGNATURE_INVALID |-> 400,
     PREPARED_PAYLOAD_PURPOSE_MISMATCH |-> 400, RENEWAL_WINDOW_NOT_OPEN |-> 400,
     RENEWAL_WINDOW_EXPIRED |-> 400, MAX_RENEWAL_COUNT_EXCEEDED |-> 400,
     VC_MISSING_CREDENTIAL_STATUS |-> 400,
     SERVICE_NOT_FOUND |-> 404, SERVICE_ALREADY_EXISTS |-> 409]

AccountStatus ==
    [ACCOUNT_ALREADY_EXISTS |-> 409, ACCOUNT_NOT_FOUND |-> 404,
     INVALID_CREDENTIALS |-> 401, ACCOUNT_HAS_NO_PASSWORD |-> 401,
     REFRESH_TOKEN_INVALID |-> 401, REFRESH_TOKEN_EXPIRED |-> 401,
     REFRESH_TOKEN_REUSE_DETECTED |-> 401, ACCESS_TOKEN_INVALID |-> 401,
     ACCESS_TOKEN_EXPIRED |-> 401, GOOGLE_OAUTH_FAILED |-> 401,
     EMAIL_NOT_VERIFIED |-> 403, EMAIL_VERIFICATION_TOKEN_INVALID |-> 400,
     EMAIL_VERIFICATION_TOKEN_EXPIRED |-> 400,
     ACCOUNT_QUOTA_EXCEEDED |-> 429, CAPTCHA_FAILED |-> 400]

Groups == {DidStatus, GeneralStatus, VcStatus, DelegationStatus, LocalStatus,
           VpStatus, AgentStatus, PreparedStatus, AccountStatus}
ClassStatus ==
    [c \in UNION {DOMAIN g : g \in Groups} |-> (CHOOSE g \in Groups : c \in DOMAIN g)[c]]

\* codes.py: the code of every class, and four that no class has.
Codes == DOMAIN ClassStatus \cup
    {"STATUS_LIST_NOT_FOUND", "ISSUER_SIGNING_KEY_MISMATCH",
     "DELEGATION_DEPTH_EXCEEDED", "DELEGATION_SCOPE_ESCALATION"}

-----------------------------------------------------------------------------
\* Two wire codes of older servers map to the canonical classes.
Alias == [DELEGATION_DEPTH_EXCEEDED   |-> "MAX_DELEGATION_DEPTH_EXCEEDED",
          DELEGATION_SCOPE_ESCALATION |-> "SCOPE_ESCALATION_DENIED"]

\* The classes that _CODE_TO_ERROR lacks: those which the client raises, those
\* of the accounts, and many that the API may answer with.
Unmapped ==
    DOMAIN LocalStatus \cup DOMAIN AccountStatus \cup
    {"INTERNAL_ERROR", "ADMIN_AUTH_REQUIRED", "INVALID_PUBLIC_KEY",
     "INVALID_DID_FORMAT", "DID_METHOD_NOT_AVAILABLE", "UNSUPPORTED_DID_METHOD",
     "INVALID_SERVICE_ENDPOINT_URL", "SERVICE_ENDPOINT_NOT_FOUND",
     "SERVICE_ENDPOINT_ALREADY_EXISTS", "HEDERA_ANCHOR_FAILED",
     "HEDERA_RESOLUTION_FAILED", "VC_NOT_FOUND", "VC_ALREADY_REVOKED",
     "VC_SUBJECT_DID_NOT_FOUND", "VC_INVALID_PRIVILEGE_SCOPE",
     "STATUS_LIST_INDEX_EXHAUSTED", "VC_ISSUER_NOT_FOUND", "VP_NOT_FOUND",
     "VP_ALREADY_CONSUMED", "VP_AGENT_DID_NOT_FOUND", "VP_NO_ACTIVE_VC",
     "VP_MULTIPLE_ACTIVE_VC", "JWT_INVALID", "JWT_EXPIRED",
     "JWT_PUBLIC_KEY_NOT_FOUND"}

\* Mutant: without the two of older servers.
CodeToError_NoAlias == [c \in DOMAIN ClassStatus \ Unmapped |-> c]

\* _CODE_TO_ERROR: from a wire code to the class of its exception.
CodeToError ==
    [c \in DOMAIN Alias \cup (DOMAIN ClassStatus \ Unmapped) |->
       IF c \in DOMAIN Alias THEN Alias[c] ELSE c]

\* The exception of a class of the taxonomy.
Raise(class) == [class |-> class, code |-> class, status |-> ClassStatus[class]]

\* The exception for an answer that is not ok: its error code, None when the
\* body has none, and the answer's own status. A class of the table comes with
\* the status of the class, whatever the answer's was.
MapApiError(code, status, None) ==
    IF code = None THEN Raise("INTERNAL_ERROR")
    ELSE IF code \in DOMAIN CodeToError THEN Raise(CodeToError[code])
    ELSE [class |-> Base, code |-> code, status |-> status]
=============================================================================
