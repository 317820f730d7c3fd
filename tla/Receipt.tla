------------------------------- MODULE Receipt -------------------------------
(***************************************************************************)
(* `flopbench receipt prepare`, `create` and `verify` (cli.py,             *)
(* receipt/service.py, receipt/models.py, receipt/codec.py) over three     *)
(* files: the export, the signing request and the receipt.                 *)
(*                                                                         *)
(* The files, the signer and the user are external.  Between any two       *)
(* readings each file is replaced by whatever its user likes; a signer     *)
(* signs the bytes of whatever request there is.  A digest stands for the  *)
(* document it is the digest of, a key for the DID that encodes it, and a  *)
(* signature is known by its key and the bytes it is for.                  *)
(***************************************************************************)
EXTENDS Naturals

CONSTANTS
  Documents,     \* the documents of exports
  SchemaOf,      \* the schema of the report in each
  Keys,          \* the keys of the signers
  MaxMeddling,   \* how often the signers and the user of the files act
  None           \* no file, no document, no signature

Schemas == {"readiness", "benchmark"}   \* ReceiptReportSchema

ASSUME SchemaAssumption   == SchemaOf \in [Documents -> Schemas \cup {"other"}]
ASSUME KeyAssumption      == "malformed" \notin Keys
ASSUME MeddlingAssumption == MaxMeddling \in Nat

VARIABLES
  export,    \* the file of the export
  request,   \* the file of the signing request
  receipt,   \* the file of the receipt
  signed,    \* the signatures that exist
  meddled,   \* how often the signers and the user have acted
  command,   \* the command that runs
  loaded,    \* the document it has loaded
  prepared,  \* the request or the receipt it is about to write
  verified   \* whom and what verify has accepted

receiptVars ==
  <<export, request, receipt, signed, meddled, command, loaded, prepared, verified>>

papers == <<export, request, receipt>>
others == <<signed, meddled>>

Dids == Keys \cup {"malformed"}

\* ReceiptSigningPayload; signed_at, which is signed too, is left out.
Payload   == [schema : Schemas, digest : Documents, did : Dids]
Signature == [key : Keys, bytes : Payload]

\* An export whose digest is not that of its document is refused.
Export  == [document : Documents, digest : Documents]
\* The bytes of payload_base64url, with payload_sha256, claim to be the payload.
Request == [payload : Payload, bytes : Payload]
Receipts == [payload : Payload, signature : Signature \cup {None}, created : BOOLEAN]

ASSUME NoneAssumption ==
  None \notin Documents \cup Signature \cup Request \cup Receipts

ReceiptInit ==
  /\ export \in Export
  /\ request = None /\ receipt = None
  /\ signed = {} /\ meddled = 0
  /\ command = "idle" /\ loaded = None /\ prepared = None
  /\ verified = {}
-----------------------------------------------------------------------------
(* What a file may be refused for *)

\* load_export(): digest_matches_document.
ExportLoads == export.digest = export.document

\* payload_matches_claims, and the DID decodes to a key.
RequestLoads ==
  /\ request # None
  /\ request.bytes = request.payload
  /\ request.payload.did \in Keys

\* load_receipt(): the DID and the signature decode.
ReceiptLoads ==
  /\ receipt # None
  /\ receipt.payload.did \in Keys
  /\ receipt.signature # None

\* verify_detached(): Ed25519 accepts what the holder of the key has signed.
Accepts(did, bytes, signature) ==
  /\ did \in Keys
  /\ signature \in signed
  /\ signature.key = did /\ signature.bytes = bytes

Idle == command' = "idle" /\ loaded' = None /\ prepared' = None
Fails == Idle /\ UNCHANGED <<papers, others, verified>>
-----------------------------------------------------------------------------
(* receipt prepare *)

PreparedFor(document, did) ==
  LET payload == [schema |-> SchemaOf[document], digest |-> document, did |-> did]
  IN  [payload |-> payload, bytes |-> payload]

\* load_export() and prepare_receipt()
Prepare(did) ==
  /\ command = "idle"
  /\ ExportLoads /\ SchemaOf[export.document] \in Schemas /\ did \in Keys
  /\ command' = "prepare"
  /\ prepared' = PreparedFor(export.document, did)
  /\ UNCHANGED <<papers, others, loaded, verified>>

\* write_new_file() never replaces what is there.
WriteRequest ==
  /\ command = "prepare" /\ request = None
  /\ request' = prepared
  /\ Idle
  /\ UNCHANGED <<export, receipt, others, verified>>

(* receipt create *)

Assembled(signature) ==
  [payload |-> request.payload, signature |-> signature, created |-> TRUE]

\* Mutant: the signature is taken for what it is given as.
CreateUnverified(signature) ==
  /\ command = "idle"
  /\ RequestLoads
  /\ command' = "create" /\ prepared' = Assembled(signature)
  /\ UNCHANGED <<papers, others, loaded, verified>>

\* load_signing_request() and create_receipt()
Create(signature) ==
  /\ command = "idle"
  /\ RequestLoads
  /\ Accepts(request.payload.did, request.payload, signature)
  /\ command' = "create" /\ prepared' = Assembled(signature)
  /\ UNCHANGED <<papers, others, loaded, verified>>

WriteReceipt ==
  /\ command = "create" /\ receipt = None
  /\ receipt' = prepared
  /\ Idle
  /\ UNCHANGED <<export, request, others, verified>>

(* A write that finds the file there, or that the file system refuses *)
WriteFails == command \in {"prepare", "create"} /\ Fails

(* receipt verify *)

VerifyExport ==
  /\ command = "idle"
  /\ ExportLoads
  /\ command' = "verify" /\ loaded' = export.document
  /\ UNCHANGED <<papers, others, prepared, verified>>

\* The payload verify makes of the receipt.
Claims == [schema |-> receipt.payload.schema, digest |-> receipt.payload.digest,
           did |-> receipt.payload.did]

Verdict(bound) ==
  /\ command = "verify" /\ ReceiptLoads
  /\ bound
  /\ Accepts(receipt.payload.did, Claims, receipt.signature)
  /\ verified' = verified \cup {<<receipt.payload.did, loaded>>}
  /\ Idle
  /\ UNCHANGED <<papers, others>>

\* Mutant: the receipt's digest is not compared with the export's.
VerifySchemaOnly == Verdict(receipt.payload.schema = SchemaOf[loaded])

\* load_receipt() and verify_receipt(): the export is the one loaded before.
VerifyReceipt ==
  Verdict(/\ receipt.payload.schema = SchemaOf[loaded]
          /\ receipt.payload.digest = loaded)

\* Any of the checks fails: exit status 2.
VerifyFails == command = "verify" /\ Fails
-----------------------------------------------------------------------------
(* The signers and the user of the files *)

Meddle == meddled < MaxMeddling /\ meddled' = meddled + 1

\* A signer signs the bytes that the request carries, whatever it claims.
Sign(key) ==
  /\ Meddle /\ request # None
  /\ signed' = signed \cup {[key |-> key, bytes |-> request.bytes]}
  /\ UNCHANGED <<papers, command, loaded, prepared, verified>>

ReplaceExport ==
  /\ Meddle
  /\ export' \in Export
  /\ UNCHANGED <<request, receipt, signed, command, loaded, prepared, verified>>

\* Removed, or replaced by one whose bytes are about another document.
ReplaceRequest ==
  /\ Meddle
  /\ \/ request' = None
     \/ \E p \in Payload, d \in Documents :
          request' = [payload |-> p, bytes |-> [p EXCEPT !.digest = d]]
  /\ UNCHANGED <<export, receipt, signed, command, loaded, prepared, verified>>

\* Removed, or put together from any claims and any signature there is.
ReplaceReceipt ==
  /\ Meddle
  /\ \/ receipt' = None
     \/ \E p \in Payload, s \in signed \cup {None} :
          receipt' = [payload |-> p, signature |-> s, created |-> FALSE]
  /\ UNCHANGED <<export, request, signed, command, loaded, prepared, verified>>

ReceiptNext ==
  \/ \E did \in Dids : Prepare(did)
  \/ \E signature \in signed \cup {None} : Create(signature)
  \/ WriteRequest \/ WriteReceipt \/ WriteFails
  \/ VerifyExport \/ VerifyReceipt \/ VerifyFails
  \/ \E key \in Keys : Sign(key)
  \/ ReplaceExport \/ ReplaceRequest \/ ReplaceReceipt

ReceiptSpec == ReceiptInit /\ [][ReceiptNext]_receiptVars
-----------------------------------------------------------------------------
ReceiptTypeOK ==
  /\ export \in Export
  /\ request \in Request \cup {None}
  /\ receipt \in Receipts \cup {None}
  /\ signed \subseteq Signature /\ meddled \in 0..MaxMeddling
  /\ command \in {"idle", "prepare", "create", "verify"}
  /\ loaded \in Documents \cup {None}
  /\ prepared \in Request \cup Receipts \cup {None}
  /\ verified \subseteq Keys \X Documents

\* A receipt that create wrote carries a signature of its own claims by its
\* own key, however the files were replaced meanwhile (receipt/service.py:89-103).
CreatedReceiptIsSigned ==
  receipt # None /\ receipt.created =>
    Accepts(receipt.payload.did, receipt.payload, receipt.signature)

\* What verify accepted was signed, by that key and for that document.
Promise == INSTANCE SignedReports WITH
  signed   <- {<<s.key, s.bytes.digest>> : s \in signed},
  verified <- verified

VerifiedWasSigned == Promise!Spec
=============================================================================
