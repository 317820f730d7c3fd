-------------------------- MODULE FileCommandsProofs --------------------------
(* The commands that work on files, for any files, any bounds and however      *)
(* often somebody else replaces what they work on.  Receipts implement         *)
(* SignedReports; a release that is verified is whole and of one run; a diff   *)
(* lists the first differences and a comparison is sound; what a public file   *)
(* holds was shown.                                                            *)
EXTENDS FileCommands, WellFoundedInduction, TLAPS

\* A behaviour of the commands is one of each of them: those whose turn it is
\* not stand still.
LEMMA OneAtATime ==
  /\ Init => ReceiptInit /\ ReleaseInit /\ StoreInit
  /\ [Next]_fileVars =>
       [ReceiptNext]_receiptVars /\ [ReleaseNext]_releaseVars /\ [StoreNext]_storeVars
  BY DEF Init, Next, fileVars

LEMMA ReceiptsAreThemselves == Spec => ReceiptSpec
  BY OneAtATime, PTL DEF Spec, ReceiptSpec
-----------------------------------------------------------------------------
(* Receipts *)

\* What a command holds between its reading and its writing.
Held ==
  /\ command = "prepare" => prepared \in Request
  /\ command = "create" =>
       /\ prepared \in Receipts /\ prepared.created
       /\ Accepts(prepared.payload.did, prepared.payload, prepared.signature)
  /\ command = "verify" => loaded \in Documents

ReceiptInv == ReceiptTypeOK /\ Held /\ CreatedReceiptIsSigned

\* The claims of a file and its payload are made of the same three parts.
LEMMA PayloadParts ==
  ASSUME NEW p \in Payload
  PROVE  /\ p.schema \in Schemas /\ p.digest \in Documents /\ p.did \in Dids
         /\ [schema |-> p.schema, digest |-> p.digest, did |-> p.did] = p
         /\ \A d \in Documents : [p EXCEPT !.digest = d] \in Payload
  BY DEF Payload

LEMMA ReceiptParts ==
  ASSUME NEW r \in Receipts
  PROVE  r.payload \in Payload /\ r.signature \in Signature \cup {None} /\ r.created \in BOOLEAN
  BY DEF Receipts

\* A receipt that was accepted stays so: signatures are only added.
LEMMA AcceptedStays ==
  ASSUME NEW did, NEW bytes, NEW signature, Accepts(did, bytes, signature),
         signed \subseteq signed'
  PROVE  Accepts(did, bytes, signature)'
  BY DEF Accepts

LEMMA ReceiptInvInit == ReceiptInit => ReceiptInv
<1> SUFFICES ASSUME ReceiptInit PROVE ReceiptInv
  OBVIOUS
<1> USE DEF ReceiptInit
<1>1. ReceiptTypeOK
  BY MeddlingAssumption DEF ReceiptTypeOK
<1> QED
  BY <1>1 DEF ReceiptInv, Held, CreatedReceiptIsSigned

\* A step that leaves receipts and what is held alone keeps what they carry.
LEMMA SignedStays ==
  ASSUME ReceiptInv, UNCHANGED <<receipt, command, prepared, loaded>>, signed \subseteq signed'
  PROVE  Held' /\ CreatedReceiptIsSigned'
  BY DEF ReceiptInv, Held, CreatedReceiptIsSigned, Accepts

\* So does one that gives up or has done what it held.
LEMMA IdleHolds ==
  ASSUME ReceiptInv, Idle, UNCHANGED <<receipt, signed>>
  PROVE  Held' /\ CreatedReceiptIsSigned'
  BY DEF ReceiptInv, Held, CreatedReceiptIsSigned, Accepts, Idle

LEMMA PrepareStep ==
  ASSUME ReceiptInv, NEW did \in Dids, Prepare(did)
  PROVE  ReceiptInv'
<1> USE DEF Prepare, papers, others
<1>1. SchemaOf[export.document] \in Schemas /\ export.document \in Documents /\ did \in Keys
  BY DEF ReceiptInv, ReceiptTypeOK, Export
<1>2. PreparedFor(export.document, did) \in Request
  BY <1>1 DEF PreparedFor, Request, Payload, Dids
<1>3. ReceiptTypeOK'
  BY <1>2 DEF ReceiptInv, ReceiptTypeOK
<1>4. Held'
  BY <1>2 DEF Held
<1>5. CreatedReceiptIsSigned'
  BY DEF ReceiptInv, CreatedReceiptIsSigned, Accepts
<1> QED
  BY <1>3, <1>4, <1>5 DEF ReceiptInv

LEMMA CreateStep ==
  ASSUME ReceiptInv, NEW signature \in signed \cup {None}, Create(signature)
  PROVE  ReceiptInv'
<1> USE DEF Create, papers, others
<1>1. request \in Request
  BY DEF ReceiptInv, ReceiptTypeOK, RequestLoads
<1>2. signature \in Signature
  BY DEF ReceiptInv, ReceiptTypeOK, Accepts
<1>3. /\ Assembled(signature) \in Receipts
      /\ Assembled(signature).created
      /\ Assembled(signature).payload = request.payload
      /\ Assembled(signature).signature = signature
  BY <1>1, <1>2 DEF Assembled, Receipts, Request
<1>4. ReceiptTypeOK'
  BY <1>3 DEF ReceiptInv, ReceiptTypeOK
<1>5. Held'
  BY <1>3 DEF Held, Accepts
<1>6. CreatedReceiptIsSigned'
  BY DEF ReceiptInv, CreatedReceiptIsSigned, Accepts
<1> QED
  BY <1>4, <1>5, <1>6 DEF ReceiptInv

LEMMA WriteReceiptStep ==
  ASSUME ReceiptInv, WriteReceipt
  PROVE  ReceiptInv'
<1> USE DEF WriteReceipt, Idle, others
<1>1. ReceiptTypeOK'
  BY DEF ReceiptInv, ReceiptTypeOK, Held
<1>2. Held'
  BY DEF Held
<1>3. CreatedReceiptIsSigned'
  BY DEF ReceiptInv, Held, CreatedReceiptIsSigned, Accepts
<1> QED
  BY <1>1, <1>2, <1>3 DEF ReceiptInv

LEMMA VerifyReceiptStep ==
  ASSUME ReceiptInv, VerifyReceipt
  PROVE  ReceiptInv'
<1> USE DEF VerifyReceipt, Verdict, papers, others
<1>1. receipt.payload.did \in Keys /\ loaded \in Documents
  BY DEF Accepts, ReceiptInv, Held
<1>2. ReceiptTypeOK'
  BY <1>1 DEF ReceiptInv, ReceiptTypeOK, Idle
<1> QED
  BY <1>2, IdleHolds DEF ReceiptInv

LEMMA SignStep ==
  ASSUME ReceiptInv, NEW key \in Keys, Sign(key)
  PROVE  ReceiptInv' /\ request \in Request
<1> USE DEF Sign, Meddle, papers
<1>1. request \in Request
  BY DEF ReceiptInv, ReceiptTypeOK
<1>2. [key |-> key, bytes |-> request.bytes] \in Signature
  BY <1>1 DEF Signature, Request
<1>3. ReceiptTypeOK'
  BY <1>2, MeddlingAssumption DEF ReceiptInv, ReceiptTypeOK
<1> QED
  BY <1>1, <1>3, SignedStays DEF ReceiptInv

LEMMA ReplaceRequestStep ==
  ASSUME ReceiptInv, ReplaceRequest
  PROVE  ReceiptInv'
<1> USE DEF ReplaceRequest, Meddle
<1>1. request' \in Request \cup {None}
  <2>1. ASSUME NEW p \in Payload, NEW d \in Documents,
               request' = [payload |-> p, bytes |-> [p EXCEPT !.digest = d]]
        PROVE  request' \in Request
    <3>1. [p EXCEPT !.digest = d] \in Payload
      BY PayloadParts
    <3> QED
      BY <2>1, <3>1 DEF Request
  <2> QED
    BY <2>1
<1>2. ReceiptTypeOK'
  BY <1>1, MeddlingAssumption DEF ReceiptInv, ReceiptTypeOK
<1> QED
  BY <1>2, SignedStays DEF ReceiptInv

LEMMA ReplaceReceiptStep ==
  ASSUME ReceiptInv, ReplaceReceipt
  PROVE  ReceiptInv'
<1> USE DEF ReplaceReceipt, Meddle
<1>1. CASE receipt' = None
  <2>1. ReceiptTypeOK'
    BY <1>1, MeddlingAssumption DEF ReceiptInv, ReceiptTypeOK
  <2> QED
    BY <1>1, <2>1 DEF ReceiptInv, Held, CreatedReceiptIsSigned, Accepts
<1>2. ASSUME NEW p \in Payload, NEW s \in signed \cup {None},
             receipt' = [payload |-> p, signature |-> s, created |-> FALSE]
      PROVE  ReceiptInv'
  <2>1. receipt' \in Receipts /\ ~receipt'.created
    BY <1>2 DEF ReceiptInv, ReceiptTypeOK, Receipts
  <2>2. ReceiptTypeOK'
    BY <2>1, MeddlingAssumption DEF ReceiptInv, ReceiptTypeOK
  <2> QED
    BY <2>1, <2>2 DEF ReceiptInv, Held, CreatedReceiptIsSigned, Accepts
<1> QED
  BY <1>1, <1>2

LEMMA ReceiptInvStep == ReceiptInv /\ [ReceiptNext]_receiptVars => ReceiptInv'
<1> SUFFICES ASSUME ReceiptInv, [ReceiptNext]_receiptVars PROVE ReceiptInv'
  OBVIOUS
<1>1. ASSUME WriteRequest PROVE ReceiptInv'
  <2>1. ReceiptTypeOK'
    BY <1>1 DEF WriteRequest, Idle, others, ReceiptInv, ReceiptTypeOK, Held
  <2> QED
    BY <1>1, <2>1, IdleHolds DEF WriteRequest, others, ReceiptInv
<1>2. ASSUME WriteFails \/ VerifyFails PROVE ReceiptInv'
  <2>1. ReceiptTypeOK'
    BY <1>2 DEF WriteFails, VerifyFails, Fails, Idle, papers, others, ReceiptInv, ReceiptTypeOK
  <2> QED
    BY <1>2, <2>1, IdleHolds DEF WriteFails, VerifyFails, Fails, papers, others, ReceiptInv
<1>3. ASSUME VerifyExport PROVE ReceiptInv'
  <2>1. ReceiptTypeOK' /\ loaded' \in Documents
    BY <1>3 DEF VerifyExport, papers, others, ReceiptInv, ReceiptTypeOK, Export
  <2> QED
    BY <1>3, <2>1
    DEF VerifyExport, papers, others, ReceiptInv, Held, CreatedReceiptIsSigned, Accepts
<1>4. ASSUME ReplaceExport PROVE ReceiptInv'
  <2>1. ReceiptTypeOK'
    BY <1>4, MeddlingAssumption DEF ReplaceExport, Meddle, ReceiptInv, ReceiptTypeOK
  <2> QED
    BY <1>4, <2>1, SignedStays DEF ReplaceExport, ReceiptInv
<1>5. ASSUME UNCHANGED receiptVars PROVE ReceiptInv'
  BY <1>5 DEF receiptVars, ReceiptInv, ReceiptTypeOK, Held, CreatedReceiptIsSigned, Accepts
<1>6. ASSUME NEW did \in Dids, Prepare(did) PROVE ReceiptInv'
  BY <1>6, PrepareStep
<1>7. ASSUME NEW signature \in signed \cup {None}, Create(signature) PROVE ReceiptInv'
  BY <1>7, CreateStep
<1>8. ASSUME NEW key \in Keys, Sign(key) PROVE ReceiptInv'
  BY <1>8, SignStep
<1>9. ASSUME WriteReceipt \/ VerifyReceipt \/ ReplaceRequest \/ ReplaceReceipt PROVE ReceiptInv'
  BY <1>9, WriteReceiptStep, VerifyReceiptStep, ReplaceRequestStep, ReplaceReceiptStep
<1> QED
  BY <1>1, <1>2, <1>3, <1>4, <1>5, <1>6, <1>7, <1>8, <1>9 DEF ReceiptNext
-----------------------------------------------------------------------------
\* Every variable keeps its type.
THEOREM ReceiptTypesCorrect == Spec => []ReceiptTypeOK
<1>1. ReceiptInv => ReceiptTypeOK
  BY DEF ReceiptInv
<1> QED
  BY ReceiptsAreThemselves, ReceiptInvInit, ReceiptInvStep, <1>1, PTL DEF ReceiptSpec

\* A receipt that create wrote carries a signature of its claims by its key.
THEOREM CreatedIsSigned == Spec => []CreatedReceiptIsSigned
<1>1. ReceiptInv => CreatedReceiptIsSigned
  BY DEF ReceiptInv
<1> QED
  BY ReceiptsAreThemselves, ReceiptInvInit, ReceiptInvStep, <1>1, PTL DEF ReceiptSpec

\* The statements that have been signed, as SignedReports sees them.
Statements == {<<s.key, s.bytes.digest>> : s \in signed}

\* Every step of receipts is one of SignedReports or leaves it alone.
LEMMA PromiseStep ==
  ASSUME ReceiptInv, [ReceiptNext]_receiptVars
  PROVE  [Promise!Next]_<<Statements, verified>>
<1> SUFFICES Promise!Next \/ UNCHANGED <<Statements, verified>>
  OBVIOUS
<1>1. ASSUME NEW key \in Keys, Sign(key) PROVE Promise!Next
  <2> DEFINE statement == <<key, request.bytes.digest>>
  <2>1. request \in Request
    BY <1>1, SignStep
  <2>2. statement \in Keys \X Documents
    BY <2>1 DEF Request, Payload
  <2> DEFINE new == [key |-> key, bytes |-> request.bytes]
  <2>3. Statements' = Statements \cup {statement}
    <3>1. signed' = signed \cup {new} /\ statement = <<new.key, new.bytes.digest>>
      BY <1>1 DEF Sign
    <3>2. Statements' = {<<s.key, s.bytes.digest>> : s \in signed \cup {new}}
      BY <3>1 DEF Statements
    <3> HIDE DEF new, statement
    <3>3. {<<s.key, s.bytes.digest>> : s \in signed \cup {new}}
            = Statements \cup {<<new.key, new.bytes.digest>>}
      BY DEF Statements
    <3> QED
      BY <3>1, <3>2, <3>3
  <2>4. UNCHANGED verified
    BY <1>1 DEF Sign
  <2> QED
    BY <2>2, <2>3, <2>4 DEF Promise!Next, Promise!Sign, Statements
<1>2. ASSUME VerifyReceipt PROVE Promise!Next
  <2> DEFINE statement == <<receipt.payload.did, loaded>>
  <2>1. /\ receipt.signature \in signed
        /\ receipt.signature.key = receipt.payload.did
        /\ receipt.signature.bytes = Claims
        /\ receipt.payload.digest = loaded
    BY <1>2 DEF VerifyReceipt, Verdict, Accepts
  <2>2. receipt.signature.bytes.digest = loaded
    BY <2>1 DEF Claims
  <2>3. statement \in Statements
    BY <2>1, <2>2 DEF Statements
  <2>4. verified' = verified \cup {statement}
    BY <1>2 DEF VerifyReceipt, Verdict
  <2>5. UNCHANGED Statements
    BY <1>2 DEF VerifyReceipt, Verdict, others, Statements
  <2> QED
    BY <2>3, <2>4, <2>5 DEF Promise!Next, Promise!Verify, Statements
<1>3. ASSUME UNCHANGED <<signed, verified>> PROVE UNCHANGED <<Statements, verified>>
  BY <1>3 DEF Statements
<1> QED
  BY <1>1, <1>2, <1>3
  DEF ReceiptNext, Prepare, Create, WriteRequest, WriteReceipt, WriteFails, VerifyExport,
      VerifyFails, Fails, ReplaceExport, ReplaceRequest, ReplaceReceipt, others, receiptVars

\* What verify accepted was signed by that key for that very document.
THEOREM VerifiedImpliesSigned == Spec => VerifiedWasSigned
<1>1. ReceiptInit => Promise!Init
  BY DEF ReceiptInit, Promise!Init
<1>2. ReceiptInv /\ [ReceiptNext]_receiptVars => [Promise!Next]_<<Statements, verified>>
  BY PromiseStep
<1>3. ReceiptSpec => []ReceiptInv
  BY ReceiptInvInit, ReceiptInvStep, PTL DEF ReceiptSpec
<1> QED
  BY ReceiptsAreThemselves, <1>1, <1>2, <1>3, PTL
  DEF ReceiptSpec, VerifiedWasSigned, Promise!Spec, Statements
-----------------------------------------------------------------------------
(* The output path of report export *)

\* A command past the gate writes what was confirmed, and that was shown.
Gate ==
  \A c \in Exporters :
    /\ asked[c].confirm \in seen \cup {0}
    /\ at[c] \notin {"idle", "load"} => read[c] \in Versions
    /\ at[c] \in {"mkdir", "open"} \cup Writing => Confirmed(c)

StoreInv == StoreTypeOK /\ Gate /\ PublicWasPreviewed /\ NoPartialLeft
-----------------------------------------------------------------------------
\* No file, and somebody's file, are files.
LEMMA AbsentTypes == Absent \in File /\ [Absent EXCEPT !.owner = "user"] \in File
<1>1. 0 \in 0..MaxVersion
  BY VersionAssumption
<1>2. Absent \in File
  BY <1>1 DEF Absent, File
<1> QED
  BY <1>2 DEF File

\* What a command makes is a file, and what it leaves behind is one.
LEMMA FileTypes ==
  ASSUME StoreTypeOK, NEW c \in Exporters, NEW s \in {"partial", "abandoned", "whole"}
  PROVE  /\ Own(c, s) \in File
         /\ [file EXCEPT !.state = s] \in File
         /\ Absent \in File /\ [Absent EXCEPT !.owner = "user"] \in File
<1>1. asked[c] \in Job /\ read[c] \in 0..MaxVersion
  BY DEF StoreTypeOK
<1>2. Own(c, s) \in File
  BY <1>1 DEF Own, File, Job
<1>3. [file EXCEPT !.state = s] \in File
  BY DEF StoreTypeOK, File
<1> QED
  BY <1>2, <1>3, AbsentTypes

LEMMA StoreInvInit == StoreInit => StoreInv
<1> SUFFICES ASSUME StoreInit PROVE StoreInv
  OBVIOUS
<1>1. file \in File
  BY AbsentTypes DEF StoreInit
<1>2. StoreTypeOK
  BY <1>1, VersionAssumption DEF StoreInit, StoreTypeOK, Job, Running, Writing, Versions
<1>3. Gate
  BY DEF StoreInit, Gate, Writing
<1>4. PublicWasPreviewed /\ NoPartialLeft
  BY ExporterAssumption DEF StoreInit, Absent, PublicWasPreviewed, NoPartialLeft
<1> QED
  BY <1>2, <1>3, <1>4 DEF StoreInv

\* Types, step by step.
LEMMA StoreTypeStep ==
  ASSUME StoreTypeOK, Gate, [StoreNext]_storeVars
  PROVE  StoreTypeOK'
<1> USE VersionAssumption, ExporterAssumption DEF StoreTypeOK, Running, Writing, Versions
<1>1. ASSUME NEW c \in Exporters, BeginExport(c) PROVE StoreTypeOK'
  <2>1. PICK p, o \in BOOLEAN, d \in seen \cup {0} :
           asked' = [asked EXCEPT ![c] = [public |-> p, output |-> o, confirm |-> d]]
    BY <1>1 DEF BeginExport
  <2>2. [public |-> p, output |-> o, confirm |-> d] \in Job
    BY DEF Job
  <2> QED
    BY <1>1, <2>1, <2>2 DEF BeginExport, Step
<1>2. ASSUME NEW c \in Exporters, Load(c) PROVE StoreTypeOK'
  BY <1>2 DEF Load, Move, Step
<1>3. ASSUME NEW c \in Exporters, LoadRefused(c) PROVE StoreTypeOK'
  BY <1>3 DEF LoadRefused, End, Step
<1>4. ASSUME NEW c \in Exporters, Preview(c) PROVE StoreTypeOK'
  <2>1. read[c] \in Versions
    BY <1>4 DEF Preview, Show, End, Step, Gate
  <2> QED
    BY <1>4, <2>1 DEF Preview, Show, End, Step
<1>5. ASSUME NEW c \in Exporters, PassGate(c) PROVE StoreTypeOK'
  BY <1>5 DEF PassGate, Move, Step
<1>6. ASSUME NEW c \in Exporters, PreviewRequired(c) PROVE StoreTypeOK'
  BY <1>6 DEF PreviewRequired, End, Step
<1>7. ASSUME NEW c \in Exporters, MakeParents(c) PROVE StoreTypeOK'
  BY <1>7 DEF MakeParents, Move, Step
<1>8. ASSUME NEW c \in Exporters, CreateFile(c) PROVE StoreTypeOK'
  <2>1. file' \in File
    BY <1>8, FileTypes DEF CreateFile, Move
  <2> QED
    BY <1>8, <2>1 DEF CreateFile, End, Move, Step
<1>9. ASSUME NEW c \in Exporters, OutputExists(c) PROVE StoreTypeOK'
  BY <1>9 DEF OutputExists, End, Step
<1>10. ASSUME NEW c \in Exporters, OpenFileFails(c) PROVE StoreTypeOK'
  BY <1>10 DEF OpenFileFails, FailAt, Move, Step
<1>11. ASSUME NEW c \in Exporters, Write(c) PROVE StoreTypeOK'
  BY <1>11 DEF Write, Move, Step
<1>12. ASSUME NEW c \in Exporters, WriteFileFails(c) PROVE StoreTypeOK'
  BY <1>12 DEF WriteFileFails, FailAt, Move, Step
<1>13. ASSUME NEW c \in Exporters, Flush(c) PROVE StoreTypeOK'
  <2>1. file' \in File
    BY <1>13, FileTypes DEF Flush, End
  <2> QED
    BY <1>13, <2>1 DEF Flush, End, Move, Step
<1>14. ASSUME NEW c \in Exporters, CleanUp(c) PROVE StoreTypeOK'
  BY <1>14 DEF CleanUp, End, Move, Step
<1>15. ASSUME NEW c \in Exporters, Unlink(c) PROVE StoreTypeOK'
  <2>1. file' \in File
    BY <1>15, FileTypes DEF Unlink, End
  <2> QED
    BY <1>15, <2>1 DEF Unlink, End, Move, Step
<1>16. ASSUME NEW c \in Exporters, UnlinkFails(c) PROVE StoreTypeOK'
  <2>1. file' \in File
    BY <1>16, FileTypes DEF UnlinkFails, Abandon
  <2> QED
    BY <1>16, <2>1 DEF UnlinkFails, End, Move, Step
<1>17. ASSUME NEW c \in Exporters, StopCommand(c) PROVE StoreTypeOK'
  <2>1. file' \in File
    BY <1>17, FileTypes DEF StopCommand, Abandon
  <2> QED
    BY <1>17, <2>1 DEF StopCommand, End, Move, Step
<1>18. ASSUME EditSource PROVE StoreTypeOK'
  BY <1>18 DEF EditSource
<1>19. ASSUME UserTouches PROVE StoreTypeOK'
  <2>1. file' \in File
    BY <1>19, AbsentTypes DEF UserTouches
  <2> QED
    BY <1>19, <2>1 DEF UserTouches
<1>20. ASSUME UNCHANGED storeVars PROVE StoreTypeOK'
  BY <1>20 DEF storeVars
<1> QED
  BY <1>1, <1>2, <1>3, <1>4, <1>5, <1>6, <1>7, <1>8, <1>9, <1>10, <1>11,
     <1>12, <1>13, <1>14, <1>15, <1>16, <1>17, <1>18, <1>19, <1>20
  DEF StoreNext, ExportStep, WriteNewFile

\* The gate and the file, step by step.
LEMMA GateStep ==
  ASSUME StoreInv, [StoreNext]_storeVars
  PROVE  (Gate /\ PublicWasPreviewed /\ NoPartialLeft)'
<1> USE VersionAssumption, ExporterAssumption
<1> USE DEF StoreInv, StoreTypeOK, Gate, PublicWasPreviewed, NoPartialLeft, Confirmed, Running, Writing,
        Versions
<1>1. ASSUME NEW c \in Exporters, BeginExport(c) PROVE (Gate /\ PublicWasPreviewed /\ NoPartialLeft)'
  BY <1>1 DEF BeginExport, Step
<1>2. ASSUME NEW c \in Exporters, Load(c) PROVE (Gate /\ PublicWasPreviewed /\ NoPartialLeft)'
  BY <1>2 DEF Load, Move, Step
<1>3. ASSUME NEW c \in Exporters, LoadRefused(c) PROVE (Gate /\ PublicWasPreviewed /\ NoPartialLeft)'
  BY <1>3 DEF LoadRefused, End, Step
<1>4. ASSUME NEW c \in Exporters, Preview(c) PROVE (Gate /\ PublicWasPreviewed /\ NoPartialLeft)'
  BY <1>4 DEF Preview, Show, End, Step
<1>5. ASSUME NEW c \in Exporters, PassGate(c) PROVE (Gate /\ PublicWasPreviewed /\ NoPartialLeft)'
  BY <1>5 DEF PassGate, Move, Step
<1>6. ASSUME NEW c \in Exporters, PreviewRequired(c) PROVE (Gate /\ PublicWasPreviewed /\ NoPartialLeft)'
  BY <1>6 DEF PreviewRequired, End, Step
<1>7. ASSUME NEW c \in Exporters, MakeParents(c) PROVE (Gate /\ PublicWasPreviewed /\ NoPartialLeft)'
  BY <1>7 DEF MakeParents, Move, Step
<1>8. ASSUME NEW c \in Exporters, CreateFile(c) PROVE (Gate /\ PublicWasPreviewed /\ NoPartialLeft)'
  BY <1>8 DEF CreateFile, Move, Step, Own
<1>9. ASSUME NEW c \in Exporters, OutputExists(c) PROVE (Gate /\ PublicWasPreviewed /\ NoPartialLeft)'
  BY <1>9 DEF OutputExists, End, Step
<1>10. ASSUME NEW c \in Exporters, OpenFileFails(c) PROVE (Gate /\ PublicWasPreviewed /\ NoPartialLeft)'
  BY <1>10 DEF OpenFileFails, FailAt, Move, Step
<1>11. ASSUME NEW c \in Exporters, Write(c) PROVE (Gate /\ PublicWasPreviewed /\ NoPartialLeft)'
  BY <1>11 DEF Write, Move, Step
<1>12. ASSUME NEW c \in Exporters, WriteFileFails(c) PROVE (Gate /\ PublicWasPreviewed /\ NoPartialLeft)'
  BY <1>12 DEF WriteFileFails, FailAt, Move, Step
<1>13. ASSUME NEW c \in Exporters, Flush(c) PROVE (Gate /\ PublicWasPreviewed /\ NoPartialLeft)'
  BY <1>13 DEF Flush, End, Step, Own
<1>14. ASSUME NEW c \in Exporters, CleanUp(c) PROVE (Gate /\ PublicWasPreviewed /\ NoPartialLeft)'
  BY <1>14 DEF CleanUp, End, Move, Step
<1>15. ASSUME NEW c \in Exporters, Unlink(c) PROVE (Gate /\ PublicWasPreviewed /\ NoPartialLeft)'
  BY <1>15 DEF Unlink, End, Step, Absent
<1>16. ASSUME NEW c \in Exporters, UnlinkFails(c) PROVE (Gate /\ PublicWasPreviewed /\ NoPartialLeft)'
  BY <1>16 DEF UnlinkFails, End, Step, Abandon
<1>17. ASSUME NEW c \in Exporters, StopCommand(c) PROVE (Gate /\ PublicWasPreviewed /\ NoPartialLeft)'
  BY <1>17 DEF StopCommand, End, Step, Abandon
<1>18. ASSUME EditSource PROVE (Gate /\ PublicWasPreviewed /\ NoPartialLeft)'
  BY <1>18 DEF EditSource
<1>19. ASSUME UserTouches PROVE (Gate /\ PublicWasPreviewed /\ NoPartialLeft)'
  BY <1>19 DEF UserTouches, Absent
<1>20. ASSUME UNCHANGED storeVars PROVE (Gate /\ PublicWasPreviewed /\ NoPartialLeft)'
  BY <1>20 DEF storeVars
<1> QED
  BY <1>1, <1>2, <1>3, <1>4, <1>5, <1>6, <1>7, <1>8, <1>9, <1>10, <1>11,
     <1>12, <1>13, <1>14, <1>15, <1>16, <1>17, <1>18, <1>19, <1>20
  DEF StoreNext, ExportStep, WriteNewFile

LEMMA StoreInvStep == StoreInv /\ [StoreNext]_storeVars => StoreInv'
  BY StoreTypeStep, GateStep DEF StoreInv

\* For any commands and versions, every step keeps the types.
THEOREM StoreTypesCorrect == Spec => []StoreTypeOK
<1>1. StoreInv => StoreTypeOK
  BY DEF StoreInv
<1> QED
  BY OneAtATime, StoreInvInit, StoreInvStep, <1>1, PTL DEF Spec

\* A public file is one that was previewed, whatever runs beside it.
THEOREM Previewed == Spec => []PublicWasPreviewed
<1>1. StoreInv => PublicWasPreviewed
  BY DEF StoreInv
<1> QED
  BY OneAtATime, StoreInvInit, StoreInvStep, <1>1, PTL DEF Spec

\* A command that fails leaves no part of a file.
THEOREM FailureLeavesNothing == Spec => []NoPartialLeft
<1>1. StoreInv => NoPartialLeft
  BY DEF StoreInv
<1> QED
  BY OneAtATime, StoreInvInit, StoreInvStep, <1>1, PTL DEF Spec
-----------------------------------------------------------------------------
(* The release *)

Artifact == [by : Nat, lock : Nat, whole : BOOLEAN]
Lines    == UNION {[S -> Artifact] : S \in SUBSET Names}
\* The places of finalize() after its inputs were validated.
Finalizing == {"license", "open", "write", "list", "hash", "sums", "lines"}
\* The places of verify_checksums().
Verifying  == {"read", "compare", "rehash"}

ReleaseTypes ==
  /\ lock \in Nat \ {0} /\ policy \in Nat /\ run \in Nat /\ report \in Nat /\ acts \in Nat
  /\ exists \in BOOLEAN /\ session \in BOOLEAN /\ touched \in BOOLEAN
  /\ files \in [Names -> Artifact]
  /\ manifest \in [there : BOOLEAN, by : Nat, lines : Lines]
  /\ pc \in {"idle", "mkdir", "build", "wheel", "audit", "glob"} \cup Finalizing \cup Verifying
  /\ todo \in SUBSET Names /\ lines \in Lines
  /\ exit \in {"none", "refused", "traceback", "stopped", "verified", "finalized"}

\* What a command has in its memory, where it is.
Memory ==
  /\ pc = "idle" => ~session /\ report = 0
  /\ pc # "idle" => run > 0 /\ exit = "none"
  /\ pc \in {"mkdir", "build", "wheel", "audit", "glob", "license"} => report = 0
  /\ pc \in Finalizing \ {"license"} => report # 0
  /\ exit = "none" \/ pc = "idle"

\* The report that a run has opened is not whole before it is written, and
\* nobody else writes in the name of a run.
Unwritten == pc = "write" /\ files["licenses"].by = run => ~files["licenses"].whole

\* What finalize() has validated, as long as nobody else acts.
Validated ==
  /\ files["wheel"] # NoFile /\ files["sdist"] # NoFile
  /\ files["sbom"].whole /\ files["sbom"].lock = lock

\* What one run has made of it when it has written the manifest.
OfOneRun ==
  /\ Validated
  /\ files["licenses"] = Made(run, lock) /\ manifest.by = run

\* Undisturbed, a command has behind it what its place says.
Undisturbed ==
  ~touched =>
    /\ pc \in Finalizing => Validated
    /\ pc \in Finalizing \ {"license"} => report = lock
    /\ pc = "write" => files["licenses"].by = run
    /\ pc \in {"list", "hash", "sums", "lines"} => files["licenses"] = Made(run, lock)
    /\ pc = "lines" => manifest.by = run
    /\ pc \in Verifying /\ (report # 0 \/ session) => OfOneRun
    /\ exit = "finalized" => OfOneRun

\* What verify_checksums() has compared so far.
Compared ==
  ~touched =>
    /\ pc = "compare" => lines = manifest.lines
    /\ pc = "rehash" =>
         /\ DOMAIN manifest.lines = Present
         /\ \A n \in DOMAIN lines : n \in Present /\ lines[n] = manifest.lines[n]
         /\ \A n \in Present \ DOMAIN lines : manifest.lines[n] = files[n]
    /\ exit \in {"verified", "finalized"} =>
         DOMAIN manifest.lines = Present /\ \A n \in Present : manifest.lines[n] = files[n]

ReleaseInv == ReleaseTypes /\ Memory /\ Unwritten /\ Undisturbed /\ Compared

LEMMA NamesAre == Names = {"extra", "sdist", "wheel", "sbom", "licenses"}
  BY DEF Names, Artifacts

LEMMA NoLinesType == NoLines \in Lines /\ DOMAIN NoLines = {}
<1>1. NoLines \in [{} -> Artifact]
  BY DEF NoLines
<1> QED
  BY <1>1 DEF Lines

LEMMA NoFileType == NoFile \in Artifact /\ NoFile.by = 0 /\ ~NoFile.whole
  BY DEF NoFile, Artifact

LEMMA MadeType ==
  ASSUME NEW by \in Nat, NEW version \in Nat
  PROVE  /\ Made(by, version) \in Artifact
         /\ Made(by, version).by = by /\ Made(by, version).lock = version
         /\ Made(by, version).whole
         /\ Made(by, version) # NoFile
<1>1. /\ Made(by, version) \in Artifact
      /\ Made(by, version).by = by /\ Made(by, version).lock = version
      /\ Made(by, version).whole
  BY DEF Made, Artifact
<1>2. Made(by, version) # NoFile
  BY <1>1, NoFileType
<1> QED
  BY <1>1, <1>2

\* The report as write_json_new() opens it.
LEMMA OpenedType ==
  ASSUME NEW by \in Nat
  PROVE  /\ [Made(by, 0) EXCEPT !.whole = FALSE] \in Artifact
         /\ [Made(by, 0) EXCEPT !.whole = FALSE].by = by
         /\ ~[Made(by, 0) EXCEPT !.whole = FALSE].whole
  BY DEF Made, Artifact

LEMMA ReleaseInvInit == ReleaseInit => ReleaseInv
<1> SUFFICES ASSUME ReleaseInit PROVE ReleaseInv
  OBVIOUS
<1> USE DEF ReleaseInit
<1>1. files \in [Names -> Artifact]
  BY NoFileType
<1>2. manifest \in [there : BOOLEAN, by : Nat, lines : Lines]
  BY NoLinesType DEF NoSums
<1>3. ReleaseTypes
  <2>1. lines \in Lines /\ todo \in SUBSET Names
    BY NoLinesType
  <2>2. exists \in BOOLEAN /\ session \in BOOLEAN /\ touched \in BOOLEAN
    OBVIOUS
  <2> QED
    BY <1>1, <1>2, <2>1, <2>2 DEF ReleaseTypes
<1> QED
  BY <1>3 DEF ReleaseInv, Memory, Unwritten, Undisturbed, Compared, Finalizing, Verifying

LEMMA EndsStep ==
  ASSUME ReleaseInv, NEW how \in {"refused", "traceback"}, Ends(how)
  PROVE  ReleaseInv'
<1> USE DEF Ends, inputs, content, outside
<1>1. ReleaseTypes'
  BY NoLinesType DEF ReleaseInv, ReleaseTypes
<1>2. Memory' /\ Unwritten'
  BY DEF Memory, Unwritten, Finalizing
<1>3. Undisturbed' /\ Compared'
  BY DEF Undisturbed, Compared, Finalizing, Verifying
<1> QED
  BY <1>1, <1>2, <1>3 DEF ReleaseInv

LEMMA BeginStep ==
  ASSUME ReleaseInv, StartSession \/ StartFinalize \/ StartVerify
  PROVE  ReleaseInv'
<1>1. PICK nox \in BOOLEAN, here \in {"mkdir", "glob", "read"} :
        Begin(nox, here) /\ (nox <=> here = "mkdir")
  BY DEF StartSession, StartFinalize, StartVerify
<1> USE <1>1 DEF Begin, inputs, content, memory
<1>2. ReleaseTypes'
  <2>1. session' \in BOOLEAN /\ touched' \in BOOLEAN
    OBVIOUS
  <2>2. pc' \in {"idle", "mkdir", "build", "wheel", "audit", "glob"} \cup Finalizing \cup Verifying
    BY DEF Verifying
  <2>3. run' \in Nat
    BY DEF ReleaseInv, ReleaseTypes
  <2> QED
    BY <2>1, <2>2, <2>3 DEF ReleaseInv, ReleaseTypes
<1>3. Memory' /\ Unwritten'
  BY DEF ReleaseInv, ReleaseTypes, Memory, Unwritten, Finalizing
<1>4. Undisturbed' /\ Compared'
  BY DEF ReleaseInv, Memory, Undisturbed, Compared, Finalizing, Verifying
<1> QED
  BY <1>2, <1>3, <1>4 DEF ReleaseInv

\* Mkdir, and the steps of the session that make an artifact.
LEMMA MakingStep ==
  ASSUME ReleaseInv, Mkdir \/ Build \/ Audit
  PROVE  ReleaseInv'
<1> USE DEF Mkdir, Build, Audit, Makes, inputs, memory, outside
<1>1. ReleaseTypes'
  <2>1. Made(run, lock) \in Artifact
    BY MadeType DEF ReleaseInv, ReleaseTypes
  <2> QED
    BY <2>1 DEF ReleaseInv, ReleaseTypes, Finalizing, Verifying
<1>2. Memory' /\ Unwritten'
  BY DEF ReleaseInv, Memory, Unwritten, Finalizing
<1>3. Undisturbed' /\ Compared'
  BY DEF ReleaseInv, Memory, Undisturbed, Compared, Finalizing, Verifying
<1> QED
  BY <1>1, <1>2, <1>3 DEF ReleaseInv

LEMMA ValidateStep ==
  ASSUME ReleaseInv, Validate \/ LicenseReport
  PROVE  ReleaseInv'
<1> USE DEF Validate, ValidatesInputs, LicenseReport, Goes, inputs, content, memory, outside
<1>1. ReleaseTypes'
  BY DEF ReleaseInv, ReleaseTypes, Finalizing, Verifying
<1>2. Memory' /\ Unwritten'
  BY DEF ReleaseInv, ReleaseTypes, Memory, Unwritten, Finalizing
<1>3. Undisturbed' /\ Compared'
  BY DEF ReleaseInv, Memory, Undisturbed, Compared, Validated, Finalizing, Verifying
<1> QED
  BY <1>1, <1>2, <1>3 DEF ReleaseInv

\* What finalize() writes of its report leaves the other artifacts alone.
LEMMA ReportStep ==
  ASSUME ReleaseInv, OpenReport \/ WriteReport
  PROVE  ReleaseInv'
<1> USE DEF OpenReport, Opens, WriteReport, Makes, inputs, memory, outside
<1>0. run \in Nat /\ report \in Nat /\ lock \in Nat /\ files \in [Names -> Artifact]
  BY DEF ReleaseInv, ReleaseTypes
<1>1. PICK f \in Artifact : files' = [files EXCEPT !["licenses"] = f]
  <2>1. files["licenses"] \in Artifact
    BY <1>0, NamesAre
  <2> QED
    BY <1>0, <2>1, MadeType, OpenedType
<1>2. \A n \in Names \ {"licenses"} : files'[n] = files[n]
  BY <1>0, <1>1
<1>3. ReleaseTypes'
  BY <1>0, <1>1 DEF ReleaseInv, ReleaseTypes, Finalizing, Verifying
<1>4. Validated' <=> Validated
  BY <1>2, NamesAre DEF Validated
<1>5. CASE OpenReport
  <2>1. files'["licenses"] = [Made(run, 0) EXCEPT !.whole = FALSE]
    BY <1>0, <1>5, NamesAre
  <2>2. Memory' /\ Unwritten'
    BY <1>0, <1>5, <2>1, OpenedType DEF ReleaseInv, Memory, Unwritten, Finalizing
  <2>3. Undisturbed' /\ Compared'
    BY <1>0, <1>4, <1>5, <2>1, OpenedType
    DEF ReleaseInv, Memory, Undisturbed, Compared, Finalizing, Verifying
  <2> QED
    BY <1>3, <2>2, <2>3 DEF ReleaseInv
<1>6. CASE WriteReport
  <2>1. files["licenses"].by = run => files'["licenses"] = Made(run, report)
    BY <1>0, <1>6, NamesAre
  <2>2. Memory' /\ Unwritten'
    BY <1>6 DEF ReleaseInv, Memory, Unwritten, Finalizing
  <2>3. Undisturbed' /\ Compared'
    BY <1>4, <1>6, <2>1
    DEF ReleaseInv, Memory, Undisturbed, Compared, Finalizing, Verifying
  <2> QED
    BY <1>3, <2>2, <2>3 DEF ReleaseInv
<1> QED
  BY <1>5, <1>6

LEMMA ListStep ==
  ASSUME ReleaseInv, List \/ Hash
  PROVE  ReleaseInv'
<1> USE DEF List, Hash, Goes, inputs, content, memory, outside
<1>1. lines' \in Lines /\ todo' \in SUBSET Names
  <2>1. CASE List
    BY <2>1 DEF ReleaseInv, ReleaseTypes, Present
  <2>2. CASE Hash
    <3>1. PICK S \in SUBSET Names : lines \in [S -> Artifact]
      BY DEF ReleaseInv, ReleaseTypes, Lines
    <3>2. First(todo) \in Names
      BY <2>2 DEF Present
    <3>3. S \cup {First(todo)} \in SUBSET Names /\ files \in [Names -> Artifact]
      BY <3>2 DEF ReleaseInv, ReleaseTypes
    <3>4. lines' \in [S \cup {First(todo)} -> Artifact]
      <4> DEFINE first == First(todo)
      <4>1. lines' = [n \in S \cup {first} |-> IF n \in S THEN lines[n] ELSE files[n]]
        BY <2>2, <3>1
      <4> HIDE DEF first
      <4>2. first \in Names
        BY <3>2 DEF first
      <4>3. lines' \in [S \cup {first} -> Artifact]
        BY <3>1, <3>3, <4>1, <4>2
      <4> QED
        BY <4>3 DEF first
    <3>5. lines' \in Lines
      BY <3>3, <3>4 DEF Lines
    <3> QED
      BY <2>2, <3>5 DEF ReleaseInv, ReleaseTypes
  <2> QED
    BY <2>1, <2>2
<1> DEFINE going == pc' \in {"hash", "sums"} /\ pc \in {"list", "hash"}
<1>2. /\ going /\ UNCHANGED <<inputs, content, session, run, report, outside, exit>>
  BY DEF First
<1> HIDE DEF List, Hash, Goes, First
<1>3. ReleaseTypes'
  BY <1>1, <1>2 DEF ReleaseInv, ReleaseTypes, Finalizing, Verifying
<1>4. Memory' /\ Unwritten'
  BY <1>2 DEF ReleaseInv, Memory, Unwritten, Finalizing
<1>5. Undisturbed' /\ Compared'
  BY <1>2 DEF ReleaseInv, Memory, Undisturbed, Validated, Compared, Finalizing, Verifying
<1> QED
  BY <1>3, <1>4, <1>5 DEF ReleaseInv

LEMMA SumsStep ==
  ASSUME ReleaseInv, OpenSums \/ WriteSums
  PROVE  ReleaseInv'
<1> USE DEF OpenSums, WriteSums, Sums, inputs, memory, outside
<1>0. /\ lines \in Lines /\ NoLines \in Lines /\ run \in Nat
      /\ manifest \in [there : BOOLEAN, by : Nat, lines : Lines]
  BY NoLinesType DEF ReleaseInv, ReleaseTypes
<1>1. manifest' \in [there : BOOLEAN, by : Nat, lines : Lines] /\ lines' \in Lines
  <2>1. CASE OpenSums
    BY <1>0, <2>1
  <2>2. CASE WriteSums
    <3>1. [manifest EXCEPT !.lines = lines] \in [there : BOOLEAN, by : Nat, lines : Lines]
      BY <1>0
    <3> QED
      BY <1>0, <2>2, <3>1
  <2> QED
    BY <2>1, <2>2
<1>2. ReleaseTypes'
  BY <1>1 DEF ReleaseInv, ReleaseTypes, Finalizing, Verifying
<1>3. Memory' /\ Unwritten'
  BY DEF ReleaseInv, Memory, Unwritten, Finalizing
<1>4. manifest'.by = IF pc = "sums" THEN run ELSE manifest.by
  BY DEF ReleaseInv, ReleaseTypes
<1>5. Undisturbed' /\ Compared'
  BY <1>4 DEF ReleaseInv, Memory, Undisturbed, Validated, OfOneRun, Compared, Finalizing, Verifying
<1> QED
  BY <1>2, <1>3, <1>5 DEF ReleaseInv

LEMMA VerifyStep ==
  ASSUME ReleaseInv, ReadSums \/ Covers
  PROVE  ReleaseInv'
<1> USE DEF ReadSums, Covers, Compares, Goes, inputs, content, memory, outside
<1>1. ReleaseTypes'
  BY DEF ReleaseInv, ReleaseTypes, Finalizing, Verifying
<1>2. Memory' /\ Unwritten'
  BY DEF ReleaseInv, Memory, Unwritten, Finalizing
<1>3. Undisturbed'
  BY DEF ReleaseInv, Memory, Undisturbed, OfOneRun, Validated, Finalizing, Verifying
<1>4. Compared'
  BY DEF ReleaseInv, Memory, Compared, Present
<1> QED
  BY <1>1, <1>2, <1>3, <1>4 DEF ReleaseInv

\* A line that was compared is about the file that is there.
LEMMA RehashStep ==
  ASSUME ReleaseInv, Rehash
  PROVE  ReleaseInv'
<1> DEFINE first == First(DOMAIN lines)
<1>1. /\ pc = "rehash" /\ pc' = "rehash" /\ files[first] = lines[first]
      /\ lines' = [n \in DOMAIN lines \ {first} |-> lines[n]]
      /\ UNCHANGED <<inputs, content, session, run, report, todo, outside, exit>>
  BY DEF Rehash, Goes
<1>2. PICK S \in SUBSET Names : lines \in [S -> Artifact]
  BY DEF ReleaseInv, ReleaseTypes, Lines
<1> HIDE DEF first
<1>3. lines' \in Lines
  <2>1. lines' \in [S \ {first} -> Artifact]
    BY <1>1, <1>2
  <2>2. S \ {first} \in SUBSET Names
    OBVIOUS
  <2> QED
    BY <2>1, <2>2 DEF Lines
<1> USE DEF inputs, content, outside
<1>4. ReleaseTypes'
  BY <1>1, <1>3 DEF ReleaseInv, ReleaseTypes
<1>5. Memory' /\ Unwritten'
  BY <1>1 DEF ReleaseInv, Memory, Unwritten, Finalizing
<1>6. Undisturbed'
  BY <1>1 DEF ReleaseInv, Memory, Undisturbed, OfOneRun, Validated, Finalizing, Verifying
<1>7. Compared'
  <2> SUFFICES ASSUME ~touched'
               PROVE  /\ DOMAIN manifest'.lines = Present'
                      /\ \A n \in DOMAIN lines' : n \in Present' /\ lines'[n] = manifest'.lines[n]
                      /\ \A n \in Present' \ DOMAIN lines' : manifest'.lines[n] = files'[n]
    BY <1>1 DEF Compared, ReleaseInv, Memory
  <2>1. Present' = Present /\ manifest' = manifest /\ files' = files /\ ~touched
    BY <1>1 DEF Present
  <2>2. /\ DOMAIN manifest.lines = Present
        /\ \A n \in DOMAIN lines : n \in Present /\ lines[n] = manifest.lines[n]
        /\ \A n \in Present \ DOMAIN lines : manifest.lines[n] = files[n]
    BY <1>1, <2>1 DEF ReleaseInv, Compared
  <2>3. DOMAIN lines' = DOMAIN lines \ {first} /\ \A n \in DOMAIN lines' : lines'[n] = lines[n]
    BY <1>1
  <2>4. ASSUME NEW n \in Present, n \notin DOMAIN lines' PROVE manifest.lines[n] = files[n]
    BY <1>1, <2>2, <2>3, <2>4
  <2> QED
    BY <2>1, <2>2, <2>3, <2>4
<1> QED
  BY <1>4, <1>5, <1>6, <1>7 DEF ReleaseInv

LEMMA VerifiedStep ==
  ASSUME ReleaseInv, Verified
  PROVE  ReleaseInv'
<1> USE DEF Verified, inputs, content, outside
<1>1. ReleaseTypes'
  <2>1. exit' \in {"none", "verified", "finalized"} /\ report' \in Nat
    BY DEF ReleaseInv, Memory
  <2>2. session' \in {session, FALSE}
    OBVIOUS
  <2>3. pc' \in {"idle"} \cup Verifying
    BY DEF Verifying
  <2> QED
    BY <2>1, <2>2, <2>3 DEF ReleaseInv, ReleaseTypes
<1>2. Memory' /\ Unwritten'
  BY DEF ReleaseInv, Memory, Unwritten, Finalizing
<1>3. Undisturbed'
  BY DEF ReleaseInv, Memory, Undisturbed, OfOneRun, Validated, Finalizing, Verifying
<1>4. Compared'
  <2>1. DOMAIN lines = {}
    BY NoLinesType
  <2>2. Present' = Present
    BY DEF Present
  <2> QED
    BY <2>1, <2>2 DEF ReleaseInv, Memory, Compared
<1> QED
  BY <1>1, <1>2, <1>3, <1>4 DEF ReleaseInv

LEMMA StopStep ==
  ASSUME ReleaseInv, Stop
  PROVE  ReleaseInv'
<1> USE DEF inputs, outside
<1>1. manifest' \in [there : BOOLEAN, by : Nat, lines : Lines]
  <2>1. CASE UNCHANGED manifest
    BY <2>1 DEF ReleaseInv, ReleaseTypes
  <2>2. ASSUME NEW cut \in 0..Len(Artifacts),
               manifest' = [manifest EXCEPT !.lines =
                              [n \in {Artifacts[i] : i \in 1..cut} \cap DOMAIN lines |-> lines[n]]]
        PROVE  manifest' \in [there : BOOLEAN, by : Nat, lines : Lines]
    <3> DEFINE kept == {Artifacts[i] : i \in 1..cut} \cap DOMAIN lines
    <3>1. PICK S \in SUBSET Names : lines \in [S -> Artifact]
      BY DEF ReleaseInv, ReleaseTypes, Lines
    <3>2. kept \in SUBSET Names /\ kept \subseteq S
      BY <3>1
    <3> HIDE DEF kept
    <3>3. [n \in kept |-> lines[n]] \in [kept -> Artifact]
      BY <3>1, <3>2
    <3>4. [n \in kept |-> lines[n]] \in Lines
      BY <3>2, <3>3 DEF Lines
    <3>5. manifest' = [manifest EXCEPT !.lines = [n \in kept |-> lines[n]]]
      BY <2>2 DEF kept
    <3> QED
      BY <3>4, <3>5 DEF ReleaseInv, ReleaseTypes
  <2> QED
    BY <2>1, <2>2 DEF Stop
<1>2. /\ pc' = "idle" /\ ~session' /\ exit' = "stopped" /\ report' = 0 /\ todo' = {}
      /\ lines' = NoLines /\ UNCHANGED <<inputs, exists, files, run, outside>>
  BY DEF Stop
<1>3. session' = FALSE
  BY DEF Stop
<1>4. ReleaseTypes'
  BY <1>1, <1>2, <1>3, NoLinesType DEF ReleaseInv, ReleaseTypes
<1>5. Memory' /\ Unwritten'
  BY <1>2 DEF Memory, Unwritten, Finalizing
<1>6. Undisturbed' /\ Compared'
  BY <1>2 DEF Undisturbed, Compared, Finalizing, Verifying
<1> QED
  BY <1>4, <1>5, <1>6 DEF ReleaseInv

\* Whatever somebody else does, it is not in the name of a run.
LEMMA ActStep ==
  ASSUME ReleaseInv, EditInputs \/ EditFiles \/ RemoveDirectory
  PROVE  ReleaseInv'
<1> USE DEF inputs, content, memory
<1>0. UNCHANGED <<session, pc, run, memory, exit>> /\ touched' = TRUE /\ acts' = acts + 1
  BY DEF EditInputs, EditFiles, RemoveDirectory, Act
<1>1. files' \in [Names -> Artifact] /\ (files'["licenses"] = files["licenses"] \/ files'["licenses"].by = 0)
  <2>1. CASE UNCHANGED files
    BY <2>1 DEF ReleaseInv, ReleaseTypes
  <2>2. ASSUME NEW n \in Names, NEW f \in {NoFile, Made(0, acts)}, files' = [files EXCEPT ![n] = f]
        PROVE  /\ files' \in [Names -> Artifact]
               /\ files'["licenses"] = files["licenses"] \/ files'["licenses"].by = 0
    <3>1. f \in Artifact /\ f.by = 0
      BY NoFileType, MadeType DEF ReleaseInv, ReleaseTypes
    <3>2. files \in [Names -> Artifact]
      BY DEF ReleaseInv, ReleaseTypes
    <3> QED
      BY <2>2, <3>1, <3>2, NamesAre
  <2>3. CASE files' = [n \in Names |-> NoFile]
    BY <2>3, NoFileType, NamesAre
  <2> QED
    BY <2>1, <2>2, <2>3 DEF EditInputs, EditFiles, RemoveDirectory
<1>2. manifest' \in [there : BOOLEAN, by : Nat, lines : Lines] /\ exists' \in BOOLEAN
  <2>1. NoSums \in [there : BOOLEAN, by : Nat, lines : Lines]
    BY NoLinesType DEF NoSums
  <2>2. manifest' \in {manifest, NoSums} /\ (exists' = exists \/ exists' = FALSE)
    BY DEF EditInputs, EditFiles, RemoveDirectory
  <2> QED
    BY <2>1, <2>2 DEF ReleaseInv, ReleaseTypes
<1>3. lock' \in Nat \ {0} /\ policy' \in Nat
  BY DEF EditInputs, EditFiles, RemoveDirectory, ReleaseInv, ReleaseTypes
<1>4. ReleaseTypes'
  BY <1>0, <1>1, <1>2, <1>3 DEF ReleaseInv, ReleaseTypes
<1>5. Memory'
  BY <1>0 DEF ReleaseInv, Memory
<1>6. Unwritten'
  BY <1>0, <1>1 DEF ReleaseInv, Memory, Unwritten, ReleaseTypes
<1>7. Undisturbed' /\ Compared'
  BY <1>0 DEF Undisturbed, Compared
<1> QED
  BY <1>4, <1>5, <1>6, <1>7 DEF ReleaseInv

LEMMA ReleaseInvStep == ReleaseInv /\ [ReleaseNext]_releaseVars => ReleaseInv'
<1> SUFFICES ASSUME ReleaseInv, [ReleaseNext]_releaseVars PROVE ReleaseInv'
  OBVIOUS
<1>1. CASE StartSession \/ StartFinalize \/ StartVerify
  BY <1>1, BeginStep
<1>2. CASE Mkdir \/ Build \/ Audit
  BY <1>2, MakingStep
<1>3. CASE DirectoryExists \/ StepFails \/ OpenFails \/ Refused
  <2>1. \E how \in {"refused", "traceback"} : Ends(how)
    BY <1>3 DEF DirectoryExists, StepFails, OpenFails, Refused
  <2> QED
    BY <2>1, EndsStep
<1>4. CASE Validate \/ LicenseReport
  BY <1>4, ValidateStep
<1>5. CASE OpenReport \/ WriteReport
  BY <1>5, ReportStep
<1>6. CASE List \/ Hash
  BY <1>6, ListStep
<1>7. CASE OpenSums \/ WriteSums
  BY <1>7, SumsStep
<1>8. CASE ReadSums \/ Covers
  BY <1>8, VerifyStep
<1>9. CASE EditInputs \/ EditFiles \/ RemoveDirectory
  BY <1>9, ActStep
<1>10. CASE UNCHANGED releaseVars
  BY <1>10 DEF releaseVars, ReleaseInv, ReleaseTypes, Memory, Unwritten, Undisturbed, Compared, Validated,
               OfOneRun, Present
<1> QED
  BY <1>1, <1>2, <1>3, <1>4, <1>5, <1>6, <1>7, <1>8, <1>9, <1>10, RehashStep, VerifiedStep, StopStep
  DEF ReleaseNext, Command

LEMMA ReleaseInvariant == Spec => []ReleaseInv
  BY OneAtATime, ReleaseInvInit, ReleaseInvStep, PTL DEF Spec

\* A release that verify or finalize accepts is what its manifest says, to the
\* last file, for any number of commands and whatever others did before.
THEOREM VerifiedRelease == Spec => []VerifiedIsWhole
<1>1. ReleaseInv => VerifiedIsWhole
  BY DEF ReleaseInv, Compared, VerifiedIsWhole
<1> QED
  BY ReleaseInvariant, <1>1, PTL

\* A release that was finalized is of one run and of one lock.
THEOREM FinalizedRelease == Spec => []FinalizedByOneRun
<1>1. ASSUME ReleaseInv, exit = "finalized", ~touched
      PROVE  /\ files["licenses"].by = run /\ manifest.by = run
             /\ files["licenses"].whole /\ files["licenses"].lock = files["sbom"].lock
             /\ {"wheel", "sdist", "sbom", "licenses"} \subseteq DOMAIN manifest.lines
  <2>1. Validated /\ files["licenses"] = Made(run, lock) /\ manifest.by = run
    BY <1>1 DEF ReleaseInv, Undisturbed, OfOneRun
  <2>2. run \in Nat /\ lock \in Nat
    BY <1>1 DEF ReleaseInv, ReleaseTypes
  <2>3. DOMAIN manifest.lines = Present
    BY <1>1 DEF ReleaseInv, Compared
  <2>4. files["licenses"] # NoFile /\ files["licenses"].whole
        /\ files["licenses"].by = run /\ files["licenses"].lock = lock
    BY <2>1, <2>2, MadeType
  <2>5. files["sbom"] # NoFile
    BY <2>1 DEF Validated, NoFile
  <2>6. {"wheel", "sdist", "sbom", "licenses"} \subseteq Present
    BY <2>1, <2>4, <2>5, NamesAre DEF Validated, Present
  <2> QED
    BY <2>1, <2>3, <2>4, <2>6 DEF Validated
<1>2. ReleaseInv => FinalizedByOneRun
  BY <1>1 DEF FinalizedByOneRun
<1> QED
  BY ReleaseInvariant, <1>2, PTL

\* No command writes over a report or a manifest that is there, or removes it.
THEOREM NothingIsWrittenOver == Spec => NothingReplaced
<1> DEFINE ReportKept   == files["licenses"] # NoFile /\ files'["licenses"] # files["licenses"]
                             => files["licenses"].by = run /\ ~files["licenses"].whole
           ManifestKept == manifest.there /\ manifest' # manifest => manifest.by = run /\ pc = "lines"
           Kept         == acts' = acts => ReportKept /\ ManifestKept
<1>1. ASSUME ReleaseInv, ReleaseNext PROVE Kept
  <2>0. files \in [Names -> Artifact] /\ acts \in Nat
    BY <1>1 DEF ReleaseInv, ReleaseTypes
  <2> SUFFICES ASSUME acts' = acts PROVE ReportKept /\ ManifestKept
    OBVIOUS
  <2>1. CASE UNCHANGED <<files, manifest>>
    BY <2>1
  <2>2. CASE Build \/ Audit
    BY <2>0, <2>2, NamesAre DEF Build, Audit, Makes
  <2>3. CASE OpenReport
    BY <2>3 DEF OpenReport, Opens, Makes
  <2>4. CASE WriteReport
    <3>1. files["licenses"].by # run => files' = files
      BY <2>0, <2>4, NamesAre DEF WriteReport, Makes
    <3> QED
      BY <1>1, <2>4, <3>1 DEF WriteReport, Makes, ReleaseInv, Unwritten
  <2>5. CASE OpenSums \/ WriteSums
    BY <2>5 DEF OpenSums, WriteSums
  <2>6. CASE Stop
    BY <2>6 DEF Stop
  <2>7. CASE EditInputs \/ EditFiles \/ RemoveDirectory
    BY <2>0, <2>7 DEF EditInputs, EditFiles, RemoveDirectory, Act
  <2> QED
    BY <1>1, <2>1, <2>2, <2>3, <2>4, <2>5, <2>6, <2>7
    DEF ReleaseNext, Command, StartSession, StartFinalize, StartVerify, Begin, Mkdir, DirectoryExists,
        StepFails, Validate, LicenseReport, OpenFails, List, Hash, ReadSums, Covers, Compares, Rehash,
        Verified, Refused, Ends, Goes, content
<1>2. ASSUME ReleaseInv, [ReleaseNext]_releaseVars PROVE [Kept]_releaseVars
  BY <1>1, <1>2
<1>3. ReleaseInv /\ [Next]_fileVars => [Kept]_releaseVars
  BY <1>2, OneAtATime
<1> QED
  BY ReleaseInvariant, <1>3, PTL DEF Spec, NothingReplaced
-----------------------------------------------------------------------------
(* The comparison of two benchmarks *)

\* A comparison is of the two benchmarks it was asked for.
OfTheTwo ==
  /\ job = "compare" => left \in Benchmarks /\ right \in Benchmarks
  /\ comparison # Nothing =>
       left \in Benchmarks /\ right \in Benchmarks /\ comparison = Comparison(left, right)

LEMMA OfTheTwoInit == Init => OfTheTwo
  BY DEF Init, CompareInit, CompareNone, OfTheTwo

LEMMA OfTheTwoStep == OfTheTwo /\ [Next]_fileVars => OfTheTwo'
<1> SUFFICES ASSUME OfTheTwo, [Next]_fileVars PROVE OfTheTwo'
  OBVIOUS
<1>1. CASE UNCHANGED compareVars
  BY <1>1 DEF OfTheTwo, compareVars
<1>2. CASE Skip \/ Walk \/ Add \/ Same \/ ReturnDiff
  BY <1>2 DEF Skip, Walk, Add, Same, ReturnDiff, Diffing, OfTheTwo
<1>3. CASE Compare
  BY <1>3 DEF Compare, OfTheTwo
<1> QED
  BY <1>1, <1>2, <1>3 DEF Next, CompareNext, fileVars

\* Whether two benchmarks may be compared does not depend on their order.
LEMMA ReasonsCommute ==
  ASSUME NEW l \in Benchmarks, NEW r \in Benchmarks
  PROVE  Reasons(l, r) = Reasons(r, l)
<1>1. DOMAIN l.metrics = DOMAIN r.metrics
  BY BenchmarkAssumption
<1>2. {i \in Identity : l[i] # r[i]} = {i \in Identity : r[i] # l[i]}
  OBVIOUS
<1>3. {m \in DOMAIN l.metrics : \/ l.metrics[m].unit # r.metrics[m].unit
                                \/ l.metrics[m].confidence # r.metrics[m].confidence}
      = {m \in DOMAIN r.metrics : \/ r.metrics[m].unit # l.metrics[m].unit
                                  \/ r.metrics[m].confidence # l.metrics[m].confidence}
  BY <1>1
<1>4. (IF l.v2 /\ r.v2 THEN {} ELSE {"requires_benchmark_v2"})
        = (IF r.v2 /\ l.v2 THEN {} ELSE {"requires_benchmark_v2"})
  OBVIOUS
<1>5. (IF l.profile = 0 \/ r.profile = 0 THEN {"profile_missing"}
       ELSE IF l.profile # r.profile THEN {"profile_mismatch"} ELSE {})
      = (IF r.profile = 0 \/ l.profile = 0 THEN {"profile_missing"}
         ELSE IF r.profile # l.profile THEN {"profile_mismatch"} ELSE {})
  OBVIOUS
<1> DEFINE Metrics(x, y) == {m \in DOMAIN x.metrics : \/ x.metrics[m].unit # y.metrics[m].unit
                                                      \/ x.metrics[m].confidence # y.metrics[m].confidence}
           Who(x, y)     == {i \in Identity : x[i] # y[i]}
           Kinds(x, y)   == IF x.v2 /\ y.v2 THEN {} ELSE {"requires_benchmark_v2"}
           Profiles(x, y) == IF x.profile = 0 \/ y.profile = 0 THEN {"profile_missing"}
                             ELSE IF x.profile # y.profile THEN {"profile_mismatch"} ELSE {}
           Context(x, y) == IF ~(x.v2 /\ y.v2) THEN {} ELSE Who(x, y) \cup Metrics(x, y)
<1>6. Kinds(l, r) = Kinds(r, l) /\ Profiles(l, r) = Profiles(r, l)
  BY <1>4, <1>5
<1>7. Who(l, r) = Who(r, l) /\ Metrics(l, r) = Metrics(r, l)
  BY <1>2, <1>3
<1>8. Context(l, r) = Context(r, l)
  <2> HIDE DEF Who, Metrics
  <2> QED
    BY <1>7
<1>9. /\ Reasons(l, r) = Kinds(l, r) \cup Profiles(l, r) \cup Context(l, r)
      /\ Reasons(r, l) = Kinds(r, l) \cup Profiles(r, l) \cup Context(r, l)
  BY Zenon DEF Reasons
<1> HIDE DEF Kinds, Profiles, Context
<1> QED
  BY <1>6, <1>8, <1>9

\* The delta one way is the negative of the delta the other way.
LEMMA DeltaNegates ==
  ASSUME NEW l \in SUBSET Int, NEW r \in SUBSET Int
  PROVE  Delta(l, r) = {-d : d \in Delta(r, l)}
<1>1. ASSUME NEW d \in Delta(l, r) PROVE d \in {-e : e \in Delta(r, l)}
  <2>1. PICK a \in l, b \in r : d = b - a
    BY DEF Delta
  <2>2. a - b \in Delta(r, l) /\ d = -(a - b)
    BY <2>1 DEF Delta
  <2> QED
    BY <2>2
<1>2. ASSUME NEW d \in {-e : e \in Delta(r, l)} PROVE d \in Delta(l, r)
  <2>1. PICK e \in Delta(r, l) : d = -e
    OBVIOUS
  <2>2. PICK b \in r, a \in l : e = a - b
    BY DEF Delta
  <2>3. d = b - a
    BY <2>1, <2>2
  <2> QED
    BY <2>3 DEF Delta
<1> QED
  BY <1>1, <1>2

\* What a comparison that is made says.
LEMMA ComparisonParts ==
  ASSUME NEW l \in Benchmarks, NEW r \in Benchmarks, Comparison(l, r).kind = "compatible"
  PROVE  /\ Comparison(l, r).metrics =
              [m \in DOMAIN l.metrics |-> MetricDelta(l.metrics[m].p50, r.metrics[m].p50)]
         /\ \A m \in DOMAIN l.metrics : ~NonFinite(l.metrics[m].p50, r.metrics[m].p50)
<1> DEFINE first == {i \in DOMAIN MetricNames :
                       /\ MetricNames[i] \in DOMAIN l.metrics
                       /\ NonFinite(l.metrics[MetricNames[i]].p50, r.metrics[MetricNames[i]].p50)}
<1>1. Reasons(l, r) = {} /\ first = {}
  BY DEF Comparison
<1>2. Comparison(l, r).metrics =
        [m \in DOMAIN l.metrics |-> MetricDelta(l.metrics[m].p50, r.metrics[m].p50)]
  BY <1>1 DEF Comparison
<1>3. ASSUME NEW m \in DOMAIN l.metrics PROVE ~NonFinite(l.metrics[m].p50, r.metrics[m].p50)
  <2>1. PICK i \in DOMAIN MetricNames : m = MetricNames[i]
    BY BenchmarkAssumption
  <2> QED
    BY <1>1, <2>1
<1> QED
  BY <1>2, <1>3

\* No number of a comparison is infinite: what is larger by less than the
\* largest number is, and a quotient that is not is refused.
LEMMA FiniteDeltas ==
  ASSUME NEW l \in Optional(0..MaxFloat), NEW r \in Optional(0..MaxFloat), ~NonFinite(l, r)
  PROVE  /\ \A d \in Delta(l, r) : -MaxFloat <= d /\ d <= MaxFloat
         /\ \A q \in Relative(l, r) :
              q.den > 0 /\ -MaxFloat * q.den <= q.num /\ q.num <= MaxFloat * q.den
<1>1. l \in SUBSET (0..MaxFloat) /\ r \in SUBSET (0..MaxFloat) /\ MaxFloat \in Nat /\ MaxFloat >= 100
  BY BenchmarkAssumption DEF Optional
<1>2. \A d \in Delta(l, r) : -MaxFloat <= d /\ d <= MaxFloat
  BY <1>1 DEF Delta
<1>3. ASSUME NEW q \in Relative(l, r)
      PROVE  q.den > 0 /\ -MaxFloat * q.den <= q.num /\ q.num <= MaxFloat * q.den
  <2>1. PICK a \in l \ {0}, b \in r : q = [num |-> 100 * (b - a), den |-> a]
    BY DEF Relative
  <2>2. a \in Nat \ {0} /\ b \in Nat /\ q.num = 100 * (b - a) /\ q.den = a
    BY <1>1, <2>1
  <2>3. ~(q.num > MaxFloat * q.den)
    BY DEF NonFinite
  <2>4. MaxFloat * a \in Nat /\ MaxFloat * a >= 100 * a
    <3>1. MaxFloat * a = 100 * a + (MaxFloat - 100) * a
      BY <1>1, <2>2
    <3>2. (MaxFloat - 100) * a \in Nat
      BY <1>1, <2>2
    <3> QED
      BY <1>1, <2>2, <3>1, <3>2
  <2>5. -(MaxFloat * a) <= 100 * (b - a)
    BY <2>2, <2>4
  <2> QED
    BY <2>2, <2>3, <2>4, <2>5
<1> QED
  BY <1>2, <1>3

\* For any two benchmarks, in either order.
THEOREM SoundComparison == Spec => []ComparisonIsSound
<1>1. ASSUME OfTheTwo, comparison # Nothing
      PROVE  LET back == Comparison(right, left)
             IN  /\ Reasons(left, right) = Reasons(right, left)
                 /\ comparison.kind = "compatible" /\ back.kind = "compatible" =>
                      \A m \in DOMAIN left.metrics :
                        comparison.metrics[m].absolute = {-d : d \in back.metrics[m].absolute}
                 /\ comparison.kind = "compatible" =>
                      \A m \in DOMAIN comparison.metrics :
                        /\ \A d \in comparison.metrics[m].absolute : -MaxFloat <= d /\ d <= MaxFloat
                        /\ \A q \in comparison.metrics[m].relative :
                             q.den > 0 /\ -MaxFloat * q.den <= q.num /\ q.num <= MaxFloat * q.den
  <2>1. left \in Benchmarks /\ right \in Benchmarks /\ comparison = Comparison(left, right)
    BY <1>1 DEF OfTheTwo
  <2>2. DOMAIN left.metrics = DOMAIN right.metrics
    BY <2>1, BenchmarkAssumption
  <2>3. \A m \in DOMAIN left.metrics :
          left.metrics[m].p50 \in Optional(0..MaxFloat) /\ right.metrics[m].p50 \in Optional(0..MaxFloat)
    BY <2>1, <2>2, BenchmarkAssumption
  <2>4. ASSUME comparison.kind = "compatible", Comparison(right, left).kind = "compatible",
               NEW m \in DOMAIN left.metrics
        PROVE  comparison.metrics[m].absolute
                 = {-d : d \in Comparison(right, left).metrics[m].absolute}
    <3> DEFINE l == left.metrics[m].p50
               r == right.metrics[m].p50
    <3>1. comparison.metrics[m].absolute = Delta(l, r)
      <4>1. comparison.metrics =
              [n \in DOMAIN left.metrics |-> MetricDelta(left.metrics[n].p50, right.metrics[n].p50)]
        BY <2>1, <2>4, ComparisonParts
      <4>2. comparison.metrics[m] = MetricDelta(l, r)
        BY <2>4, <4>1
      <4> HIDE DEF l, r
      <4> QED
        BY <4>2 DEF MetricDelta
    <3>2. Comparison(right, left).metrics[m].absolute = Delta(r, l)
      <4>1. Comparison(right, left).metrics =
              [n \in DOMAIN right.metrics |-> MetricDelta(right.metrics[n].p50, left.metrics[n].p50)]
        BY <2>1, <2>4, ComparisonParts
      <4>2. Comparison(right, left).metrics[m] = MetricDelta(r, l)
        BY <2>2, <2>4, <4>1
      <4> HIDE DEF l, r
      <4> QED
        BY <4>2 DEF MetricDelta
    <3>3. l \in SUBSET Int /\ r \in SUBSET Int
      BY <2>3 DEF Optional
    <3> HIDE DEF l, r
    <3>4. Delta(l, r) = {-d : d \in Delta(r, l)}
      BY <3>3, DeltaNegates
    <3> QED
      BY <3>1, <3>2, <3>4, Zenon
  <2>5. ASSUME comparison.kind = "compatible", NEW m \in DOMAIN comparison.metrics
        PROVE  /\ \A d \in comparison.metrics[m].absolute : -MaxFloat <= d /\ d <= MaxFloat
               /\ \A q \in comparison.metrics[m].relative :
                    q.den > 0 /\ -MaxFloat * q.den <= q.num /\ q.num <= MaxFloat * q.den
    <3> DEFINE l == left.metrics[m].p50
               r == right.metrics[m].p50
    <3>1. comparison.metrics =
            [n \in DOMAIN left.metrics |-> MetricDelta(left.metrics[n].p50, right.metrics[n].p50)]
      BY <2>1, <2>5, ComparisonParts
    <3>2. m \in DOMAIN left.metrics
      BY <3>1
    <3>3. comparison.metrics[m] = MetricDelta(l, r) /\ ~NonFinite(l, r)
      BY <2>1, <2>5, <3>1, <3>2, ComparisonParts
    <3>4. l \in Optional(0..MaxFloat) /\ r \in Optional(0..MaxFloat)
      BY <2>3, <3>2
    <3> HIDE DEF l, r
    <3>5. comparison.metrics[m].absolute = Delta(l, r) /\ comparison.metrics[m].relative = Relative(l, r)
      BY <3>3 DEF MetricDelta
    <3> QED
      BY <3>3, <3>4, <3>5, FiniteDeltas
  <2> QED
    BY <2>1, <2>4, <2>5, ReasonsCommute
<1>2. OfTheTwo => ComparisonIsSound
  BY <1>1 DEF ComparisonIsSound
<1> QED
  BY OfTheTwoInit, OfTheTwoStep, <1>2, PTL DEF Spec
-----------------------------------------------------------------------------
(* The diff of two documents *)

\* A set of numbers has a least.
LEMMA Least ==
  ASSUME NEW S \in SUBSET Nat, S # {}
  PROVE  \E x \in S : \A y \in S : x <= y
<1> DEFINE R == OpToRel(<, Nat)
<1>1. PICK s \in S : TRUE
  OBVIOUS
<1>2. IsWellFoundedOn(R, Nat)
  BY NatLessThanWellFounded
<1> HIDE DEF R
<1>3. PICK x \in S : \A y \in S : ~(<<y, x>> \in R)
  BY <1>1, <1>2, WFMin
<1>4. ASSUME NEW y \in S, ~(x <= y) PROVE FALSE
  <2>1. x \in Nat /\ y \in Nat /\ y < x
    BY <1>4
  <2>2. <<y, x>> \in R
    BY <2>1 DEF R, OpToRel
  <2> QED
    BY <2>2, <1>3
<1> QED
  BY <1>4

\* q begins with p.
Begins(p, q) == Len(p) <= Len(q) /\ \A i \in 1..Len(p) : p[i] = q[i]

\* Neither begins with the other, and where they part p has the smaller key.
Before(p, q) ==
  \E n \in 0..Len(p) - 1 : /\ n < Len(q) /\ \A i \in 1..n : p[i] = q[i]
                           /\ p[n + 1] < q[n + 1]

Change == [path : Paths, kind : {"added", "removed", "changed"}]

DiffTypes ==
  /\ pending \in Seq(Paths)
  /\ changes \in Seq(Change)
  /\ truncated \in BOOLEAN
  /\ job = "diff" => left \in Trees /\ right \in Trees
  /\ job # "diff" => pending = <<>>

\* walk() has gone into all that is above what is pending, and what is pending
\* is ordered and after everything that is listed.
WalkedTo ==
  /\ \A i \in DOMAIN pending : \A p \in Above(pending[i]) : SameKind(p)
  /\ \A i, j \in DOMAIN pending : i < j => Before(pending[i], pending[j])
  /\ \A i \in DOMAIN changes, j \in DOMAIN pending : Before(changes[i].path, pending[j])

\* What is listed differs, in order.
ListedSoFar ==
  /\ \A i \in DOMAIN changes : Differs(changes[i].path) /\ KindIsRight(changes[i])
  /\ \A i, j \in DOMAIN changes : i < j => Before(changes[i].path, changes[j].path)
  /\ Len(changes) <= MaxChanges
  /\ truncated => Len(changes) = MaxChanges

\* Unless something was left out, what differs is listed or will be looked at;
\* and nothing before what is listed was left out.
NothingSkipped ==
  /\ job \in {"diff", "diffed"} /\ ~truncated =>
       \A p \in Paths : Differs(p) => p \in Listed \/ \E j \in DOMAIN pending : Begins(pending[j], p)
  /\ \A p \in Listed, q \in Paths : Differs(q) /\ Precedes(q, p) => q \in Listed

DiffInv == DiffTypes /\ WalkedTo /\ ListedSoFar /\ NothingSkipped
LEMMA PathParts ==
  ASSUME NEW p \in Paths
  PROVE  /\ p \in Seq(1..MaxKey) /\ Len(p) \in Nat /\ DOMAIN p = 1..Len(p)
         /\ p = [i \in 1..Len(p) |-> p[i]]
         /\ \A i \in 1..Len(p) : p[i] \in 1..MaxKey /\ p[i] \in Nat
<1>1. PICK n \in 0..MaxDepth : p \in [1..n -> 1..MaxKey]
  BY DEF Paths
<1>2. n \in Nat /\ p \in Seq(1..MaxKey) /\ Len(p) = n
  BY <1>1, TreeAssumption
<1> QED
  BY <1>1, <1>2, TreeAssumption

\* Where p parts from q, it parts from what begins with q; and so does what
\* begins with p.
LEMMA BeforeWhatBegins ==
  ASSUME NEW p \in Paths, NEW q \in Paths, NEW r \in Paths, Before(p, q)
  PROVE  /\ Begins(q, r) => Before(p, r)
         /\ Begins(p, r) => Before(r, q)
<1>1. PICK n \in 0..Len(p) - 1 : n < Len(q) /\ (\A i \in 1..n : p[i] = q[i]) /\ p[n + 1] < q[n + 1]
  BY DEF Before
<1>2. Len(p) \in Nat /\ Len(q) \in Nat /\ Len(r) \in Nat
  BY PathParts
<1>3. n \in Nat /\ n + 1 \in 1..Len(p) /\ n + 1 \in 1..Len(q) /\ \A i \in 1..n : i \in 1..Len(p) /\ i \in 1..Len(q)
  BY <1>1, <1>2
<1>4. ASSUME Begins(q, r) PROVE Before(p, r)
  <2>1. Len(q) <= Len(r) /\ \A i \in 1..Len(q) : q[i] = r[i]
    BY <1>4 DEF Begins
  <2>2. n < Len(r) /\ (\A i \in 1..n : p[i] = r[i]) /\ p[n + 1] < r[n + 1]
    BY <1>1, <1>2, <1>3, <2>1
  <2> QED
    BY <1>1, <2>2 DEF Before
<1>5. ASSUME Begins(p, r) PROVE Before(r, q)
  <2>1. Len(p) <= Len(r) /\ \A i \in 1..Len(p) : p[i] = r[i]
    BY <1>5 DEF Begins
  <2>2. n \in 0..Len(r) - 1 /\ (\A i \in 1..n : r[i] = q[i]) /\ r[n + 1] < q[n + 1]
    BY <1>1, <1>2, <1>3, <2>1
  <2> QED
    BY <1>1, <2>2 DEF Before
<1> QED
  BY <1>4, <1>5

\* Nothing is before itself, nor before what precedes it.
LEMMA BeforeIsAnOrder ==
  ASSUME NEW p \in Paths, NEW q \in Paths
  PROVE  /\ Before(p, q) => p # q /\ ~Precedes(q, p)
         /\ Begins(p, q) => ~Precedes(q, p)
<1>1. ASSUME Before(p, q), Precedes(q, p) PROVE FALSE
  <2>1. PICK n \in 0..Len(p) - 1 : n < Len(q) /\ (\A i \in 1..n : p[i] = q[i]) /\ p[n + 1] < q[n + 1]
    BY <1>1 DEF Before
  <2>2. PICK m \in 0..Len(q) : m < Len(p) /\ (\A i \in 1..m : q[i] = p[i]) /\ (m = Len(q) \/ q[m + 1] < p[m + 1])
    BY <1>1 DEF Precedes
  <2>3. n \in Nat /\ m \in Nat /\ n + 1 \in 1..Len(p) /\ n + 1 \in 1..Len(q) /\ Len(p) \in Nat /\ Len(q) \in Nat
    BY <2>1, <2>2, PathParts
  <2>4. p[n + 1] \in Nat /\ q[n + 1] \in Nat
    BY <2>3, PathParts
  <2>5. CASE n < m
    BY <2>1, <2>2, <2>3, <2>4, <2>5
  <2>6. CASE m < n
    <3>1. m + 1 \in 1..n /\ m # Len(q) /\ m + 1 \in 1..Len(p)
      BY <2>1, <2>3, <2>6
    <3>2. p[m + 1] \in Nat /\ q[m + 1] = p[m + 1]
      BY <2>1, <3>1, PathParts
    <3> QED
      BY <2>2, <3>1, <3>2
  <2>7. CASE m = n
    BY <2>1, <2>2, <2>3, <2>4, <2>7
  <2> QED
    BY <2>3, <2>5, <2>6, <2>7
<1>2. ASSUME Before(p, q), p = q PROVE FALSE
  BY <1>2, PathParts DEF Before
<1>3. ASSUME Begins(p, q), Precedes(q, p) PROVE FALSE
  <2>1. PICK m \in 0..Len(q) : m < Len(p) /\ (m = Len(q) \/ q[m + 1] < p[m + 1])
    BY <1>3 DEF Precedes
  <2>2. m + 1 \in 1..Len(p) /\ m # Len(q)
    BY <1>3, <2>1, PathParts DEF Begins
  <2> QED
    BY <1>3, <2>1, <2>2, PathParts DEF Begins
<1> QED
  BY <1>1, <1>2, <1>3

\* What a key leads to: below p, and in the order of the keys.
LEMMA ChildOf ==
  ASSUME NEW p \in Paths, NEW k \in 1..MaxKey, Append(p, k) \in Paths
  PROVE  /\ Begins(p, Append(p, k))
         /\ Above(Append(p, k)) = Above(p) \cup {p}
         /\ \A j \in 1..MaxKey : Append(p, j) \in Paths /\ j < k => Before(Append(p, j), Append(p, k))
<1> DEFINE c == Append(p, k)
<1>1. /\ Len(p) \in Nat /\ Len(c) = Len(p) + 1 /\ c[Len(p) + 1] = k
      /\ \A i \in 1..Len(p) : c[i] = p[i]
  BY PathParts
<1>2. \A n \in 0..Len(p) : [i \in 1..n |-> c[i]] = [i \in 1..n |-> p[i]]
  BY <1>1
<1>3. p = [i \in 1..Len(p) |-> p[i]]
  BY PathParts
<1>4. Above(c) = {[i \in 1..n |-> p[i]] : n \in 0..Len(p)}
  BY <1>1, <1>2 DEF Above
<1>5. 0..Len(p) = (0..Len(p) - 1) \cup {Len(p)}
  BY <1>1
<1>6. Above(c) = Above(p) \cup {p}
  <2> HIDE DEF c
  <2> QED
    BY <1>3, <1>4, <1>5 DEF Above
<1>7. ASSUME NEW j \in 1..MaxKey, Append(p, j) \in Paths, j < k PROVE Before(Append(p, j), c)
  <2>1. /\ Len(Append(p, j)) = Len(p) + 1 /\ Append(p, j)[Len(p) + 1] = j
        /\ \A i \in 1..Len(p) : Append(p, j)[i] = p[i]
    BY PathParts
  <2> QED
    BY <1>1, <1>7, <2>1 DEF Before
<1> QED
  BY <1>1, <1>6, <1>7 DEF Begins

\* What begins with p and is more than it goes on with a key.
LEMMA GoesOn ==
  ASSUME NEW p \in Paths, NEW q \in Paths, Begins(p, q), p # q
  PROVE  /\ p \in Above(q)
         /\ \E k \in 1..MaxKey : /\ Begins(Append(p, k), q)
                                 /\ Append(p, k) \in Above(q) \cup {q}
<1>1. Len(p) \in Nat /\ Len(q) \in Nat /\ Len(p) <= Len(q) /\ \A i \in 1..Len(p) : p[i] = q[i]
  BY PathParts DEF Begins
<1>2. p = [i \in 1..Len(p) |-> q[i]]
  <2>1. p = [i \in 1..Len(p) |-> p[i]]
    BY PathParts
  <2> QED
    BY <1>1, <2>1
<1>3. Len(p) # Len(q)
  BY <1>2, PathParts
<1>4. p \in Above(q)
  BY <1>1, <1>2, <1>3 DEF Above
<1> DEFINE k == q[Len(p) + 1]
<1> DEFINE c == Append(p, k)
<1>5. k \in 1..MaxKey
  BY <1>1, <1>3, PathParts
<1>6. /\ c \in Seq(1..MaxKey) /\ Len(c) = Len(p) + 1 /\ c[Len(p) + 1] = k
      /\ \A i \in 1..Len(p) : c[i] = p[i]
  BY <1>1, <1>5, PathParts
<1>7. \A i \in 1..Len(p) + 1 : c[i] = q[i]
  BY <1>1, <1>6
<1>8. c = [i \in 1..Len(p) + 1 |-> q[i]]
  <2>1. c = [i \in 1..Len(c) |-> c[i]]
    BY <1>6
  <2> HIDE DEF c
  <2> QED
    BY <1>6, <1>7, <2>1
<1>9. Begins(c, q)
  BY <1>1, <1>3, <1>6, <1>7 DEF Begins
<1>10. c \in Above(q) \cup {q}
  <2>1. CASE Len(p) + 1 = Len(q)
    BY <1>8, <2>1, PathParts
  <2>2. CASE Len(p) + 1 # Len(q)
    <3> HIDE DEF c
    <3> QED
      BY <1>1, <1>3, <1>8, <2>2 DEF Above
  <2> QED
    BY <2>1, <2>2
<1> QED
  BY <1>4, <1>5, <1>9, <1>10

\* Every set of keys can be sorted: the keys below the least n for which those
\* up to n cannot could be sorted, and n goes at their end.
LEMMA KeysCanBeSorted ==
  ASSUME NEW S \in SUBSET (1..MaxKey)
  PROVE  Sorted(S) \in UNION {[1..n -> S] : n \in 0..MaxKey} /\ IsSorted(Sorted(S), S)
<1> DEFINE Can(T, n) == \E l \in 0..n : \E s \in [1..l -> T] : IsSorted(s, T)
<1> DEFINE Bad == {n \in Nat : \E T \in SUBSET (1..n) : ~Can(T, n)}
<1>1. ASSUME Bad # {} PROVE FALSE
  <2>1. PICK n \in Bad : \A m \in Bad : n <= m
    <3>1. Bad \in SUBSET Nat
      OBVIOUS
    <3> HIDE DEF Bad
    <3> QED
      BY <1>1, <3>1, Least
  <2>2. n \in Nat /\ \A m \in Nat : m < n => m \notin Bad
    <3> HIDE DEF Can
    <3> QED
      BY <2>1
  <2>3. PICK T \in SUBSET (1..n) : ~Can(T, n)
    <3> HIDE DEF Can
    <3> QED
      BY <2>1
  <2>4. n # 0
    <3>1. ASSUME n = 0 PROVE Can(T, n)
      <4>1. T = {} /\ 0 \in 0..n
        BY <2>2, <3>1
      <4>2. [i \in 1..0 |-> 0] \in [1..0 -> T] /\ DOMAIN [i \in 1..0 |-> 0] = {}
        OBVIOUS
      <4>3. IsSorted([i \in 1..0 |-> 0], T)
        BY <4>1, <4>2 DEF IsSorted
      <4> QED
        BY <4>1, <4>2, <4>3
    <3> QED
      BY <2>3, <3>1
  <2>5. \A U \in SUBSET (1..n - 1) : Can(U, n - 1)
    <3>1. n - 1 \in Nat /\ n - 1 < n
      BY <2>2, <2>4
    <3>2. n - 1 \notin Bad
      <4> HIDE DEF Bad
      <4> QED
        BY <2>2, <3>1
    <3> HIDE DEF Can
    <3> QED
      BY <3>1, <3>2
  <2> DEFINE U == T \ {n}
  <2>6. U \in SUBSET (1..n - 1)
    BY <2>2, <2>4
  <2>7. PICK l \in 0..n - 1 : \E s \in [1..l -> U] : IsSorted(s, U)
    BY <2>5, <2>6
  <2>8. PICK s \in [1..l -> U] : IsSorted(s, U)
    BY <2>7
  <2>9. l \in Nat /\ l \in 0..n /\ l + 1 \in 0..n /\ \A i \in 1..l : s[i] \in U /\ s[i] < n
    <3>1. l \in Nat /\ l \in 0..n /\ l + 1 \in 0..n
      BY <2>2, <2>4, <2>7
    <3>2. \A x \in U : x < n
      BY <2>2, <2>3
    <3>3. \A i \in 1..l : s[i] \in U
      <4> HIDE DEF U
      <4> QED
        BY <2>8
    <3> HIDE DEF U
    <3> QED
      BY <3>1, <3>2, <3>3
  <2>10. CASE n \notin T
    <3>1. U = T
      BY <2>10
    <3> QED
      BY <2>3, <2>8, <2>9, <3>1
  <2>11. CASE n \in T
    <3> DEFINE t == [i \in 1..l + 1 |-> IF i = l + 1 THEN n ELSE s[i]]
    <3>1. t \in [1..l + 1 -> T]
      BY <2>9, <2>11
    <3>2. DOMAIN t = 1..l + 1 /\ DOMAIN s = 1..l
      BY <2>8
    <3>3. t[l + 1] = n /\ \A i \in 1..l : t[i] = s[i]
      BY <2>9
    <3>4. \A i, j \in 1..l + 1 : i < j => t[i] < t[j]
      <4>1. \A i, j \in 1..l : i < j => s[i] < s[j]
        BY <2>8 DEF IsSorted
      <4> HIDE DEF t
      <4> QED
        BY <2>9, <3>3, <4>1
    <3>5. T = {t[i] : i \in 1..l + 1}
      <4>1. U = {s[i] : i \in 1..l}
        BY <2>8 DEF IsSorted
      <4>2. T = U \cup {n}
        BY <2>11
      <4>3. 1..l + 1 = (1..l) \cup {l + 1}
        BY <2>9
      <4> HIDE DEF t, U
      <4>4. ASSUME NEW x \in T PROVE \E i \in 1..l + 1 : x = t[i]
        <5>1. CASE x = n
          BY <3>3, <4>3, <5>1
        <5>2. CASE x \in U
          <6>1. PICK i \in 1..l : x = s[i]
            BY <4>1, <5>2
          <6> QED
            BY <3>3, <4>3, <6>1
        <5> QED
          BY <4>2, <5>1, <5>2
      <4>5. ASSUME NEW i \in 1..l + 1 PROVE t[i] \in T
        BY <3>1
      <4> QED
        BY <4>4, <4>5
    <3>6. IsSorted(t, T)
      <4> HIDE DEF t
      <4> QED
        BY <3>2, <3>4, <3>5 DEF IsSorted
    <3> HIDE DEF t
    <3> QED
      BY <2>3, <2>9, <3>1, <3>6
  <2> QED
    BY <2>10, <2>11
<1>2. Can(S, MaxKey)
  <2> HIDE DEF Can
  <2> QED
    BY <1>1, TreeAssumption
<1>3. PICK l \in 0..MaxKey : \E s \in [1..l -> S] : IsSorted(s, S)
  BY <1>2
<1>4. PICK s \in [1..l -> S] : IsSorted(s, S)
  BY <1>3
<1>5. s \in UNION {[1..n -> S] : n \in 0..MaxKey}
  BY <1>3, <1>4
<1> QED
  BY <1>4, <1>5 DEF Sorted

\* The children of a node that is in one of the documents: one for each key of
\* either, in their order.
LEMMA ChildrenOf ==
  ASSUME NEW p \in Paths, left \in Trees, right \in Trees
  PROVE  /\ Children(p) \in Seq(Paths)
         /\ \A i \in DOMAIN Children(p) : Begins(p, Children(p)[i]) /\ Above(Children(p)[i]) = Above(p) \cup {p}
         /\ \A i, j \in DOMAIN Children(p) : i < j => Before(Children(p)[i], Children(p)[j])
         /\ \A k \in KeysOf(p) : \E i \in DOMAIN Children(p) : Children(p)[i] = Append(p, k)
<1> DEFINE keys == Sorted(KeysOf(p))
<1>1. KeysOf(p) \in SUBSET (1..MaxKey)
  BY DEF KeysOf
<1>2. keys \in UNION {[1..n -> KeysOf(p)] : n \in 0..MaxKey} /\ IsSorted(keys, KeysOf(p))
  BY <1>1, KeysCanBeSorted
<1> DEFINE s == Children(p)
<1>3. s = [i \in DOMAIN keys |-> Append(p, keys[i])]
  BY DEF Children
<1> HIDE DEF keys, s
<1>4. PICK n \in 0..MaxKey : keys \in [1..n -> KeysOf(p)]
  BY <1>2
<1>5. n \in Nat /\ DOMAIN keys = 1..n /\ \A i \in 1..n : keys[i] \in KeysOf(p) /\ keys[i] \in 1..MaxKey
  BY <1>1, <1>4, TreeAssumption
<1>6. \A k \in KeysOf(p) : Append(p, k) \in Paths
  BY TreeAssumption DEF KeysOf
<1>7. s \in [1..n -> Paths] /\ DOMAIN s = 1..n /\ \A i \in 1..n : s[i] = Append(p, keys[i])
  BY <1>3, <1>5, <1>6
<1>8. s \in Seq(Paths)
  BY <1>5, <1>7
<1>9. ASSUME NEW i \in 1..n
      PROVE  Begins(p, s[i]) /\ Above(s[i]) = Above(p) \cup {p}
  BY <1>5, <1>6, <1>7, ChildOf
<1>10. ASSUME NEW i \in 1..n, NEW j \in 1..n, i < j
       PROVE  Before(s[i], s[j])
  <2>1. keys[i] < keys[j]
    BY <1>2, <1>5, <1>10 DEF IsSorted
  <2> QED
    BY <1>5, <1>6, <1>7, <2>1, ChildOf
<1>11. ASSUME NEW k \in KeysOf(p) PROVE \E i \in 1..n : s[i] = Append(p, k)
  <2>1. PICK i \in 1..n : k = keys[i]
    BY <1>2, <1>5 DEF IsSorted
  <2> QED
    BY <1>7, <2>1
<1>12. /\ s \in Seq(Paths)
       /\ \A i \in DOMAIN s : Begins(p, s[i]) /\ Above(s[i]) = Above(p) \cup {p}
       /\ \A i, j \in DOMAIN s : i < j => Before(s[i], s[j])
       /\ \A k \in KeysOf(p) : \E i \in DOMAIN s : s[i] = Append(p, k)
  BY <1>7, <1>8, <1>9, <1>10, <1>11
<1> QED
  BY <1>12 DEF s

\* Nothing is said of the documents that is not so after a step.
LEMMA DocumentsStay ==
  ASSUME UNCHANGED <<left, right>>
  PROVE  /\ \A p : (SameKind(p))' = SameKind(p)
         /\ \A p : (Differs(p))' = Differs(p)
         /\ \A c : (KindIsRight(c))' = KindIsRight(c)
  BY DEF SameKind, Differs, Unchanged, KindIsRight, At

\* What a step goes on from: the first of what is pending.
LEMMA HeadOfPending ==
  ASSUME DiffTypes, Diffing
  PROVE  /\ Head(pending) \in Paths /\ Head(pending) = pending[1]
         /\ Tail(pending) \in Seq(Paths) /\ Len(pending) \in Nat \ {0}
         /\ DOMAIN pending = 1..Len(pending) /\ DOMAIN Tail(pending) = 1..Len(pending) - 1
         /\ \A i \in DOMAIN Tail(pending) : i + 1 \in DOMAIN pending /\ Tail(pending)[i] = pending[i + 1]
         /\ Len(changes) \in Nat /\ DOMAIN changes = 1..Len(changes)
         /\ \A i \in DOMAIN changes : changes[i] \in Change /\ changes[i].path \in Paths
<1>1. pending \in Seq(Paths) /\ pending # <<>>
  BY DEF DiffTypes, Diffing
<1>2. Len(pending) \in Nat \ {0} /\ DOMAIN pending = 1..Len(pending)
  BY <1>1
<1>3. Head(pending) \in Paths /\ Head(pending) = pending[1]
  BY <1>1, <1>2
<1>4. Tail(pending) \in Seq(Paths) /\ DOMAIN Tail(pending) = 1..Len(pending) - 1
  BY <1>1, <1>2
<1>5. \A i \in 1..Len(pending) - 1 : i + 1 \in DOMAIN pending /\ Tail(pending)[i] = pending[i + 1]
  BY <1>1, <1>2
<1>6. changes \in Seq(Change)
  BY DEF DiffTypes
<1>7. Len(changes) \in Nat /\ DOMAIN changes = 1..Len(changes)
  BY <1>6
<1>8. \A i \in 1..Len(changes) : changes[i] \in Change
  BY <1>6
<1> QED
  BY <1>2, <1>3, <1>4, <1>5, <1>7, <1>8 DEF Change

LEMMA DiffInvInit == Init => DiffInv
<1> SUFFICES ASSUME Init PROVE DiffInv
  OBVIOUS
<1>1. changes = <<>> /\ truncated = FALSE /\ MaxChanges \in Nat
  BY TreeAssumption DEF Init, CompareInit, CompareNone
<1>2. DOMAIN changes = {} /\ Len(changes) = 0 /\ changes \in Seq(Change)
  BY <1>1
<1>3. Listed = {}
  BY <1>2 DEF Listed
<1>4. ListedSoFar
  BY <1>1, <1>2 DEF ListedSoFar
<1>5. CASE pending = <<>> /\ job \in {"compare", "none"}
  <2>1. pending \in Seq(Paths) /\ DOMAIN pending = {}
    BY <1>5
  <2>2. DiffTypes
    BY <1>1, <1>2, <1>5, <2>1 DEF DiffTypes
  <2>3. WalkedTo
    BY <1>2, <2>1 DEF WalkedTo
  <2>4. NothingSkipped
    BY <1>3, <1>5 DEF NothingSkipped
  <2> QED
    BY <1>4, <2>2, <2>3, <2>4 DEF DiffInv
<1>6. CASE job = "diff" /\ left \in Trees /\ right \in Trees /\ pending = << <<>> >>
  <2>1. <<>> \in Paths
    BY <1>6, TreeAssumption
  <2>2. pending \in Seq(Paths) /\ DOMAIN pending = {1} /\ pending[1] = <<>>
    BY <1>6, <2>1
  <2>3. Above(<<>>) = {}
    BY DEF Above
  <2>4. \A p \in Paths : Begins(<<>>, p)
    BY PathParts DEF Begins
  <2>5. DiffTypes
    BY <1>1, <1>2, <1>6, <2>2 DEF DiffTypes
  <2>6. WalkedTo
    BY <1>2, <2>2, <2>3 DEF WalkedTo
  <2>7. NothingSkipped
    BY <1>3, <2>2, <2>4 DEF NothingSkipped
  <2> QED
    BY <1>4, <2>5, <2>6, <2>7 DEF DiffInv
<1> QED
  BY <1>5, <1>6 DEF Init, CompareInit, CompareNone

\* What is left of what was pending is in order, and after what is listed.
LEMMA TailWalkedTo ==
  ASSUME DiffTypes, WalkedTo, Diffing, UNCHANGED <<left, right>>, pending' = Tail(pending)
  PROVE  /\ \A i \in DOMAIN pending' : \A p \in Above(pending'[i]) : (SameKind(p))'
         /\ \A i, j \in DOMAIN pending' : i < j => Before(pending'[i], pending'[j])
         /\ \A i \in DOMAIN changes, j \in DOMAIN pending' : Before(changes[i].path, pending'[j])
<1>1. \A i \in DOMAIN pending' : i \in Nat /\ i + 1 \in DOMAIN pending /\ pending'[i] = pending[i + 1]
  BY HeadOfPending
<1>2. \A i, j \in DOMAIN pending' : i < j => i + 1 < j + 1
  BY <1>1
<1> QED
  BY <1>1, <1>2, DocumentsStay DEF WalkedTo

LEMMA SkipStep ==
  ASSUME DiffInv, Skip
  PROVE  DiffInv'
<1> USE DEF DiffInv
<1>1. DiffTypes'
  BY HeadOfPending DEF Skip, DiffTypes, Diffing
<1>2. WalkedTo'
  BY TailWalkedTo DEF Skip, WalkedTo
<1>3. ListedSoFar'
  <2>1. Len(changes) = MaxChanges
    <3>1. Len(changes) \in Nat /\ MaxChanges \in Nat
      BY HeadOfPending, TreeAssumption DEF Skip
    <3>2. Len(changes) <= MaxChanges /\ Len(changes) >= MaxChanges
      BY DEF ListedSoFar, Skip, Full
    <3> QED
      BY <3>1, <3>2
  <2> QED
    BY <2>1, DocumentsStay DEF Skip, ListedSoFar
<1>4. NothingSkipped'
  BY DocumentsStay DEF Skip, NothingSkipped, Listed
<1> QED
  BY <1>1, <1>2, <1>3, <1>4

\* While there is room nothing was left out.
LEMMA NothingYet ==
  ASSUME DiffInv, Diffing, ~Full
  PROVE  /\ ~truncated /\ Len(changes) < MaxChanges
         /\ \A p \in Paths : Differs(p) => p \in Listed \/ \E j \in DOMAIN pending : Begins(pending[j], p)
<1>1. Len(changes) \in Nat /\ MaxChanges \in Nat /\ truncated \in BOOLEAN
  BY HeadOfPending, TreeAssumption DEF DiffInv, DiffTypes
<1> QED
  BY <1>1 DEF Full, DiffInv, ListedSoFar, NothingSkipped, Diffing

\* What begins with a node that walk() goes into and differs begins with one of
\* its children.
LEMMA BelowANode ==
  ASSUME NEW p \in Paths, NEW q \in Paths, left \in Trees, right \in Trees,
         SameKind(p), Differs(q), Begins(p, q)
  PROVE  \E i \in DOMAIN Children(p) : Begins(Children(p)[i], q)
<1>1. p # q
  BY DEF Differs
<1>2. q \in DOMAIN left \cup DOMAIN right
  BY DEF Differs, Unchanged, PyEqual, At, Missing
<1>3. PICK k \in 1..MaxKey : Begins(Append(p, k), q) /\ Append(p, k) \in Above(q) \cup {q}
  BY <1>1, GoesOn
<1>4. k \in KeysOf(p)
  BY <1>2, <1>3, TreeAssumption DEF KeysOf
<1> QED
  BY <1>3, <1>4, ChildrenOf

LEMMA WalkStep ==
  ASSUME DiffInv, Walk
  PROVE  DiffInv'
<1> DEFINE h == Head(pending)
<1> DEFINE c == Children(h)
<1> DEFINE t == Tail(pending)
<1>1. /\ DiffTypes /\ WalkedTo /\ ListedSoFar /\ NothingSkipped
      /\ Diffing /\ ~Full /\ SameKind(h) /\ left \in Trees /\ right \in Trees
  BY DEF DiffInv, DiffTypes, Walk, Diffing
<1>2. /\ h \in Paths /\ h = pending[1] /\ 1 \in DOMAIN pending
      /\ t \in Seq(Paths) /\ DOMAIN t = 1..Len(t) /\ Len(t) \in Nat
      /\ \A i \in DOMAIN t : i + 1 \in DOMAIN pending /\ 1 < i + 1 /\ t[i] = pending[i + 1]
      /\ \A i \in DOMAIN pending : i \in Nat /\ (i = 1 \/ (i - 1 \in DOMAIN t /\ pending[i] = t[i - 1]))
  BY <1>1, HeadOfPending
<1>3. /\ c \in Seq(Paths)
      /\ \A i \in DOMAIN c : Begins(h, c[i]) /\ Above(c[i]) = Above(h) \cup {h}
      /\ \A i, j \in DOMAIN c : i < j => Before(c[i], c[j])
  BY <1>1, <1>2, ChildrenOf
<1>4. Len(c) \in Nat /\ DOMAIN c = 1..Len(c) /\ \A i \in DOMAIN c : c[i] \in Paths
  BY <1>3
<1>5. pending' = c \o t /\ UNCHANGED <<job, left, right, changes, truncated>>
  BY DEF Walk
<1> HIDE DEF h, c, t
<1>6. /\ pending' \in Seq(Paths) /\ Len(pending') = Len(c) + Len(t) /\ DOMAIN pending' = 1..Len(c) + Len(t)
      /\ \A i \in DOMAIN c : i \in DOMAIN pending' /\ pending'[i] = c[i]
      /\ \A i \in DOMAIN t : i + Len(c) \in DOMAIN pending' /\ pending'[i + Len(c)] = t[i]
  BY <1>2, <1>3, <1>4, <1>5
<1>7. \A i \in DOMAIN pending' : i \in Nat /\ (i \in DOMAIN c \/ (i > Len(c) /\ i - Len(c) \in DOMAIN t))
  BY <1>2, <1>4, <1>6
<1>8. \A i \in DOMAIN pending' : \/ i \in DOMAIN c /\ pending'[i] = c[i]
                                 \/ /\ i > Len(c) /\ i - Len(c) \in DOMAIN t
                                    /\ pending'[i] = t[i - Len(c)]
  <2>1. ASSUME NEW i \in DOMAIN pending', i > Len(c), i - Len(c) \in DOMAIN t
        PROVE  pending'[i] = t[i - Len(c)]
    <3>1. i = (i - Len(c)) + Len(c)
      BY <1>4, <1>7
    <3> QED
      BY <1>6, <2>1, <3>1
  <2> QED
    BY <1>6, <1>7, <2>1
<1>9. DiffTypes'
  BY <1>1, <1>5, <1>6 DEF DiffTypes, Diffing
<1>10. WalkedTo'
  <2>1. ASSUME NEW i \in DOMAIN pending', NEW p \in Above(pending'[i]) PROVE SameKind(p)
    <3>1. CASE i \in DOMAIN c /\ pending'[i] = c[i]
      BY <1>1, <1>2, <1>3, <2>1, <3>1 DEF WalkedTo
    <3>2. CASE i - Len(c) \in DOMAIN t /\ pending'[i] = t[i - Len(c)]
      BY <1>1, <1>2, <2>1, <3>2 DEF WalkedTo
    <3> QED
      BY <1>8, <3>1, <3>2
  <2>2. ASSUME NEW i \in DOMAIN t PROVE t[i] \in Paths /\ Before(h, t[i])
    BY <1>1, <1>2 DEF WalkedTo
  <2>3. ASSUME NEW i \in DOMAIN pending', NEW j \in DOMAIN pending', i < j
        PROVE  Before(pending'[i], pending'[j])
    <3>1. CASE i \in DOMAIN c /\ j \in DOMAIN c
      BY <1>3, <1>6, <2>3, <3>1
    <3>2. CASE i \in DOMAIN c /\ j - Len(c) \in DOMAIN t /\ pending'[j] = t[j - Len(c)]
      <4>1. pending'[i] = c[i] /\ c[i] \in Paths /\ Begins(h, c[i])
        BY <1>3, <1>4, <1>6, <3>2
      <4> QED
        BY <1>2, <2>2, <3>2, <4>1, BeforeWhatBegins
    <3>3. CASE i > Len(c) /\ j > Len(c) /\ i - Len(c) \in DOMAIN t /\ j - Len(c) \in DOMAIN t
      <4>1. pending'[i] = pending[(i - Len(c)) + 1] /\ pending'[j] = pending[(j - Len(c)) + 1]
        BY <1>2, <1>8, <1>4, <3>3
      <4>2. (i - Len(c)) + 1 < (j - Len(c)) + 1
        BY <1>4, <1>7, <2>3
      <4> QED
        BY <1>1, <1>2, <3>3, <4>1, <4>2 DEF WalkedTo
    <3> QED
      BY <1>4, <1>7, <1>8, <2>3, <3>1, <3>2, <3>3
  <2>4. ASSUME NEW i \in DOMAIN changes, NEW j \in DOMAIN pending'
        PROVE  Before(changes[i].path, pending'[j])
    <3>1. changes[i].path \in Paths /\ Before(changes[i].path, h)
      BY <1>1, <1>2, HeadOfPending DEF WalkedTo
    <3>2. CASE j \in DOMAIN c /\ pending'[j] = c[j]
      BY <1>2, <1>3, <1>4, <3>1, <3>2, BeforeWhatBegins
    <3>3. CASE j - Len(c) \in DOMAIN t /\ pending'[j] = t[j - Len(c)]
      BY <1>1, <1>2, <3>3 DEF WalkedTo
    <3> QED
      BY <1>8, <3>2, <3>3
  <2> QED
    BY <1>5, <2>1, <2>3, <2>4, DocumentsStay DEF WalkedTo
<1>11. ListedSoFar'
  BY <1>1, <1>5, DocumentsStay DEF ListedSoFar
<1>12. NothingSkipped'
  <2>1. Listed' = Listed
    BY <1>5 DEF Listed
  <2>2. ASSUME NEW p \in Paths, Differs(p), p \notin Listed
        PROVE  \E j \in DOMAIN pending' : Begins(pending'[j], p)
    <3>1. PICK j \in DOMAIN pending : Begins(pending[j], p)
      BY <1>1, <2>2, NothingYet DEF DiffInv
    <3>2. CASE j = 1
      <4>1. Begins(h, p)
        BY <1>2, <3>1, <3>2
      <4>2. PICK i \in DOMAIN c : Begins(c[i], p)
        BY <1>1, <1>2, <2>2, <4>1, BelowANode DEF c
      <4> QED
        BY <1>6, <4>2
    <3>3. CASE j # 1
      BY <1>2, <1>6, <3>1, <3>3
    <3> QED
      BY <3>2, <3>3
  <2> QED
    BY <1>1, <1>5, <2>1, <2>2, DocumentsStay DEF NothingSkipped
<1> QED
  BY <1>9, <1>10, <1>11, <1>12 DEF DiffInv

\* What begins with a node that walk() does not go into and differs is that node.
LEMMA NotBelow ==
  ASSUME NEW p \in Paths, NEW q \in Paths, ~SameKind(p), Differs(q), Begins(p, q)
  PROVE  p = q
  BY GoesOn DEF Differs

LEMMA AddStep ==
  ASSUME DiffInv, Add
  PROVE  DiffInv'
<1> DEFINE h == Head(pending)
<1> DEFINE e == [path |-> h, kind |-> Kind(h)]
<1>1. /\ DiffTypes /\ WalkedTo /\ ListedSoFar /\ NothingSkipped
      /\ Diffing /\ ~Full /\ ~SameKind(h) /\ ~Unchanged(h)
      /\ UNCHANGED <<left, right>> /\ pending' = Tail(pending)
  BY DEF DiffInv, Add
<1>2. /\ h \in Paths /\ h = pending[1] /\ 1 \in DOMAIN pending
      /\ pending' \in Seq(Paths)
      /\ \A i \in DOMAIN pending' : i + 1 \in DOMAIN pending /\ 1 < i + 1 /\ pending'[i] = pending[i + 1]
      /\ \A i \in DOMAIN pending : i \in Nat /\ (i = 1 \/ (i - 1 \in DOMAIN pending' /\ pending[i] = pending'[i - 1]))
  BY <1>1, HeadOfPending
<1>3. e \in Change /\ e.path = h
  BY <1>2 DEF Change, Kind
<1>4. /\ changes' = Append(changes, e) /\ UNCHANGED <<job, left, right, truncated>>
  BY DEF Add
<1>5. ~truncated /\ Len(changes) < MaxChanges
      /\ \A p \in Paths : Differs(p) => p \in Listed \/ \E j \in DOMAIN pending : Begins(pending[j], p)
  BY <1>1, NothingYet DEF DiffInv
<1>6. changes \in Seq(Change) /\ Len(changes) \in Nat /\ DOMAIN changes = 1..Len(changes)
      /\ \A i \in DOMAIN changes : changes[i].path \in Paths
  BY <1>1, HeadOfPending DEF DiffTypes
<1>7. Differs(h) /\ KindIsRight(e)
  <2>1. \A p \in Above(h) : SameKind(p)
    BY <1>1, <1>2 DEF WalkedTo
  <2>2. At(left, h) # Missing \/ At(right, h) # Missing
    BY <1>1 DEF Unchanged, PyEqual, Missing
  <2> QED
    BY <1>1, <1>3, <2>1, <2>2 DEF Differs, KindIsRight, Kind
<1> HIDE DEF h, e
<1>8. /\ changes' \in Seq(Change) /\ Len(changes') = Len(changes) + 1
      /\ DOMAIN changes' = 1..Len(changes) + 1 /\ changes'[Len(changes) + 1] = e
      /\ \A i \in 1..Len(changes) : changes'[i] = changes[i]
  BY <1>3, <1>4, <1>6
<1>9. \A i \in DOMAIN changes' : i \in Nat /\ (i \in DOMAIN changes \/ i = Len(changes) + 1)
  BY <1>6, <1>8
<1>10. Listed' = Listed \cup {h}
  BY <1>3, <1>6, <1>8, <1>9 DEF Listed
<1>11. DiffTypes'
  BY <1>1, <1>2, <1>4, <1>8 DEF DiffTypes, Diffing
<1>12. WalkedTo'
  <2>1. ASSUME NEW j \in DOMAIN pending' PROVE Before(h, pending'[j])
    BY <1>1, <1>2 DEF WalkedTo
  <2>2. ASSUME NEW i \in DOMAIN changes', NEW j \in DOMAIN pending'
        PROVE  Before(changes'[i].path, pending'[j])
    BY <1>1, <1>3, <1>6, <1>8, <1>9, <2>1, TailWalkedTo
  <2> QED
    BY <1>1, <2>2, TailWalkedTo DEF WalkedTo
<1>13. ListedSoFar'
  <2>1. ASSUME NEW i \in DOMAIN changes' PROVE Differs(changes'[i].path) /\ KindIsRight(changes'[i])
    BY <1>1, <1>3, <1>6, <1>7, <1>8, <1>9 DEF ListedSoFar
  <2>2. ASSUME NEW i \in DOMAIN changes', NEW j \in DOMAIN changes', i < j
        PROVE  Before(changes'[i].path, changes'[j].path)
    <3>1. i \in DOMAIN changes /\ changes'[i] = changes[i]
      BY <1>6, <1>8, <1>9, <2>2
    <3>2. CASE j \in DOMAIN changes
      BY <1>1, <1>6, <1>8, <2>2, <3>1, <3>2 DEF ListedSoFar
    <3>3. CASE j = Len(changes) + 1
      BY <1>1, <1>2, <1>3, <1>8, <3>1, <3>3 DEF WalkedTo
    <3> QED
      BY <1>9, <3>2, <3>3
  <2>3. Len(changes') <= MaxChanges /\ ~truncated'
    BY <1>4, <1>5, <1>6, <1>8, TreeAssumption
  <2> QED
    BY <1>1, <2>1, <2>2, <2>3, DocumentsStay DEF ListedSoFar
<1>14. NothingSkipped'
  <2>1. ASSUME NEW p \in Paths, Differs(p), p \notin Listed'
        PROVE  \E j \in DOMAIN pending' : Begins(pending'[j], p)
    <3>1. PICK j \in DOMAIN pending : Begins(pending[j], p)
      BY <1>5, <1>10, <2>1
    <3>2. j # 1
      BY <1>1, <1>2, <1>10, <2>1, <3>1, NotBelow DEF h
    <3> QED
      BY <1>2, <3>1, <3>2
  <2>2. ASSUME NEW q \in Paths, Differs(q), Precedes(q, h), q \notin Listed
        PROVE  FALSE
    <3>1. PICK j \in DOMAIN pending : Begins(pending[j], q)
      BY <1>5, <2>2
    <3>2. CASE j = 1
      BY <1>2, <2>2, <3>1, <3>2, BeforeIsAnOrder
    <3>3. CASE j # 1
      <4>1. pending[j] \in Paths /\ Before(h, pending[j])
        BY <1>1, <1>2, <3>3 DEF WalkedTo
      <4>2. Before(h, q)
        BY <1>2, <3>1, <4>1, BeforeWhatBegins
      <4> QED
        BY <1>2, <2>2, <4>2, BeforeIsAnOrder
    <3> QED
      BY <3>2, <3>3
  <2> QED
    BY <1>1, <1>4, <1>10, <2>1, <2>2, DocumentsStay DEF NothingSkipped
<1> QED
  BY <1>11, <1>12, <1>13, <1>14 DEF DiffInv

LEMMA SameStep ==
  ASSUME DiffInv, Same
  PROVE  DiffInv'
<1> DEFINE h == Head(pending)
<1>1. /\ DiffTypes /\ WalkedTo /\ ListedSoFar /\ NothingSkipped
      /\ Diffing /\ ~Full /\ ~SameKind(h) /\ Unchanged(h)
      /\ UNCHANGED <<job, left, right, changes, truncated>> /\ pending' = Tail(pending)
  BY DEF DiffInv, Same
<1>2. DiffTypes'
  BY <1>1, HeadOfPending DEF DiffTypes, Diffing
<1>3. WalkedTo'
  BY <1>1, TailWalkedTo DEF WalkedTo
<1>4. ListedSoFar'
  BY <1>1, DocumentsStay DEF ListedSoFar
<1>5. NothingSkipped'
  <2>1. ASSUME NEW p \in Paths, Differs(p), p \notin Listed
        PROVE  \E j \in DOMAIN pending' : Begins(pending'[j], p)
    <3>1. PICK j \in DOMAIN pending : Begins(pending[j], p)
      BY <1>1, <2>1, NothingYet DEF DiffInv
    <3>2. j # 1
      <4>1. ASSUME j = 1 PROVE h = p
        BY <1>1, <2>1, <3>1, <4>1, HeadOfPending, NotBelow
      <4> QED
        BY <1>1, <2>1, <4>1 DEF Differs
    <3>3. j - 1 \in DOMAIN pending' /\ pending[j] = pending'[j - 1]
      BY <1>1, <3>2, HeadOfPending
    <3> QED
      BY <3>1, <3>3
  <2> QED
    BY <1>1, <2>1, DocumentsStay DEF NothingSkipped, Listed
<1> QED
  BY <1>2, <1>3, <1>4, <1>5 DEF DiffInv

LEMMA EndStep ==
  ASSUME DiffInv, ReturnDiff \/ Compare
  PROVE  DiffInv'
<1>1. UNCHANGED <<left, right, pending, changes, truncated>> /\ job' \in {"diffed", "compared"}
      /\ (job' = "diffed" => job = "diff") /\ pending = <<>>
  BY DEF ReturnDiff, Compare, DiffInv, DiffTypes
<1>2. DiffTypes'
  BY <1>1 DEF DiffInv, DiffTypes
<1>3. WalkedTo' /\ ListedSoFar'
  BY <1>1, DocumentsStay DEF DiffInv, WalkedTo, ListedSoFar
<1>4. NothingSkipped'
  BY <1>1, DocumentsStay DEF DiffInv, NothingSkipped, Listed
<1> QED
  BY <1>2, <1>3, <1>4 DEF DiffInv

LEMMA DiffStands ==
  ASSUME DiffInv, UNCHANGED compareVars
  PROVE  DiffInv'
<1>1. UNCHANGED <<left, right, pending, changes, truncated, job>>
  BY DEF compareVars
<1> QED
  BY <1>1, DocumentsStay DEF DiffInv, DiffTypes, WalkedTo, ListedSoFar, NothingSkipped, Listed

LEMMA DiffInvIsEnough == DiffInv => DiffListsTheFirst
<1> SUFFICES ASSUME DiffInv, job = "diffed" PROVE DiffListsTheFirst
  BY DEF DiffListsTheFirst
<1>1. pending = <<>> /\ DOMAIN pending = {} /\ truncated \in BOOLEAN
      /\ changes \in Seq(Change)
  BY DEF DiffInv, DiffTypes
<1>2. DOMAIN changes = 1..Len(changes) /\ \A i \in DOMAIN changes : i \in Nat /\ changes[i].path \in Paths
  <2>1. DOMAIN changes = 1..Len(changes) /\ \A i \in DOMAIN changes : i \in Nat /\ changes[i] \in Change
    BY <1>1
  <2> QED
    BY <2>1 DEF Change
<1>3. \A p \in Listed : Differs(p)
  BY DEF DiffInv, ListedSoFar, Listed
<1>4. \A p \in Listed, q \in Paths : Differs(q) /\ Precedes(q, p) => q \in Listed
  BY DEF DiffInv, NothingSkipped
<1>5. ASSUME NEW i \in DOMAIN changes, NEW j \in DOMAIN changes, changes[i].path = changes[j].path
      PROVE  i = j
  <2>1. i < j \/ j < i \/ i = j
    BY <1>2
  <2> QED
    BY <1>2, <1>5, <2>1, BeforeIsAnOrder DEF DiffInv, ListedSoFar
<1>6. \A i \in DOMAIN changes : KindIsRight(changes[i])
  BY DEF DiffInv, ListedSoFar
<1>7. IF truncated THEN Len(changes) = MaxChanges ELSE \A p \in Paths : Differs(p) => p \in Listed
  BY <1>1 DEF DiffInv, ListedSoFar, NothingSkipped
<1> QED
  BY <1>3, <1>4, <1>5, <1>6, <1>7 DEF DiffListsTheFirst

LEMMA DiffInvStep == DiffInv /\ [Next]_fileVars => DiffInv'
<1>1. CASE UNCHANGED compareVars
  BY <1>1, DiffStands
<1>2. CASE CompareNext
  BY <1>2, SkipStep, WalkStep, AddStep, SameStep, EndStep DEF CompareNext
<1> QED
  BY <1>1, <1>2 DEF Next, fileVars

\* A diff lists the first places where two documents differ, for any documents
\* and any bound on the list: walk() meets the paths in their order, whatever
\* is not listed when there is room is still to be looked at, and what is
\* looked at comes after what is listed (reporting/compare.py:32-58).
THEOREM FirstDifferences == Spec => []DiffListsTheFirst
<1>1. Spec => []DiffInv
  BY DiffInvInit, DiffInvStep, PTL DEF Spec
<1> QED
  BY <1>1, DiffInvIsEnough, PTL

=============================================================================
