------------------------------ MODULE Contracts ------------------------------
(***************************************************************************)
(* The tracking code of a labor contract and the PDFs made of it:          *)
(* contract-service/services.js.  Handlers run their transactions beside   *)
(* one another; a row one of them has written is locked until it ends.     *)
(* The sequence is not part of a transaction, and neither is the storage.  *)
(***************************************************************************)
EXTENDS Naturals

CONSTANTS
  Contracts,
  ContractHandlers,
  MaxCode,         \* bound on worker_contract_code_seq
  Free             \* no handler

ASSUME ContractsAssumption == MaxCode \in Nat /\ Free \notin ContractHandlers

VARIABLES
  contracts,       \* worker_contracts: tracking code (0: none), PDF and signed file
  sequence,        \* the last value of worker_contract_code_seq
  lockedBy,        \* contract -> the handler whose transaction wrote its row
  files,           \* the storage: [contract, code, kind]
  documents,       \* contract_documents, worker_documents
  making           \* handler -> what it is making, with the code it has read

contractsVars == <<contracts, sequence, lockedBy, files, documents, making>>

TrackingCodes == 0 .. MaxCode
Files == [contract : Contracts, code : TrackingCodes, kind : {"generated", "signed"}]
NoFile == [kind |-> "none"]
Idle   == [pc |-> "idle"]

ContractsTypeOK ==
  /\ contracts \in [Contracts ->
       [code : TrackingCodes, pdf : Files \cup {NoFile}, signed : Files \cup {NoFile}]]
  /\ sequence \in TrackingCodes
  /\ lockedBy \in [Contracts -> ContractHandlers \cup {Free}]
  /\ files \subseteq Files
  /\ documents \subseteq Files
  /\ making \in [ContractHandlers -> {Idle} \cup
       [pc : {"read", "coded", "stored"}, what : {"generate", "download"},
        contract : Contracts, code : TrackingCodes] \cup
       [pc : {"signed"}, contract : Contracts]]

-------------------------------------------------------------------------------
\* generateContractPdf and downloadContractStream begin a transaction and read the
\* contract with its code; a signed contract is downloaded as it is.
ReadContract(h, c, what) ==
  /\ making[h] = Idle
  /\ what = "download" => contracts[c].signed = NoFile
  /\ making' = [making EXCEPT ![h] =
       [pc |-> "read", what |-> what, contract |-> c, code |-> contracts[c].code]]
  /\ UNCHANGED <<contracts, sequence, lockedBy, files, documents>>

EnsureCodeOfRead(h) ==                                      \* faulty variant
  LET m == making[h] IN
  /\ m.pc = "read"
  /\ \/ /\ m.code # 0
        /\ making' = [making EXCEPT ![h].pc = "coded"]
        /\ UNCHANGED <<sequence, lockedBy>>
     \/ /\ m.code = 0
        /\ lockedBy[m.contract] = Free
        /\ sequence < MaxCode
        /\ sequence' = sequence + 1
        /\ lockedBy' = [lockedBy EXCEPT ![m.contract] = h]
        /\ making' = [making EXCEPT ![h].pc = "coded", ![h].code = sequence + 1]
  /\ UNCHANGED <<contracts, files, documents>>

\* ensureContractTrackingCode: FOR UPDATE waits for the other transaction and reads
\* the row it leaves; a code is drawn where there is none.
EnsureCode(h) ==
  LET m == making[h]
      current == contracts[m.contract].code
      drawn == IF current = 0 THEN sequence + 1 ELSE sequence
  IN
  /\ m.pc = "read"
  /\ \/ /\ m.code # 0
        /\ making' = [making EXCEPT ![h].pc = "coded"]
        /\ UNCHANGED <<sequence, lockedBy>>
     \/ /\ m.code = 0
        /\ lockedBy[m.contract] = Free
        /\ drawn <= MaxCode
        /\ sequence' = drawn
        /\ lockedBy' = [lockedBy EXCEPT ![m.contract] = h]
        /\ making' = [making EXCEPT ![h].pc = "coded",
                                    ![h].code = IF current = 0 THEN drawn ELSE current]
  /\ UNCHANGED <<contracts, files, documents>>

Unlocked(h) == [c \in Contracts |-> IF lockedBy[c] = h THEN Free ELSE lockedBy[c]]

Made(m, kind) == [contract |-> m.contract, code |-> m.code, kind |-> kind]

\* The PDF shows the code and is uploaded before the row names it.
StorePdf(h) ==
  /\ making[h].pc = "coded"
  /\ making[h].what = "generate"
  /\ files' = files \cup {Made(making[h], "generated")}
  /\ making' = [making EXCEPT ![h].pc = "stored"]
  /\ UNCHANGED <<contracts, sequence, lockedBy, documents>>

\* generated_pdf_url, registerGeneratedContractDocument, and the commit.
CommitPdf(h) ==
  LET m == making[h] IN
  /\ m.pc = "stored"
  /\ lockedBy[m.contract] \in {Free, h}
  /\ contracts' = [contracts EXCEPT
       ![m.contract].code = IF lockedBy[m.contract] = h THEN m.code ELSE @,
       ![m.contract].pdf  = Made(m, "generated")]
  /\ documents' = documents \cup {Made(m, "generated")}
  /\ lockedBy' = Unlocked(h)
  /\ making' = [making EXCEPT ![h] = Idle]
  /\ UNCHANGED <<sequence, files>>

\* The PDF of a download goes to the client; its code stays.
CommitDownload(h) ==
  LET m == making[h] IN
  /\ m.pc = "coded"
  /\ m.what = "download"
  /\ contracts' = [contracts EXCEPT
       ![m.contract].code = IF lockedBy[m.contract] = h THEN m.code ELSE @]
  /\ lockedBy' = Unlocked(h)
  /\ making' = [making EXCEPT ![h] = Idle]
  /\ UNCHANGED <<sequence, files, documents>>

\* Any query or the upload fails, or the onboarding the PDF was made for does.
Fail(h) ==
  /\ making[h] # Idle
  /\ lockedBy' = Unlocked(h)
  /\ making' = [making EXCEPT ![h] = Idle]
  /\ UNCHANGED <<contracts, sequence, files, documents>>

SignedFile(c) == [contract |-> c, code |-> 0, kind |-> "signed"]

\* uploadSignedContract stores the file, then writes the row in a transaction.
StoreSigned(h, c) ==
  /\ making[h] = Idle
  /\ files' = files \cup {SignedFile(c)}
  /\ making' = [making EXCEPT ![h] = [pc |-> "signed", contract |-> c]]
  /\ UNCHANGED <<contracts, sequence, lockedBy, documents>>

CommitSigned(h) ==
  LET c == making[h].contract IN
  /\ making[h].pc = "signed"
  /\ lockedBy[c] = Free
  /\ contracts' = [contracts EXCEPT ![c].signed = SignedFile(c)]
  /\ documents' = documents \cup {SignedFile(c)}
  /\ making' = [making EXCEPT ![h] = Idle]
  /\ UNCHANGED <<sequence, lockedBy, files>>

ContractsInit ==
  /\ contracts = [c \in Contracts |-> [code |-> 0, pdf |-> NoFile, signed |-> NoFile]]
  /\ sequence = 0
  /\ lockedBy = [c \in Contracts |-> Free]
  /\ files = {}
  /\ documents = {}
  /\ making = [h \in ContractHandlers |-> Idle]

ContractsNext ==
  \E h \in ContractHandlers :
    \/ \E c \in Contracts :
         \/ \E what \in {"generate", "download"} : ReadContract(h, c, what)
         \/ StoreSigned(h, c)
    \/ EnsureCode(h) \/ StorePdf(h) \/ CommitPdf(h) \/ CommitDownload(h)
    \/ CommitSigned(h) \/ Fail(h)

-------------------------------------------------------------------------------
\* Every PDF on file shows the code its contract has, no two contracts have the
\* same one, and every document on file is in the storage, whichever handlers drew
\* a code at the same time and whichever of them failed.
PdfShowsCode ==
  /\ \A d \in documents :
       /\ d \in files
       /\ d.kind = "generated" => d.code # 0 /\ d.code = contracts[d.contract].code
  /\ \A c, d \in Contracts :
       c # d /\ contracts[c].code # 0 => contracts[c].code # contracts[d].code
===============================================================================
