-------------------------- MODULE GuardianRecovery --------------------------
(***************************************************************************)
(* The dialog that splits the key of a backup among guardians and puts it  *)
(* together again: the setup form, the documents it hands out (the backup, *)
(* a share for each guardian, the kit with both), and the recovery tab     *)
(* with its files, shares, preview and restore.                            *)
(*                                                                         *)
(* Reading a file, making a backup and opening one take time, and nothing  *)
(* is disabled meanwhile but their own button.  A file's onload runs with  *)
(* the state of the render in which the file was chosen.                   *)
(*                                                                         *)
(* What a restore does to the store is in CredentialStore.  Ciphers and    *)
(* secret sharing are abstracted to what they give: a key is put together  *)
(* from `threshold` shares of its set, none of them altered.               *)
(***************************************************************************)
EXTENDS Integers, Sequences, SequencesExt, FiniteSets

CONSTANTS
    TotalChoices,  \* numbers of guardians the form offers
    Recoverable,   \* the credentials in the store
    MaxSets,       \* bound: recovery sets made
    MaxReading,    \* bound: files being read at a time
    MaxMoves       \* bound: what the holder does in the form and the tab

ASSUME GuardianAssumption ==
    /\ TotalChoices \subseteq Nat \ {0, 1}
    /\ \E most \in TotalChoices : \A n \in TotalChoices : n <= most
    /\ MaxSets \in Nat \ {0} /\ MaxReading \in Nat /\ MaxMoves \in Nat

VARIABLES
    dialogTab,     \* "closed", "setup" or "recover"
    form,          \* guardians and threshold of the setup form
    generating,    \* the form a setup is being made from, or NoForm
    sets,          \* history: the recovery sets made, by recovery id
    shown,         \* the set whose documents the dialog hands out, 0 for none
    documents,     \* what the holder and the guardians have
    backup,        \* parsedBackup
    reading,       \* files being read, each with the state its onload will see
    collected,     \* collectedShares
    opening,       \* what handleDecrypt is opening, with which shares
    preview,       \* recoveredCreds, and how they were come by
    moves          \* history: moves the holder has made

guardianVars == <<dialogTab, form, generating, sets, shown, documents, backup,
                  reading, collected, opening, preview, moves>>
setupVars == <<form, generating, sets, shown, documents>>
recoverVars == <<backup, reading, collected, opening, preview>>

FirstForm == [total |-> CHOOSE n \in TotalChoices : \A m \in TotalChoices : m <= n, threshold |-> 2]
NoForm == [total |-> 0, threshold |-> 0]

\* Documents: `of` is the recovery id; `whole` is false of one that was altered
Backup(s, whole) == [kind |-> "backup", of |-> s, index |-> 0, whole |-> whole]
Kit(s) == [kind |-> "kit", of |-> s, index |-> 0, whole |-> TRUE]
Share(s, i, whole) == [kind |-> "share", of |-> s, index |-> i, whole |-> whole]
NoDocument == [kind |-> "none", of |-> 0, index |-> 0, whole |-> FALSE]

NotOpening == [backup |-> NoDocument, shares |-> {}]
NoPreview == [of |-> 0, creds |-> {}, by |-> {}]

Closed == dialogTab = "closed"

\* One or two sets made earlier; a share and a backup may have been altered since
GuardianInit ==
    /\ dialogTab = "closed" /\ form = FirstForm /\ generating = NoForm /\ shown = 0 /\ moves = 0
    /\ \E readable, a, b \in BOOLEAN :
          LET set == [total |-> 2, threshold |-> 2, creds |-> Recoverable, readable |-> readable] IN
          /\ sets \in {<<set>>, <<set, set>>} /\ Cardinality({n \in 1..3 : ~<<readable, a, b>>[n]}) <= 1
          /\ documents = {d \in {Backup(1, a), Backup(2, TRUE), Share(1, 1, b), Share(1, 2, TRUE),
                                 Share(2, 1, TRUE)} : d.of <= Len(sets)}
    /\ backup = NoDocument /\ reading = <<>> /\ collected = {}
    /\ opening = NotOpening /\ preview = NoPreview

Moves == moves < MaxMoves /\ moves' = moves + 1

---------------------------------------------------------------------------
\* The dialog: a component with its state, gone when it is closed
OpenDialog(tab) ==
    /\ Closed /\ dialogTab' = tab
    /\ UNCHANGED <<setupVars, recoverVars, moves>>

CloseDialog ==
    /\ ~Closed /\ dialogTab' = "closed"
    /\ form' = FirstForm /\ generating' = NoForm /\ shown' = 0
    /\ backup' = NoDocument /\ reading' = <<>> /\ collected' = {}
    /\ opening' = NotOpening /\ preview' = NoPreview
    /\ UNCHANGED <<sets, documents, moves>>

SelectTab(tab) ==
    /\ ~Closed /\ dialogTab # tab /\ dialogTab' = tab
    /\ UNCHANGED <<setupVars, recoverVars, moves>>

---------------------------------------------------------------------------
\* The setup form; its thresholds are 2 .. total
FormShown == dialogTab = "setup" /\ shown = 0

ChangeTotal(n) ==
    /\ FormShown /\ n # form.total
    /\ form' = [total |-> n, threshold |-> IF form.threshold > n THEN n ELSE form.threshold]
    /\ Moves /\ UNCHANGED <<dialogTab, generating, sets, shown, documents, recoverVars>>

ChangeThreshold(k) ==
    /\ FormShown /\ k \in 2..form.total /\ k # form.threshold
    /\ form' = [form EXCEPT !.threshold = k]
    /\ Moves /\ UNCHANGED <<dialogTab, generating, sets, shown, documents, recoverVars>>

\* handleGenerateSetup, with the form as it is when the button is pressed
Generate ==
    /\ FormShown /\ generating = NoForm /\ Len(sets) < MaxSets
    /\ generating' = form
    /\ Moves /\ UNCHANGED <<dialogTab, form, sets, shown, documents, recoverVars>>

\* createGuardianRecoverySetup refuses what cannot be split
Splittable(f) == f.threshold >= 2 /\ f.total >= f.threshold /\ f.total <= 255

\* loadCredentials has answered; hidden fields leave credentials unreadable
Generated ==
    /\ generating # NoForm /\ generating' = NoForm
    /\ IF Splittable(generating)
       THEN /\ \E readable \in BOOLEAN :
                  sets' = Append(sets, [total |-> generating.total, threshold |-> generating.threshold,
                                        creds |-> Recoverable, readable |-> readable])
            /\ shown' = Len(sets')
       ELSE UNCHANGED <<sets, shown>>
    /\ UNCHANGED <<dialogTab, form, documents, recoverVars, moves>>

\* The backup, the kit; a share downloaded, copied or shown as a QR code
HandedOut == {Backup(shown, TRUE), Kit(shown)} \cup {Share(shown, i, TRUE) : i \in 1..sets[shown].total}

HandOut(document) ==
    /\ dialogTab = "setup" /\ document \notin documents
    /\ documents' = documents \cup {document}
    /\ Moves /\ UNCHANGED <<dialogTab, form, generating, sets, shown, recoverVars>>

---------------------------------------------------------------------------
\* The recovery tab
Collecting == dialogTab = "recover" /\ preview = NoPreview

\* parseGuardianBackup: of a kit, the backup in it
ParsedBackup(document) ==
    CASE document.kind = "backup" -> document
      [] document.kind = "kit" -> Backup(document.of, document.whole)
      [] OTHER -> NoDocument

\* handleParseBackupText: what was recovered before goes
ParseBackup(document) ==
    /\ backup' = ParsedBackup(document) /\ preview' = NoPreview

\* The text pasted, or cleared: then nothing is parsed and the preview stays
PasteBackup(document) ==
    /\ Collecting /\ ParseBackup(document)
    /\ Moves /\ UNCHANGED <<dialogTab, reading, collected, opening, setupVars>>

ClearBackup ==
    /\ Collecting /\ backup' = NoDocument
    /\ Moves /\ UNCHANGED <<dialogTab, reading, collected, opening, preview, setupVars>>

\* parseGuardianShare, the set it belongs to, one share of each guardian
Accepts(share, parsed, shares) ==
    /\ share.kind = "share"
    /\ parsed # NoDocument => share.of = parsed.of
    /\ \A s \in shares : s.index # share.index

EnterShare(document) ==
    /\ Collecting /\ Accepts(document, backup, collected)
    /\ collected' = collected \cup {document}
    /\ Moves /\ UNCHANGED <<dialogTab, backup, reading, opening, preview, setupVars>>

DropShare(s) ==
    /\ Collecting /\ s \in collected
    /\ collected' = collected \ {s} /\ preview' = NoPreview
    /\ Moves /\ UNCHANGED <<dialogTab, backup, reading, opening, setupVars>>

ChooseFile(input, document) ==
    /\ Collecting /\ Len(reading) < MaxReading
    /\ reading' = Append(reading, [input |-> input, document |-> document,
                                   backup |-> IF input = "share" THEN backup ELSE NoDocument,
                                   shares |-> IF input = "share" THEN collected ELSE {}])
    /\ Moves /\ UNCHANGED <<dialogTab, backup, collected, opening, preview, setupVars>>

\* onload: the shares it adds to are those of the render it was chosen in
FileIsRead(i) ==
    LET file == reading[i] IN
    /\ reading' = RemoveAt(reading, i)
    /\ IF file.input = "backup"
       THEN ParseBackup(file.document) /\ UNCHANGED collected
       ELSE /\ collected' = IF Accepts(file.document, file.backup, file.shares)
                            THEN file.shares \cup {file.document} ELSE collected
            /\ UNCHANGED <<backup, preview>>
    /\ UNCHANGED <<dialogTab, opening, setupVars, moves>>

\* recoverCredentialsFromShares: all the shares given go into the key, and its
\* fingerprint and the envelope give away an altered one
Opens(b, shares) ==
    /\ Cardinality(shares) >= sets[b.of].threshold
    /\ \A s \in shares : s.of = b.of /\ s.whole
    /\ b.whole

\* (Faulty: a credential that cannot be read is passed over)
OpenedSkipping(b, shares) ==
    IF Opens(b, shares)
    THEN [of |-> b.of, creds |-> IF sets[b.of].readable THEN sets[b.of].creds ELSE {}, by |-> shares]
    ELSE NoPreview

\* What it answers with; parseCredential refuses them all for one that cannot be read
Opened(b, shares) ==
    IF Opens(b, shares) /\ (sets[b.of].readable \/ sets[b.of].creds = {})
    THEN [of |-> b.of, creds |-> sets[b.of].creds, by |-> shares]
    ELSE NoPreview

\* The button asks for as many shares as the backup names
Decrypt ==
    /\ Collecting /\ opening = NotOpening /\ backup # NoDocument
    /\ Cardinality(collected) >= sets[backup.of].threshold
    /\ opening' = [backup |-> backup, shares |-> collected]
    /\ Moves /\ UNCHANGED <<dialogTab, backup, reading, collected, preview, setupVars>>

\* The answer is shown whatever has been parsed or removed meanwhile
Decrypted ==
    /\ opening # NotOpening /\ opening' = NotOpening
    /\ LET answer == Opened(opening.backup, opening.shares)
       IN  preview' = IF answer = NoPreview THEN preview ELSE answer
    /\ UNCHANGED <<dialogTab, backup, reading, collected, setupVars, moves>>

\* The preview: back to the shares, or into the store (as CredentialStore has it)
Previewing == dialogTab = "recover" /\ preview # NoPreview

Back ==
    /\ Previewing /\ preview' = NoPreview
    /\ Moves /\ UNCHANGED <<dialogTab, backup, reading, collected, opening, setupVars>>

\* onRestored closes the dialog, before its words of success are seen
ApplyRestore == Previewing /\ CloseDialog

GuardianNext ==
    \/ \E tab \in {"setup", "recover"} : OpenDialog(tab) \/ SelectTab(tab)
    \/ CloseDialog
    \/ \E n \in TotalChoices : ChangeTotal(n)
    \/ \E k \in 2..form.total : ChangeThreshold(k)
    \/ Generate \/ Generated
    \/ shown # 0 /\ \E d \in HandedOut : HandOut(d)
    \/ \E d \in documents :
          PasteBackup(d) \/ EnterShare(d) \/ \E input \in {"backup", "share"} : ChooseFile(input, d)
    \/ ClearBackup
    \/ \E s \in collected : DropShare(s)
    \/ \E i \in DOMAIN reading : FileIsRead(i)
    \/ Decrypt \/ Decrypted \/ Back \/ ApplyRestore

GuardianSpec == GuardianInit /\ [][GuardianNext]_guardianVars
---------------------------------------------------------------------------
\* "Entering any threshold of shares reconstructs the key client-side and
\* restores credentials" (README.md:278), and nothing less does: what the
\* dialog offers to restore is all that one recovery set sealed, and enough
\* unaltered shares of that very set were put in, whatever was pasted, chosen,
\* removed or answered late on the way (guardian.ts, the dialog).
PreviewIsEarned ==
    preview # NoPreview =>
        LET mine == {s \in preview.by : s.of = preview.of /\ s.whole} IN
        /\ preview.creds = sets[preview.of].creds
        /\ Cardinality({s.index : s \in mine}) >= sets[preview.of].threshold

\* Not checked: what is previewed is the backup parsed now; a decryption under
\* way when the backup is changed is shown all the same
\* (GuardianRecoveryModal.tsx:177-186).
PreviewIsOfBackup == preview # NoPreview => preview.of = backup.of

\* Not checked: a share taken stays until it is removed; of two files chosen
\* before either is read, the second puts back the list without the first
\* (GuardianRecoveryModal.tsx:137-147, 163).
SharesTakenStay ==
    [][\A s \in collected \ collected' : Closed' \/ DropShare(s)]_guardianVars
=============================================================================
