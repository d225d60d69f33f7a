------------------------- MODULE ParamStore_proofs -------------------------
(***************************************************************************)
(* Proofs about the parameter store, for every set of tokens and every     *)
(* set of values of the flag byte: that a save is atomic, and that what is *)
(* stored of the activation is what the server has answered.               *)
(***************************************************************************)
EXTENDS ParamStore, TLAPS

\* What a save has done so far, by the operation it is at.  Until FLAG is
\* touched the sector being written is the one not selected; once FLAG is
\* touched both sectors hold whole blocks, whichever it selects.
SaveProgress ==
    /\ pc \in {"erase", "write", "eraseFlag"} => Selected(flag) # target
    /\ pc \in {"eraseFlag", "writeFlag"} => sector[target] = esp_param
    /\ pc = "writeFlag" => flag = Erased
    /\ pc = "writeFlag" => sector[Other(target)] # Torn

IInv == /\ StoreTypeOK
        /\ SelectedSectorWhole
        /\ RamMatchesFlash
        /\ SaveProgress

-----------------------------------------------------------------------------
\* Torn is not a block, and neither erased nor factory contents are Torn.
LEMMA BlockFacts ==
    /\ Torn \notin Param
    /\ Blank \in Param
    /\ Factory \in Param
    /\ {0, 1, 255} \subseteq FlagByte
    /\ FlagByte \subseteq Int
BY ParamStoreAssumption DEF Param, AnyToken, Part, Blank, Factory

\* A block saved by one of the callers is a block.
LEMMA SavedIsParam ==
    /\ \A t \in AnyToken, f \in FlagByte : [token |-> t, activeflag |-> f] \in Param
    /\ \A p \in Param : \A f \in {0, 1} : [p EXCEPT !.activeflag = f] \in Param
    /\ \A p \in Param : [p EXCEPT !.activeflag = 0].token = p.token
    /\ \A p \in Param : [p EXCEPT !.activeflag = 0].activeflag = 0
BY BlockFacts DEF Param

\* set_token leaves a field of the same kind.
LEMMA FieldType ==
    ASSUME esp_param \in Param, NEW t \in Token, NEW size \in Size
    PROVE  Field(t, size) \in AnyToken
<1>1. esp_param.token \in AnyToken
    BY DEF Param
<1> QED
    BY <1>1 DEF AnyToken, Part, Field, Size

\* What a token that does not fit leaves is a block.
LEMMA LongTokenSaves ==
    ASSUME esp_param \in Param, NEW t \in Token, SetLongToken(t)
    PROVE  \E p \in Param : /\ Save(p) /\ p.token \in unfounded'
                            /\ unfounded' \subseteq unfounded \cup AnyToken
<1> DEFINE token == Field(t, "full")
<1>1. token \in AnyToken
    BY FieldType DEF Size
<1>2. unfounded' = unfounded \cup {token}
    BY DEF SetLongToken
<1>3. PICK byte \in FlagByte \ {0} : Save([token |-> token, activeflag |-> byte])
    BY DEF SetLongToken
<1> HIDE DEF token
<1>4. [token |-> token, activeflag |-> byte] \in Param
    BY <1>1, SavedIsParam
<1>5. [token |-> token, activeflag |-> byte].token = token
    OBVIOUS
<1> QED
    BY <1>1, <1>2, <1>3, <1>4, <1>5

\* The factory image satisfies the invariant.
LEMMA InitIInv == Init => IInv
<1> SUFFICES ASSUME Init PROVE IInv
    OBVIOUS
<1> USE BlockFacts
<1>1. StoreTypeOK
    BY DEF Init, StoreTypeOK, Sectors, Erased, Saving
<1>2. SelectedSectorWhole
    BY DEF Init, SelectedSectorWhole, Load, Selected, Sectors, Erased
<1>3. RamMatchesFlash /\ SaveProgress
    BY DEF Init, RamMatchesFlash, SaveProgress
<1> QED
    BY <1>1, <1>2, <1>3 DEF IInv

\* Starting a save of a block preserves the invariant.
LEMMA SaveIInv ==
    ASSUME IInv, NEW p \in Param, Save(p)
    PROVE  IInv'
<1> USE BlockFacts DEF Save, IInv
<1>1. StoreTypeOK'
    BY DEF StoreTypeOK, Saving, Other, Sectors
<1>2. SelectedSectorWhole'
    BY DEF SelectedSectorWhole, Load, Selected
<1>3. RamMatchesFlash'
    BY DEF RamMatchesFlash
<1>4. SaveProgress'
    BY DEF SaveProgress, Selected, Other
<1> QED
    BY <1>1, <1>2, <1>3, <1>4

\* A power failure preserves it: the operation cut short is either on the
\* sector not selected, or on FLAG while both sectors are whole.
LEMMA PowerLossIInv ==
    ASSUME IInv, PowerLoss
    PROVE  IInv'
<1> USE BlockFacts
<1>1. pc' = "off" /\ esp_param' = esp_param /\ target' = target
    BY DEF PowerLoss
<1>2. CASE UNCHANGED <<sector, flag>>
    BY <1>1, <1>2 DEF IInv, StoreTypeOK, Saving, SelectedSectorWhole, Load,
                      RamMatchesFlash, SaveProgress
<1>3. CASE sector' = SectorCutShort /\ flag' \in FlagCutShort
  <2>1. CASE pc \in {"erase", "write"}
    <3>1. sector' = [sector EXCEPT ![target] = Torn] /\ flag' = flag
        BY <1>3, <2>1 DEF SectorCutShort, FlagCutShort
    <3>2. Selected(flag) # target /\ target \in Sectors /\ Selected(flag) \in Sectors
        BY <2>1 DEF IInv, SaveProgress, StoreTypeOK, Selected, Sectors
    <3>3. Load' = Load
        BY <3>1, <3>2 DEF Load, Selected, IInv, StoreTypeOK
    <3> QED
        BY <1>1, <3>1, <3>3 DEF IInv, StoreTypeOK, Saving, SelectedSectorWhole,
                                RamMatchesFlash, SaveProgress
  <2>2. CASE pc \in {"eraseFlag", "writeFlag"}
    <3>1. sector' = sector /\ flag' \in FlagByte
        BY <1>3, <2>2 DEF SectorCutShort, FlagCutShort, EraseCutShort, WriteCutShort
    <3>2. sector[0] # Torn /\ sector[1] # Torn
        BY <2>2 DEF IInv, SaveProgress, StoreTypeOK, SelectedSectorWhole, Load,
                    Selected, Other, Sectors
    <3> QED
        BY <1>1, <3>1, <3>2 DEF IInv, StoreTypeOK, Saving, SelectedSectorWhole, Load,
                                Selected, RamMatchesFlash, SaveProgress
  <2>3. CASE pc = "idle"
    <3>1. sector' = sector /\ flag' = flag
        BY <1>3, <2>3 DEF SectorCutShort, FlagCutShort
    <3> QED
        BY <3>1, <1>2
  <2> QED
    BY <2>1, <2>2, <2>3 DEF PowerLoss, IInv, StoreTypeOK, Saving
<1> QED
    BY <1>2, <1>3 DEF PowerLoss

\* Every step preserves the invariant.
LEMMA NextIInv == IInv /\ [Next]_vars => IInv'
<1> SUFFICES ASSUME IInv, [Next]_vars PROVE IInv'
    OBVIOUS
<1> USE BlockFacts
<1>1. CASE Boot
  <2>1. esp_param' \in Param
    BY <1>1 DEF Boot, IInv, StoreTypeOK, SelectedSectorWhole, Load, Selected, Sectors
  <2> QED
    BY <1>1, <2>1 DEF Boot, IInv, StoreTypeOK, Saving, SelectedSectorWhole, Load,
                      RamMatchesFlash, SaveProgress
<1>2. ASSUME NEW t \in Token, NEW size \in Size, SetToken(t, size) PROVE IInv'
    BY <1>2, SaveIInv, SavedIsParam, FieldType DEF SetToken, IInv, StoreTypeOK
<1>12. ASSUME NEW t \in Token, SetLongToken(t) PROVE IInv'
    BY <1>12, SaveIInv, LongTokenSaves DEF IInv, StoreTypeOK
<1>3. ASSUME NEW f \in {0, 1}, SetActive(f) PROVE IInv'
    BY <1>3, SaveIInv, SavedIsParam DEF SetActive, IInv, StoreTypeOK
<1>4. CASE EraseSector
  <2>1. Selected(flag) # target /\ Selected(flag) \in Sectors
    BY <1>4 DEF EraseSector, IInv, SaveProgress, Selected, Sectors
  <2> QED
    BY <1>4, <2>1 DEF EraseSector, IInv, StoreTypeOK, Saving, SelectedSectorWhole,
                      Load, RamMatchesFlash, SaveProgress
<1>5. CASE WriteSector
  <2>1. Selected(flag) # target /\ Selected(flag) \in Sectors
    BY <1>5 DEF WriteSector, IInv, SaveProgress, Selected, Sectors
  <2> QED
    BY <1>5, <2>1 DEF WriteSector, IInv, StoreTypeOK, Saving, SelectedSectorWhole,
                      Load, RamMatchesFlash, SaveProgress
<1>6. CASE EraseFlag
  <2>1. sector[target] = esp_param /\ sector[Other(target)] # Torn
    BY <1>6 DEF EraseFlag, IInv, SaveProgress, StoreTypeOK, SelectedSectorWhole,
                Load, Selected, Other, Sectors
  <2>2. sector[0] # Torn /\ sector[1] # Torn
    BY <2>1 DEF IInv, StoreTypeOK, Other, Sectors
  <2> QED
    BY <1>6, <2>1, <2>2 DEF EraseFlag, IInv, StoreTypeOK, Saving, SelectedSectorWhole,
                            Load, Selected, RamMatchesFlash, SaveProgress, Erased
<1>7. CASE WriteFlag
  <2>1. sector[target] = esp_param /\ Selected(target) = target /\ target \in FlagByte
    BY <1>7 DEF WriteFlag, IInv, SaveProgress, StoreTypeOK, Selected, Sectors
  <2> QED
    BY <1>7, <2>1 DEF WriteFlag, IInv, StoreTypeOK, Saving, SelectedSectorWhole,
                      Load, RamMatchesFlash, SaveProgress
<1>8. CASE Reset
    BY <1>8 DEF Reset, IInv, StoreTypeOK, Saving, SelectedSectorWhole, Load,
                RamMatchesFlash, SaveProgress
<1>9. CASE PowerLoss
    BY <1>9, PowerLossIInv
<1>10. CASE Ask
  <2>1. esp_param' \in Param /\ esp_param'.token = esp_param.token /\ esp_param'.activeflag = 0
    BY <1>10, SavedIsParam DEF Ask, IInv, StoreTypeOK
  <2> QED
    BY <1>10, <2>1 DEF Ask, IInv, StoreTypeOK, Saving, SelectedSectorWhole,
                       Load, RamMatchesFlash, SaveProgress
<1>11. CASE UNCHANGED vars
    BY <1>11 DEF vars, storeVars, IInv, StoreTypeOK, SelectedSectorWhole, Load,
                 RamMatchesFlash, SaveProgress
<1> QED
    BY <1>1, <1>2, <1>3, <1>4, <1>5, <1>6, <1>7, <1>8, <1>9, <1>10,
       <1>11, <1>12 DEF Next, StoreStep, Activate

\* The invariant holds in every reachable state.
THEOREM Invariance == Spec => []IInv
BY InitIInv, NextIInv, PTL DEF Spec

\* A boot never loads a sector that was being written when the power failed, and
\* between saves the block in RAM has the token and the activation of flash.
THEOREM KeepsBlock == Spec => []BlockKept
<1>1. IInv => BlockKept
    BY DEF IInv, BlockKept
<1> QED
    BY Invariance, <1>1, PTL

-----------------------------------------------------------------------------
(* What the server has answered for *)

HistoryInv == /\ {asked, registered, unfounded} \subseteq SUBSET AnyToken
              /\ ActiveIsRegistered

\* A block that says it is active has a token the server answered for.
Backed(block, tokens) == block # Torn /\ block.activeflag = 1 => block.token \in tokens

\* The two blocks in flash and the one in RAM only ever hold what was backed before,
\* or a block that is not active.
LEMMA StoreStepBacked ==
    ASSUME IInv, HistoryInv, StoreStep, UNCHANGED history
    PROVE  HistoryInv'
<1> DEFINE known == registered \cup unfounded
<1>1. Backed(esp_param, known) /\ Backed(sector[0], known) /\ Backed(sector[1], known)
    BY DEF HistoryInv, ActiveIsRegistered, Backed
<1>2. known' = known
    BY DEF history
<1> HIDE DEF known
<1>3. target \in Sectors /\ esp_param \in Param /\ sector \in [Sectors -> Param \cup {Torn}]
    BY DEF IInv, StoreTypeOK
<1>4. Backed(esp_param', known)
    <2>1. ASSUME NEW t \in Token, NEW size \in Size, SetToken(t, size)
          PROVE  Backed(esp_param', known)
        BY <2>1 DEF SetToken, Save, Backed
    <2>2. CASE SetActive(0)
        BY <1>3, <2>2, SavedIsParam DEF SetActive, Save, Backed
    <2>3. CASE UNCHANGED esp_param
        BY <1>1, <2>3
    <2> QED BY <2>1, <2>2, <2>3 DEF StoreStep, EraseSector, WriteSector, EraseFlag, WriteFlag,
                                    Reset, PowerLoss
<1>5. Backed(Blank, known) /\ Backed(Torn, known)
    BY DEF Backed, Blank
<1>6. \/ UNCHANGED sector
      \/ \E block \in {Blank, Torn, esp_param} : sector' = [sector EXCEPT ![target] = block]
    BY DEF StoreStep, SetToken, SetActive, Save, EraseSector, WriteSector, EraseFlag, WriteFlag,
           Reset, PowerLoss, SectorCutShort
<1>7. Backed(sector'[0], known) /\ Backed(sector'[1], known)
    <2>1. CASE UNCHANGED sector
        BY <1>1, <2>1
    <2>2. ASSUME NEW block \in {Blank, Torn, esp_param},
                 sector' = [sector EXCEPT ![target] = block]
          PROVE  Backed(sector'[0], known) /\ Backed(sector'[1], known)
        <3>1. Backed(block, known)
            BY <1>1, <1>5, <2>2
        <3>2. sector'[0] \in {sector[0], block} /\ sector'[1] \in {sector[1], block}
            BY <1>3, <2>2 DEF Sectors
        <3> QED BY <1>1, <3>1, <3>2
    <2> QED BY <1>6, <2>1, <2>2
<1>8. ActiveIsRegistered'
    BY <1>2, <1>4, <1>7 DEF ActiveIsRegistered, Backed, known
<1> QED
    BY <1>8 DEF HistoryInv, history

\* The blocks stay as they are, but for the one that is activated, or asked for.
LEMMA NextHistory == IInv /\ HistoryInv /\ [Next]_vars => HistoryInv'
<1> SUFFICES ASSUME IInv, HistoryInv, [Next]_vars PROVE HistoryInv'
    OBVIOUS
<1>1. esp_param \in Param /\ sector \in [Sectors -> Param \cup {Torn}] /\ Load \in Param
    BY DEF IInv, StoreTypeOK, SelectedSectorWhole, Load, Selected, Sectors
<1>2. esp_param.token \in AnyToken
    BY <1>1 DEF Param
<1>3. CASE Boot
    <2>1. esp_param' \in {sector[0], sector[1]} /\ UNCHANGED <<sector, registered, unfounded>>
          /\ asked' = {}
        BY <1>3 DEF Boot, Load, Selected
    <2> QED BY <2>1 DEF HistoryInv, ActiveIsRegistered
<1>4. CASE Ask
    <2>1. esp_param'.activeflag = 0 /\ UNCHANGED <<sector, registered, unfounded>>
          /\ asked' = {esp_param.token}
        BY <1>1, <1>4, SavedIsParam DEF Ask
    <2> QED BY <1>2, <2>1 DEF HistoryInv, ActiveIsRegistered
<1>5. CASE Activate
    <2>1. esp_param'.token = esp_param.token
        BY <1>1, <1>5 DEF Activate, SetActive, Save, Param
    <2>2. /\ UNCHANGED <<sector, asked>>
          /\ registered' = registered \cup asked
          /\ unfounded' = unfounded \cup ({esp_param.token} \ asked)
        BY <1>5 DEF Activate, SetActive, Save
    <2>3. ActiveIsRegistered'
        <3>1. esp_param'.token \in registered' \cup unfounded'
            BY <2>1, <2>2
        <3>2. registered \cup unfounded \subseteq registered' \cup unfounded'
            BY <2>2
        <3> QED BY <2>2, <3>1, <3>2 DEF HistoryInv, ActiveIsRegistered
    <2> QED BY <1>2, <2>2, <2>3 DEF HistoryInv
<1>6. CASE StoreStep /\ UNCHANGED history
    BY <1>6, StoreStepBacked
<1>8. ASSUME NEW t \in Token, SetLongToken(t) PROVE HistoryInv'
    <2>1. PICK p \in Param : /\ Save(p) /\ p.token \in unfounded'
                             /\ unfounded' \subseteq unfounded \cup AnyToken
        BY <1>1, <1>8, LongTokenSaves
    <2>2. esp_param'.token \in unfounded' /\ UNCHANGED sector
        BY <2>1 DEF Save
    <2>3. /\ unfounded \subseteq unfounded' /\ asked' \in {asked, {}}
          /\ UNCHANGED registered
        BY <1>8 DEF SetLongToken
    <2>4. ActiveIsRegistered'
        BY <2>2, <2>3 DEF HistoryInv, ActiveIsRegistered
    <2> QED BY <2>1, <2>3, <2>4 DEF HistoryInv
<1>7. CASE UNCHANGED vars
    BY <1>7 DEF vars, storeVars, history, HistoryInv, ActiveIsRegistered
<1> QED
    BY <1>3, <1>4, <1>5, <1>6, <1>7, <1>8 DEF Next

\* Nothing is active before the first answer.
LEMMA InitHistory == Init => HistoryInv
<1> SUFFICES ASSUME Init PROVE HistoryInv
    OBVIOUS
<1>1. esp_param = Blank /\ sector[0] \in {Blank, Factory} /\ sector[1] \in {Blank, Factory}
    BY DEF Init, Sectors
<1>2. Blank.activeflag # 1 /\ Factory.activeflag # 1
    BY DEF Blank, Factory
<1>3. ActiveIsRegistered
    BY <1>1, <1>2 DEF ActiveIsRegistered
<1> QED
    BY <1>3 DEF Init, HistoryInv

LEMMA HistoryKept == Spec => []HistoryInv
BY InitHistory, NextHistory, Invariance, PTL DEF Spec

\* A device counts as active by a token the server has answered for, by one that was
\* posted while it was asked for another, or by one that did not fit its field
\* (recv_cb, set_token).
THEOREM ActiveByAnswer == Spec => []ActiveIsRegistered
<1>1. HistoryInv => ActiveIsRegistered
    BY DEF HistoryInv
<1> QED
    BY HistoryKept, <1>1, PTL

\* The store's variables keep their types (save_param, load_param), and the history's.
THEOREM TypeCorrect == Spec => []TypeOK
<1>1. IInv /\ HistoryInv => TypeOK
    BY DEF IInv, HistoryInv, TypeOK
<1> QED
    BY Invariance, HistoryKept, <1>1, PTL

-----------------------------------------------------------------------------
(* The refinement of AtomicParam. *)

\* Whatever a step does to flash, while the invariant holds: a step in which
\* neither the block a boot loads nor the block in progress changes stutters.
LEMMA Stutter ==
    ASSUME Load' = Load, Pending' = Pending, (pc = "off") <=> (pc' = "off")
    PROVE  [Register!Next]_(Register!vars)
BY DEF Register!vars

\* The abstract step of a step that commits the save in progress.
LEMMA CommitOfSave ==
    ASSUME IInv, pc \in Saving, Selected(flag) # target, pc' # "off",
           Pending' = NoParam, Load' = esp_param
    PROVE  Register!Next
<1>1. Pending = esp_param /\ esp_param # NoParam
    BY BlockFacts DEF Pending, NoParam, IInv, StoreTypeOK
<1> QED
    BY <1>1 DEF Register!Next, Register!Commit, Saving

\* A power failure before, while or after FLAG is turned over.
LEMMA PowerLossRefines ==
    ASSUME IInv, PowerLoss
    PROVE  [Register!Next]_(Register!vars)
<1> USE BlockFacts
<1>1. Pending' = NoParam
    BY DEF PowerLoss, Pending, Saving
<1>2. CASE pc \notin Saving \/ Selected(flag) = target
  <2>1. Pending = NoParam
    BY <1>2 DEF Pending
  <2>2. Load' = Load
    <3>1. CASE UNCHANGED <<sector, flag>>
        BY <3>1 DEF Load
    <3>2. CASE pc = "idle" /\ sector' = SectorCutShort /\ flag' \in FlagCutShort
        BY <3>2 DEF SectorCutShort, FlagCutShort, Load
    <3>3. CASE pc = "writeFlag" /\ Selected(flag) = target
               /\ sector' = SectorCutShort /\ flag' \in FlagCutShort
        BY <3>3 DEF SectorCutShort, FlagCutShort, WriteCutShort, Load, Selected,
                    IInv, SaveProgress, Erased
    <3> QED
        BY <1>2, <3>1, <3>2, <3>3 DEF PowerLoss, Saving, IInv, StoreTypeOK, SaveProgress
  <2> QED
    BY <1>1, <2>1, <2>2 DEF PowerLoss, Register!Next, Register!GoDown
<1>3. CASE pc \in Saving /\ Selected(flag) # target
  <2>1. Load' \in {Load, esp_param}
    <3>1. CASE UNCHANGED <<sector, flag>>
        BY <3>1 DEF Load
    <3>2. CASE pc \in {"erase", "write"} /\ sector' = SectorCutShort /\ flag' \in FlagCutShort
      <4>1. sector' = [sector EXCEPT ![target] = Torn] /\ flag' = flag
        BY <3>2 DEF SectorCutShort, FlagCutShort
      <4> QED
        BY <1>3, <4>1 DEF Load, Selected, Sectors, IInv, StoreTypeOK
    <3>3. CASE pc \in {"eraseFlag", "writeFlag"} /\ sector' = SectorCutShort /\ flag' \in FlagCutShort
      <4>1. sector' = sector /\ sector[target] = esp_param
        BY <3>3 DEF SectorCutShort, IInv, SaveProgress
      <4> QED
        BY <1>3, <4>1 DEF Load, Selected, Sectors, IInv, StoreTypeOK
    <3> QED
        BY <1>3, <3>1, <3>2, <3>3 DEF PowerLoss, Saving
  <2>2. Pending = esp_param /\ esp_param # NoParam
    BY <1>3 DEF Pending, NoParam, IInv, StoreTypeOK
  <2> QED
    BY <1>1, <2>1, <2>2 DEF PowerLoss, Register!Next, Register!GoDown
<1> QED
    BY <1>2, <1>3

\* Every other step.
LEMMA StepRefines == IInv /\ [Next]_vars => [Register!Next]_(Register!vars)
<1> SUFFICES ASSUME IInv, [Next]_vars PROVE [Register!Next]_(Register!vars)
    OBVIOUS
<1> USE BlockFacts
<1>1. CASE Ask \/ UNCHANGED vars
    BY <1>1, Stutter DEF Ask, vars, storeVars, Pending, Load, Saving
<1>9. CASE Boot
    BY <1>9 DEF Boot, Pending, Load, Saving, Register!Next, Register!Boot
<1>10. CASE Reset
    BY <1>10 DEF Reset, Pending, Load, Saving, Register!Next, Register!GoDown
<1>2. ASSUME NEW p \in Param, Save(p) PROVE Register!Next
  <2>1. Pending = NoParam /\ Pending' = p /\ Load' = Load
    BY <1>2 DEF Save, Pending, Saving, Load, Selected, Other
  <2> QED
    BY <1>2, <2>1 DEF Save, Register!Next, Register!Begin
<1>3. ASSUME NEW t \in Token, NEW size \in Size, SetToken(t, size) PROVE Register!Next
    BY <1>2, <1>3, SavedIsParam, FieldType DEF SetToken, IInv, StoreTypeOK
<1>11. ASSUME NEW t \in Token, SetLongToken(t) PROVE Register!Next
    BY <1>2, <1>11, LongTokenSaves DEF IInv, StoreTypeOK
<1>4. ASSUME NEW f \in {0, 1}, SetActive(f) PROVE Register!Next
    BY <1>2, <1>4, SavedIsParam DEF SetActive, IInv, StoreTypeOK
<1>5. CASE EraseSector \/ WriteSector
  <2>1. Selected(flag) # target /\ Selected(flag) \in Sectors /\ target \in Sectors
    BY <1>5 DEF EraseSector, WriteSector, IInv, SaveProgress, StoreTypeOK, Selected, Sectors
  <2>2. Load' = Load
    BY <1>5, <2>1 DEF EraseSector, WriteSector, Load, IInv, StoreTypeOK
  <2>3. Pending' = Pending
    BY <1>5, <2>1 DEF EraseSector, WriteSector, Pending, Saving
  <2> QED
    BY <1>5, <2>2, <2>3, Stutter DEF EraseSector, WriteSector
<1>6. CASE EraseFlag
  <2>1. Selected(flag) # target /\ target \in Sectors /\ sector[target] = esp_param
    BY <1>6 DEF EraseFlag, IInv, SaveProgress, StoreTypeOK
  <2>2. CASE target = 1
    <3>1. Load' = esp_param /\ Pending' = NoParam
        BY <1>6, <2>1, <2>2 DEF EraseFlag, Load, Pending, Selected, Erased
    <3> QED
        BY <1>6, <2>1, <3>1, CommitOfSave DEF EraseFlag, Saving
  <2>3. CASE target = 0
    <3>1. Load' = Load /\ Pending' = Pending
        BY <1>6, <2>1, <2>3 DEF EraseFlag, Load, Pending, Selected, Erased, Saving, Sectors
    <3> QED
        BY <1>6, <3>1, Stutter DEF EraseFlag
  <2> QED
    BY <2>1, <2>2, <2>3 DEF Sectors
<1>7. CASE WriteFlag
  <2>1. target \in Sectors /\ Selected(target) = target /\ sector[target] = esp_param
    BY <1>7 DEF WriteFlag, IInv, SaveProgress, StoreTypeOK, Selected, Sectors
  <2>2. Load' = esp_param /\ Pending' = NoParam
    BY <1>7, <2>1 DEF WriteFlag, Load, Pending, Saving
  <2>3. CASE Selected(flag) = target
    <3>1. Load' = Load /\ Pending' = Pending
        BY <2>1, <2>2, <2>3 DEF Load, Pending
    <3> QED
        BY <1>7, <3>1, Stutter DEF WriteFlag
  <2>4. CASE Selected(flag) # target
    BY <1>7, <2>2, <2>4, CommitOfSave DEF WriteFlag, Saving
  <2> QED
    BY <2>3, <2>4
<1>8. CASE PowerLoss
    BY <1>8, PowerLossRefines
<1> QED
    BY <1>1, <1>3, <1>4, <1>5, <1>6, <1>7, <1>8, <1>9, <1>10, <1>11
       DEF Next, StoreStep, Activate

\* A store that starts from the factory image is an idle register.
LEMMA InitRefines == Init => Register!Init
BY BlockFacts DEF Init, Register!Init, Load, Selected, Erased, Pending, NoParam,
                  Saving, Sectors

\* The two-sector store implements an atomic register across power failures.
THEOREM Refinement == Spec => ImplementsRegister
<1>1. IInv /\ [Next]_vars => [Register!Next]_(Register!vars)
    BY StepRefines
<1> QED
    BY InitRefines, <1>1, Invariance, PTL DEF Spec, ImplementsRegister, Register!Spec
=============================================================================
