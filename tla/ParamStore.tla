----------------------------- MODULE ParamStore -----------------------------
(***************************************************************************)
(* The parameter store of app/user/user_esp_platform.c: the block with the *)
(* device's token and activeflag lives in one of two flash sectors,        *)
(* SAVE_0 and SAVE_1, and a third sector, FLAG, says in which.             *)
(* user_esp_platform_save_param writes the sector not in use and then      *)
(* turns FLAG over, in four flash operations any of which a power failure  *)
(* may cut short.                                                          *)
(*                                                                         *)
(* A flash erase sets every bit of a sector, a flash write only clears     *)
(* bits: an erase of FLAG that is cut short cannot turn a nonzero byte     *)
(* into 0, and a write of 1 that is cut short cannot leave 0.              *)
(*                                                                         *)
(* An activeflag of 1 says that the cloud server knows the token: the      *)
(* device asks it to register the token, and stores 1 when it has answered *)
(* so.  Whether what is stored is true is kept in history variables.       *)
(*                                                                         *)
(* A posted token has up to 63 characters, its field 40, and activeflag is *)
(* the byte behind the field: a token of 41 characters or more writes one  *)
(* of them over activeflag, just after it was cleared.                     *)
(***************************************************************************)
EXTENDS Integers

CONSTANTS Token,       \* the tokens a user may hand to the device
          NoToken,     \* what the token field of an erased sector reads as
          FactoryToken,\* the token of the block flashed at the factory
          Torn,        \* a sector whose erase or write was cut short
          FlagByte     \* the values modelled for a byte: that of the FLAG
                       \* sector, and activeflag

ASSUME ParamStoreAssumption ==
    /\ {0, 1, 255} \subseteq FlagByte
    /\ FlagByte \subseteq 0..255
    /\ LET part == Token \cup {NoToken, FactoryToken}
       IN  Torn \notin [token : part \X part, activeflag : FlagByte]

\* The contents of the token field: whose its first characters are, and whose the
\* others, which a token shorter than the field leaves alone.
Part     == Token \cup {NoToken, FactoryToken}
AnyToken == Part \X Part

\* struct esp_platform_saved_param: devkey never changes, and is left out.
Param == [token : AnyToken, activeflag : FlagByte]

Sectors == {0, 1}       \* ESP_PARAM_SAVE_0 and ESP_PARAM_SAVE_1
Blank   == [token |-> <<NoToken, NoToken>>, activeflag |-> 255]
Factory == [token |-> <<FactoryToken, FactoryToken>>, activeflag |-> 255]
Erased  == 255

VARIABLES sector,      \* the contents of SAVE_0 and SAVE_1
          flag,        \* the byte in the FLAG sector
          esp_param,   \* the block in RAM
          pc,          \* "off", "idle", or the next flash operation of a save
          target       \* the flag value the save in progress will write

VARIABLES asked,       \* the token of the request that active_nonce is of, if any
          registered,  \* history: the tokens the server has answered for
          unfounded    \* history: the tokens that were activated by an answer for
                       \* another, or posted and longer than the field

history == <<asked, registered, unfounded>>

storeVars == <<sector, flag, esp_param, pc, target>>

vars == <<storeVars, history>>

Saving == {"erase", "write", "eraseFlag", "writeFlag"}

StoreTypeOK == /\ sector \in [Sectors -> Param \cup {Torn}]
               /\ flag \in FlagByte
               /\ esp_param \in Param
               /\ pc \in Saving \cup {"off", "idle"}
               /\ target \in Sectors

TypeOK == /\ StoreTypeOK
          /\ {asked, registered, unfounded} \subseteq SUBSET AnyToken

\* The sector user_esp_platform_load_param reads, for a flag byte f ...
Selected(f) == IF f = 0 THEN 0 ELSE 1

OtherInPlace(f) == IF f = 0 THEN 0 ELSE 1    \* mutant: the block in use

\* ... and the one user_esp_platform_save_param writes: the other.
Other(f) == IF f = 0 THEN 1 ELSE 0

Load == sector[Selected(flag)]

\* What may be in FLAG once an erase of byte f, or a write of v to an erased
\* byte, has been cut short.
EraseCutShort(f) == {g \in FlagByte : f # 0 => g # 0}
WriteCutShort(v) == {g \in FlagByte : v # 0 => g # 0}

-----------------------------------------------------------------------------
\* The image flashed at the factory: device_master_key in SAVE_1, or nothing.
Init == /\ \E p \in {Blank, Factory} : sector = [s \in Sectors |-> IF s = 1 THEN p ELSE Blank]
        /\ flag = Erased
        /\ esp_param = Blank
        /\ pc = "off"
        /\ target = 0
        /\ asked = {} /\ registered = {} /\ unfounded = {}

\* user_esp_platform_init loads the block before anything can save it.
Boot == /\ pc = "off"
        /\ esp_param' = Load
        /\ pc' = "idle"
        /\ asked' = {}
        /\ UNCHANGED <<sector, flag, target, registered, unfounded>>

\* The start of user_esp_platform_save_param(&esp_param), esp_param now p.
Save(p) == /\ pc = "idle"
           /\ esp_param' = p
           /\ target' = Other(flag)
           /\ pc' = "erase"
           /\ UNCHANGED <<sector, flag>>

\* The field after user_esp_platform_set_token has copied strlen(token) bytes of a
\* token that is empty, shorter than the field, as long as it, or longer.
Size == {"empty", "short", "full"}

Field(t, size) == CASE size = "empty" -> esp_param.token
                    [] size = "short" -> <<t, esp_param.token[2]>>
                    [] size = "full"  -> <<t, t>>

SetTokenUnsaved(t, size) ==                  \* mutant: the save is forgotten
    /\ pc = "idle"
    /\ esp_param' = [token |-> Field(t, size), activeflag |-> 0]
    /\ UNCHANGED <<sector, flag, pc, target>>

SetTokenOnly(t, size) ==                     \* mutant: activeflag is not reset
    Save([esp_param EXCEPT !.token = Field(t, size)])

\* A token that fits
SetToken(t, size) == Save([token |-> Field(t, size), activeflag |-> 0])

\* A token that does not: activeflag is one of its characters, of which none is 0.
\* Its last ones may come to lie behind the block, and on active_nonce.
SetLongToken(t) ==
    /\ \E byte \in FlagByte \ {0} : Save([token |-> Field(t, "full"), activeflag |-> byte])
    /\ unfounded' = unfounded \cup {Field(t, "full")}
    /\ asked' \in {asked, {}}
    /\ UNCHANGED registered

\* user_esp_platform_set_active
SetActive(f) == Save([esp_param EXCEPT !.activeflag = f])

\* user_esp_platform_sent takes a blank activeflag for 0, in RAM only, and asks to
\* register the token.  (It uploads where activeflag is any other value.)
Ask == /\ pc = "idle"
       /\ esp_param.activeflag \in {0, 255}
       /\ esp_param' = [esp_param EXCEPT !.activeflag = 0]
       /\ asked' = {esp_param.token}
       /\ UNCHANGED <<sector, flag, pc, target, registered, unfounded>>

\* recv_cb: an answer with the nonce of the last request says that its token is
\* registered, and the block is activated, whose token may be another by now.
Activate == /\ asked # {}
            /\ SetActive(1)
            /\ registered' = registered \cup asked
            /\ unfounded' = unfounded \cup ({esp_param.token} \ asked)
            /\ UNCHANGED asked

EraseSectorAndFlag ==                        \* mutant: FLAG is erased first
    /\ pc = "erase"
    /\ sector' = [sector EXCEPT ![target] = Blank]
    /\ flag' = Erased
    /\ pc' = "write"
    /\ UNCHANGED <<esp_param, target>>

\* The four flash operations, in the order of the code.
EraseSector == /\ pc = "erase"
               /\ sector' = [sector EXCEPT ![target] = Blank]
               /\ pc' = "write"
               /\ UNCHANGED <<flag, esp_param, target>>

WriteSector == /\ pc = "write"
               /\ sector' = [sector EXCEPT ![target] = esp_param]
               /\ pc' = "eraseFlag"
               /\ UNCHANGED <<flag, esp_param, target>>

EraseFlag == /\ pc = "eraseFlag"
             /\ flag' = Erased
             /\ pc' = "writeFlag"
             /\ UNCHANGED <<sector, esp_param, target>>

WriteFlagUnchanged ==                        \* mutant: flag.flag is not updated
    /\ pc = "writeFlag"
    /\ pc' = "idle"
    /\ UNCHANGED <<sector, flag, esp_param, target>>

WriteFlag == /\ pc = "writeFlag"
             /\ flag' = target
             /\ pc' = "idle"
             /\ UNCHANGED <<sector, esp_param, target>>

\* A restart or a deep sleep: every save has returned before either.
Reset == /\ pc = "idle"
         /\ pc' = "off"
         /\ UNCHANGED <<sector, flag, esp_param, target>>

\* What is left in flash of the operation that was under way: it is cut short.
SectorCutShort == IF pc \in {"erase", "write"}
                  THEN [sector EXCEPT ![target] = Torn]
                  ELSE sector

FlagCutShort == CASE pc = "eraseFlag" -> EraseCutShort(flag)
                  [] pc = "writeFlag" -> WriteCutShort(target)
                  [] OTHER -> {flag}

\* The power fails between two flash operations, or during the next one.
PowerLoss == /\ pc # "off"
             /\ pc' = "off"
             /\ \/ UNCHANGED <<sector, flag>>
                \/ /\ sector' = SectorCutShort
                   /\ flag' \in FlagCutShort
             /\ UNCHANGED <<esp_param, target>>

\* What concerns the store only; set_active(0) is called for a long press.
StoreStep == \/ \E t \in Token, size \in Size : SetToken(t, size)
             \/ SetActive(0)
             \/ EraseSector
             \/ WriteSector
             \/ EraseFlag
             \/ WriteFlag
             \/ Reset
             \/ PowerLoss

Next == \/ Boot
        \/ Ask
        \/ Activate
        \/ \E t \in Token : SetLongToken(t)
        \/ StoreStep /\ UNCHANGED history

Spec == Init /\ [][Next]_vars

-----------------------------------------------------------------------------
(* Properties *)

\* Whatever instant the power fails at, the sector the flag selects holds a
\* whole block: "protect write and erase data while power off" (save_param).
SelectedSectorWhole == Load # Torn

\* Between saves the block in RAM, which every save writes back as a whole,
\* agrees with the one a boot would load on the token and on whether the device
\* is activated: no save ever resurrects an older token or activation.
RamMatchesFlash ==
    pc = "idle" => /\ esp_param.token = Load.token
                   /\ esp_param.activeflag = 1 <=> Load.activeflag = 1

\* A boot finds a whole block, and the one that the device had in RAM.
BlockKept == SelectedSectorWhole /\ RamMatchesFlash

\* Wherever a block says that the device is activated, in RAM and in either sector,
\* the server has answered for its token - but for the tokens posted between a
\* request and its answer, and for those that did not fit the field and wrote their
\* own activeflag.  So a token of up to 40 characters is registered before the
\* device counts as active, whatever was posted before it and whatever power
\* failures come between.
ActiveIsRegistered ==
    \A block \in {esp_param, sector[0], sector[1]} :
        block # Torn /\ block.activeflag = 1
            => block.token \in registered \cup unfounded

\* The two sectors, the flag and four flash operations together are one atomic
\* register: the block a boot loads changes only to a block being saved, as a
\* whole and once, a power failure leaves the old block or the new one, and
\* without a power failure every save takes effect.
NoParam == Torn
Pending == IF pc \in Saving /\ Selected(flag) # target THEN esp_param ELSE NoParam

Register == INSTANCE AtomicParam
                WITH stored <- Load, pending <- Pending, up <- (pc # "off")

ImplementsRegister == Register!Spec

=============================================================================
