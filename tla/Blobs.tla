-------------------------------- MODULE Blobs --------------------------------
(***************************************************************************)
(* The looks of one player on their way to one other: the worn forms are   *)
(* packed, encoded, cut into chunks, sent again from time to time, admitted*)
(* by the server's rate limit, put together there, cut again for the       *)
(* receiver, put together again and put on the ghost.                      *)
(*                                                                         *)
(* A blob is a sequence of fields.  The appearance and the inventory keep  *)
(* an assembly each and share the rate bucket and the connections.  Both   *)
(* dress the ghost; of the rest of a blob nothing is kept.                 *)
(***************************************************************************)
EXTENDS Integers, Sequences, FiniteSets, SequencesExt

CONSTANTS
    Kinds,            \* {"app", "inv"}, or one of them
    Outfits,          \* what the player may wear: sequences of form ids
    LoadOrder,        \* plugin |-> its index, 0 for the game's own
    IdSpan,           \* ids of one plugin: 2^24 in the code
    Forbidden,        \* forbidden_actor_base and IsSkippedGear
    kMaxWorn, kBlobPayloadMax,
    Limit, Window,    \* chunks in a window of so many ticks
    Period,           \* kind |-> ticks after which a look is sent again
    Ttl,              \* blobAssembleTtlMs, in ticks
    MaxUp, MaxDown,   \* bounds: chunks in flight
    MaxFaults         \* bound: cuts, losses and stalls

ASSUME BlobsAssumption ==
    /\ Kinds \subseteq {"app", "inv"}
    /\ kBlobPayloadMax \in Nat \ {0} /\ kMaxWorn \in Nat
    /\ Limit \in Nat \ {0} /\ Window \in Nat \ {0} /\ Ttl \in Nat
    /\ \A k \in Kinds : Period[k] \in Nat \ {0}
    /\ \A o \in Outfits : o \in Seq(Nat)
    /\ MaxFaults \in Nat

VARIABLES
    outfit,     \* what the player wears
    sent,       \* kind |-> [age, key]: lastAppearanceSend, lastEquipKey
    up,         \* chunks from the player to the server
    bucket,     \* blobRates: [age, count]
    assemblies, \* appearAsm, invAsm: kind |-> BlobAssembly
    stored,     \* client.appearance, client.inventory: kind |-> blob
    down,       \* chunks from the server to the receiver
    parts,      \* appearanceParts, inventoryParts: kind |-> BlobAssembly
    partsAge,   \* kind |-> ticks since startedSec
    looks,      \* appearances, inventories: kind |-> blob
    worn,       \* the set of forms the ghost wears
    whole,      \* history: no chunk was refused, lost or left behind
    admitted,   \* history: chunks admitted, [0..Window - 1 -> Nat], by age
    faults

senderVars == <<outfit, sent>>
serverVars == <<bucket, assemblies, stored, admitted>>
receiverVars == <<parts, partsAge, looks, worn>>
blobVars == <<senderVars, up, serverVars, down, receiverVars, whole, faults>>

-----------------------------------------------------------------------------
(* Forms: pack_form_id and CMP_ResolveForm.  A form is the index of its    *)
(* plugin and its id there, as one number.                                 *)
PluginOf(f) == CHOOSE p \in DOMAIN LoadOrder : LoadOrder[p] = f \div IdSpan
PackForm(f) == [raw |-> f % IdSpan, plugin |-> PluginOf(f)]

NoForm == -1
LookupForm(pf) == LoadOrder[pf.plugin] * IdSpan + (pf.raw % IdSpan)
ResolveForm(pf) ==
    CASE pf.raw = 0 -> NoForm
      [] pf.raw \in 1..(IdSpan - 1) -> pf.raw                 \* GetFormByID
      [] pf.plugin \notin DOMAIN LoadOrder -> NoForm
      [] OTHER -> LookupForm(pf)

(* The two blobs, as far as they dress: a magic, a count, the worn forms.  *)
CollectWornItems(o) == [i \in DOMAIN o |-> PackForm(o[i])]
AtMost(s, n) == IF Len(s) > n THEN SubSeq(s, 1, n) ELSE s

ExtractBlob(o) ==
    LET w == AtMost(CollectWornItems(o), kMaxWorn) IN <<"app", Len(w)>> \o w

EncodeInventorySheet(w) == <<"inv", Len(w)>> \o w
ExtractInventory(o) == EncodeInventorySheet(AtMost(CollectWornItems(o), kMaxWorn))

Encode(k, o) == IF k = "app" THEN ExtractBlob(o) ELSE ExtractInventory(o)

(* The ghost is stripped and the forms that can be found and worn are put  *)
(* on.  decode_inventory_sheet refuses a sheet with too many forms or too  *)
(* few bytes; ApplyToNpc takes what it can read.                           *)
IsSkippedGear(f) == f \in Forbidden
Fits(f) == f # NoForm /\ ~IsSkippedGear(f)
EquipForms(forms) == {f \in forms : Fits(f)}

FormsOf(b) == {ResolveForm(b[i + 2]) : i \in {j \in 1..b[2] : j + 2 <= Len(b)}}

ApplyToNpc(b) == EquipForms(FormsOf(b))
ApplyAppearanceBlob(b) == IF b[1] = "app" THEN ApplyToNpc(b) ELSE worn

DecodeInventorySheet(b) == b[1] = "inv" /\ b[2] <= kMaxWorn /\ Len(b) >= b[2] + 2
ApplyGhostInventory(b) ==
    IF DecodeInventorySheet(b) THEN EquipForms(FormsOf(b)) ELSE worn

Dress(k, b) == IF k = "app" THEN ApplyAppearanceBlob(b) ELSE ApplyGhostInventory(b)

(* split_blob_chunks *)
Split(k, b) ==
    LET count == (Len(b) + kBlobPayloadMax - 1) \div kBlobPayloadMax
        upto(i) == IF i * kBlobPayloadMax < Len(b) THEN i * kBlobPayloadMax
                   ELSE Len(b)
    IN  [i \in 1..count |->
           [kind |-> k, chunkIndex |-> i, chunkCount |-> count, blobBytes |-> Len(b),
            payload |-> SubSeq(b, (i - 1) * kBlobPayloadMax + 1, upto(i))]]

(* assemble_blob_chunk: the assembly after a chunk, whether it is whole,   *)
(* and the blob then.                                                      *)
NoAssembly == [chunkCount |-> 0, blobBytes |-> 0, chunks |-> <<>>]
OtherBlob(a, c) == a.chunkCount # c.chunkCount \/ a.blobBytes # c.blobBytes
Placed(a, c) ==
    LET base == IF OtherBlob(a, c)
                THEN [chunkCount |-> c.chunkCount, blobBytes |-> c.blobBytes,
                      chunks |-> [i \in 1..c.chunkCount |-> <<>>]]
                ELSE a
    IN  [base EXCEPT !.chunks[c.chunkIndex] = c.payload]
Joined(a) == FlattenSeq(a.chunks)
Complete(a) == /\ \A i \in DOMAIN a.chunks : a.chunks[i] # <<>>
               /\ Len(Joined(a)) = a.blobBytes
RestKept(a) == a
Rest(a) == IF Complete(a) THEN NoAssembly ELSE a

-----------------------------------------------------------------------------
(* The sender *)
Never == -1
Older(n, cap) == IF n = Never \/ n >= cap THEN n ELSE n + 1

(* EquipKey is the outfit.  InvKey may change at any time, as things are   *)
(* picked up, so that an inventory may be sent at any time.                *)
DueNever(k) == FALSE
Due(k) == sent[k].age = Never \/ sent[k].age >= Period[k]
EquipKey == outfit
SendAppearance == Due("app") \/ sent["app"].key # EquipKey
InvKeyChanged == TRUE
SendInventory == Due("inv") \/ InvKeyChanged

Packets == [k \in Kinds |-> [o \in Outfits |-> Split(k, Encode(k, o))]]

Send(k) ==
    /\ IF k = "app" THEN SendAppearance ELSE SendInventory
    /\ LET chunks == Packets[k][outfit]
       IN  /\ Len(up) + Len(chunks) <= MaxUp                   \* bound: MaxUp
           /\ up' = up \o chunks
    /\ sent' = [sent EXCEPT ![k] = [age |-> 0, key |-> outfit]]
    /\ UNCHANGED <<outfit, serverVars, down, receiverVars, whole, faults>>

ChangeOutfit(o) ==
    /\ o # outfit /\ outfit' = o
    /\ UNCHANGED <<sent, up, serverVars, down, receiverVars, whole, faults>>

(* The connection of the player is cut, and he is back under the same peer *)
(* id: CMP_Leave forgets the sends, the server keeps the assemblies.       *)
SenderCut ==
    /\ faults < MaxFaults /\ faults' = faults + 1          \* bound: MaxFaults
    /\ up' = <<>>
    /\ sent' = [k \in Kinds |-> [age |-> Never, key |-> outfit]]
    /\ UNCHANGED <<outfit, serverVars, down, receiverVars, whole>>

-----------------------------------------------------------------------------
(* The server: allow_rate, take_blob, and the blob kept and passed on.     *)
AllowRateEarly == IF bucket.age >= Window - 1 THEN [age |-> 0, count |-> 1]
                  ELSE [bucket EXCEPT !.count = @ + 1]
AllowRate == IF bucket.age >= Window THEN [age |-> 0, count |-> 1]
             ELSE [bucket EXCEPT !.count = @ + 1]

(* outbound->push may refuse any chunk when the queue is full. *)
PassAll(chunks) == down' = down \o chunks /\ UNCHANGED <<whole, faults>>

PassSome(chunks) ==
    /\ faults < MaxFaults /\ faults' = faults + 1          \* bound: MaxFaults
    /\ \E n \in 0..(Len(chunks) - 1) : \E f \in [1..n -> DOMAIN chunks] :
         /\ \A i, j \in 1..n : i < j => f[i] < f[j]
         /\ down' = down \o [i \in 1..n |-> chunks[f[i]]]
    /\ whole' = FALSE

Pass(chunks) ==
    /\ PassAll(chunks) \/ PassSome(chunks)
    /\ Len(down') <= MaxDown                               \* bound: MaxDown

ServerRecv ==
    /\ up # <<>> /\ up' = Tail(up)
    /\ LET c  == Head(up)
           b  == AllowRate
           ok == b.count <= Limit
           a  == Placed(assemblies[c.kind], c)
       IN  /\ bucket' = [b EXCEPT !.count = IF @ > Limit THEN Limit + 1 ELSE @]
           /\ admitted' = IF ok THEN [admitted EXCEPT ![0] = @ + 1] ELSE admitted
           /\ assemblies' = IF ok THEN [assemblies EXCEPT ![c.kind] = Rest(a)]
                            ELSE assemblies
           /\ \/ /\ ~ok /\ whole' = FALSE
                 /\ UNCHANGED <<stored, down, faults>>
              \/ /\ ok /\ ~Complete(a)
                 /\ UNCHANGED <<stored, down, whole, faults>>
              \/ /\ ok /\ Complete(a)
                 /\ stored' = [stored EXCEPT ![c.kind] = Joined(a)]
                 /\ Pass(Split(c.kind, Joined(a)))
    /\ UNCHANGED <<senderVars, receiverVars>>

-----------------------------------------------------------------------------
(* The receiver: ExpireBlobAssemblies and HandleBlobChunk in CMP_NetPoll.  *)
Expired(k) == parts[k] # NoAssembly /\ partsAge[k] > Ttl

(* An assembly given up before it is whole leaves the rest of its blob to  *)
(* come.                                                                   *)
Expire ==
    /\ \E k \in Kinds : Expired(k)
    /\ parts' = [k \in Kinds |-> IF Expired(k) THEN NoAssembly ELSE parts[k]]
    /\ partsAge' = [k \in Kinds |-> IF Expired(k) THEN 0 ELSE partsAge[k]]
    /\ whole' = FALSE
    /\ UNCHANGED <<senderVars, up, serverVars, down, looks, worn, faults>>

HandleBlobChunk ==
    /\ \A k \in Kinds : ~Expired(k)
    /\ down # <<>> /\ down' = Tail(down)
    /\ LET c == Head(down)
           a == Placed(parts[c.kind], c)
           goesOn == parts[c.kind] # NoAssembly /\ ~OtherBlob(parts[c.kind], c) /\ ~Complete(a)
       IN  /\ parts' = [parts EXCEPT ![c.kind] = Rest(a)]
           /\ partsAge' = [partsAge EXCEPT ![c.kind] = IF goesOn THEN @ ELSE 0]
           /\ \/ ~Complete(a) /\ UNCHANGED <<looks, worn>>
              \/ /\ Complete(a)
                 /\ looks' = [looks EXCEPT ![c.kind] = Joined(a)]
                 /\ worn' = Dress(c.kind, Joined(a))
    /\ UNCHANGED <<senderVars, up, serverVars, whole, faults>>

(* The receiver is cut off and joins again: the server sends what it has.  *)
Backlog ==
    LET of(k) == IF k \in Kinds /\ stored[k] # <<>> THEN Split(k, stored[k]) ELSE <<>>
    IN  of("app") \o of("inv")

ReceiverCut ==
    /\ faults < MaxFaults /\ faults' = faults + 1          \* bound: MaxFaults
    /\ down' = Backlog
    /\ parts' = [k \in Kinds |-> NoAssembly]
    /\ partsAge' = [k \in Kinds |-> 0]
    /\ looks' = [k \in Kinds |-> <<>>] /\ worn' = {}
    /\ UNCHANGED <<senderVars, up, serverVars, whole>>

(* Time passes.  That the receiver waits for the rest of a blob for so     *)
(* long that it gives up counts as a fault.                                *)
Stalls == down # <<>> /\ \E k \in Kinds : parts[k] # NoAssembly /\ partsAge[k] = Ttl

Tick ==
    /\ Stalls => faults < MaxFaults                       \* bound: MaxFaults
    /\ faults' = IF Stalls THEN faults + 1 ELSE faults
    /\ sent' = [k \in Kinds |-> [sent[k] EXCEPT !.age = Older(@, Period[k])]]
    /\ bucket' = [bucket EXCEPT !.age = Older(@, Window)]
    /\ admitted' = [i \in 0..(Window - 1) |-> IF i = 0 THEN 0 ELSE admitted[i - 1]]
    /\ partsAge' = [k \in Kinds |->
                      IF parts[k] = NoAssembly THEN 0 ELSE Older(partsAge[k], Ttl + 1)]
    /\ UNCHANGED <<outfit, up, assemblies, stored, down, parts, looks, worn, whole>>

BlobsInit ==
    /\ outfit \in Outfits
    /\ sent = [k \in Kinds |-> [age |-> Never, key |-> outfit]]
    /\ up = <<>> /\ bucket = [age |-> Window, count |-> 0]
    /\ assemblies = [k \in Kinds |-> NoAssembly] /\ stored = [k \in Kinds |-> <<>>]
    /\ down = <<>> /\ parts = [k \in Kinds |-> NoAssembly]
    /\ partsAge = [k \in Kinds |-> 0]
    /\ looks = [k \in Kinds |-> <<>>] /\ worn = {}
    /\ whole = TRUE /\ admitted = [i \in 0..(Window - 1) |-> 0] /\ faults = 0

BlobsNext ==
    \/ \E k \in Kinds : Send(k)
    \/ \E o \in Outfits : ChangeOutfit(o)
    \/ SenderCut \/ ServerRecv \/ Expire \/ HandleBlobChunk \/ ReceiverCut \/ Tick

BlobsSpec == BlobsInit /\ [][BlobsNext]_blobVars

(* Every pose that is sent looks whether a blob is due (CMP_SendLocalPose),*)
(* and both ends go on reading.                                            *)
FairBlobsSpec ==
    /\ BlobsSpec
    /\ \A k \in Kinds : WF_blobVars(Due(k) /\ Send(k))
    /\ WF_blobVars(ServerRecv) /\ WF_blobVars(Expire \/ HandleBlobChunk)
    /\ WF_blobVars(Tick)

-----------------------------------------------------------------------------
(* Properties *)

Blob == [k \in Kinds |-> {<<>>} \cup {Encode(k, o) : o \in Outfits}]
AsSeen == [o \in Outfits |-> {EquipForms(FormsOf(Encode(k, o))) : k \in Kinds}]

(* Type invariant of the chunks, the assemblies and what is worn. *)
BlobsTypeOK ==
    /\ outfit \in Outfits
    /\ \A k \in Kinds : sent[k].age \in 0..Period[k] \cup {Never} /\ sent[k].key \in Outfits
    /\ bucket \in [age : 0..Window, count : 0..(Limit + 1)]
    /\ \A a \in Range(assemblies) \cup Range(parts) :
         Len(a.chunks) = a.chunkCount /\ a.blobBytes <= kMaxWorn + 2
    /\ \A k \in Kinds : partsAge[k] \in 0..(Ttl + 1)
    /\ Cardinality(worn) <= kMaxWorn /\ NoForm \notin worn
    /\ whole \in BOOLEAN /\ faults \in 0..MaxFaults

(* Every blob kept by the server or put on a ghost is one the player sent, *)
(* never the parts of two: as long as no chunk was refused by the rate     *)
(* limit, dropped by a full queue or given up after blobAssembleTtlMs.     *)
(* Connections that break in the middle of a blob do no harm.              *)
NoMixture ==
    whole => /\ \A k \in Kinds : stored[k] \in Blob[k] /\ looks[k] \in Blob[k]
             /\ worn = {} \/ \E o \in Outfits : worn \in AsSeen[o]

(* allow_rate aligns its window to a message, so up to twice the limit     *)
(* less one may pass within a second, and no more.                         *)
Totals[n \in 0..Window] == IF n = 0 THEN 0 ELSE Totals[n - 1] + admitted[n - 1]
RateBounded == Totals[Window] <= 2 * Limit - 1

(* The limits of the assemblies, of what is worn and of the server's rate. *)
BlobsInv == BlobsTypeOK /\ RateBounded

(* A player who goes on wearing something is in the end seen in it,        *)
(* whatever was refused, dropped or mixed before.                          *)
LooksArrive ==
    \A o \in Outfits :
      <>[](outfit = o) => <>[](worn \in AsSeen[o])

(* What the unit tests of pack_form_id and full_form_id are about: a form  *)
(* of another plugin comes back as that form.                              *)
WornAsSent ==
    whole /\ worn # {} => \E o \in Outfits : worn \subseteq Range(o)
=============================================================================
