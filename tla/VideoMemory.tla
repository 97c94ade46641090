---------------------------- MODULE VideoMemory ----------------------------
(***************************************************************************)
(* The account of video memory of src/graphics.c.  No texture is stored:   *)
(* loading adds to a number, and unloading takes from it.                  *)
(*                                                                         *)
(* The display mode and the functions that draw are left out: they answer  *)
(* from their arguments and the mode that was set last, and draw nothing;  *)
(* graphics_clear_screen is part of Console.                               *)
(***************************************************************************)
EXTENDS Integers, Functions, Words

CONSTANTS
    VRAM_SIZE, VRAM_RESERVED,   \* in use from the beginning, in bytes
    PER_TEXTURE,                \* given back for every texture
    Textures, TextureSizes

ASSUME TexturesAssumption ==
    /\ VRAM_SIZE \in 0 .. (WORD - 1) /\ VRAM_RESERVED \in 0 .. VRAM_SIZE
    /\ PER_TEXTURE \in Nat \ {0}
    /\ TextureSizes \subseteq 0 .. (WORD - 1)

VARIABLES
    vram_used,
    textures,       \* callers' view: a loaded texture -> its size
    tidy            \* callers' view: see graphics_unload_texture

vramVars == <<vram_used, textures, tidy>>

TexturesInit ==
    /\ vram_used = VRAM_RESERVED
    /\ textures = [t \in {} |-> 0]
    /\ tidy = TRUE

(* Mutated form: only the texture's own size is compared. *)
FitsAlone(size) == size <= VRAM_SIZE

FitsVram(size) == (vram_used + size) % WORD <= VRAM_SIZE

(* The loaded textures after this one. *)
WithTexture(texture, size) ==
    [t \in DOMAIN textures \cup {texture} |-> IF t = texture THEN size ELSE textures[t]]

(* A texture that does not fit is refused, and nothing changes. *)
graphics_load_texture(texture, size) ==
    /\ FitsVram(size)
    /\ vram_used' = (vram_used + size) % WORD
    /\ textures' = WithTexture(texture, size)
    /\ tidy' = (tidy /\ texture \notin DOMAIN textures /\ vram_used + size < WORD)

(* The amount given back is the same for every texture, and also for one   *)
(* that was never loaded.  The account is tidy as long as a texture is     *)
(* loaded once, no sum wraps around, and what is unloaded had been loaded  *)
(* and is at least that large.                                             *)
graphics_unload_texture(texture) ==
    /\ vram_used' = IF vram_used > 0 THEN (vram_used - PER_TEXTURE) % WORD ELSE 0
    /\ textures' = Restrict(textures, DOMAIN textures \ {texture})
    /\ tidy' = (tidy /\ texture \in DOMAIN textures /\ textures[texture] >= PER_TEXTURE)

TexturesNext ==
    \E texture \in Textures :
        \/ \E size \in TextureSizes : graphics_load_texture(texture, size)
        \/ graphics_unload_texture(texture)

TexturesSpec == TexturesInit /\ [][TexturesNext]_vramVars

(* As long as callers are tidy, the account of video memory covers every   *)
(* loaded texture and stays within the card, in whatever order textures    *)
(* are loaded and unloaded; it is not exact, as unloading gives back too   *)
(* little.  Of callers that are not tidy it says nothing.                  *)
VramWithinCard ==
    tidy => /\ vram_used <= VRAM_SIZE
            /\ VRAM_RESERVED + SumFunction(textures) <= vram_used
=============================================================================
