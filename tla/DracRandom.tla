----------------------------- MODULE DracRandom -----------------------------
(* The generator of src/drac_random.cpp as the game uses it: the step of its  *)
(* state, and the way from 32 random bits over a float to a number in a range.*)
(* A float is a number of units of 2^-MantissaBits.  What the output function *)
(* and the hash of the seed mix is left out: any bits may come out of them.   *)
EXTENDS Naturals

CONSTANTS
    MantissaBits,   \* stored bits of the mantissa of a float, 23 in the code
    DroppedBits,    \* of the random bits, 9 in the code
    StateBits       \* the low bits of the 64 bit state that are looked at

(* The float next to n units: the stored bits and the leading one, ties to    *)
(* even.                                                                      *)
rounded(n) ==
    LET excess == CHOOSE e \in 0..MantissaBits :
                      /\ n < 2^(MantissaBits + 1 + e)
                      /\ e > 0 => n >= 2^(MantissaBits + e)
        unit == 2^excess
        down == n \div unit
        rest == 2 * (n % unit)
        up == rest > unit \/ (rest = unit /\ down % 2 = 1)
    IN  unit * (IF up THEN down + 1 ELSE down)

(* The bits are the mantissa of a float from 1 up to 2.                       *)
normalize_32_bits_to_f32(bits) ==
    (2^MantissaBits + (bits \div 2^DroppedBits)) - 2^MantissaBits

rand_i32(bits, lowerBound, upperBound) ==
    LET range == upperBound - lowerBound + 1
        scaled == rounded(normalize_32_bits_to_f32(bits) * range)
    IN  rounded(scaled + lowerBound * 2^MantissaBits) \div 2^MantissaBits

(* The increment pcg_seed_rand makes of a hashed seed is odd.                 *)
sequenceOf(value) == 2 * value + 1

(* The low bits of a product or a sum are those of the factors' low bits; of  *)
(* 0x5851f42d4c957f2d the lowest sixteen are here.                            *)
pcg_next_state(state, sequence) == (state * 32557 + sequence) % 2^StateBits

(* The states after 0, 1, ..., n steps from a state.                          *)
states(start, sequence, n) ==
    LET after[k \in 0..n] == IF k = 0 THEN start ELSE pcg_next_state(after[k - 1], sequence)
    IN  {after[k] : k \in 0..n}
=============================================================================
