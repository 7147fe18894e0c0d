------------------------------ MODULE MCDecoder ------------------------------
EXTENDS DecoderReference

\* Every value of bits 27..20 and 7..4; conditions and registers that matter.
MCHighs == {4096 * k + 16 * h + rn : k \in {0, 14, 15}, h \in 0 .. 255, rn \in {0, 15}}
MCLows == {4096 * rd + 256 * rs + 16 * l + 1 : rd \in {0, 15}, rs \in {0, 15}, l \in 0 .. 15}
MCThumbs == 0 .. 65535
==============================================================================
