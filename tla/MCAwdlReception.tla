--------------------------- MODULE MCAwdlReception ---------------------------
EXTENDS AwdlReception

CONSTANTS phone, laptop, tablet

\* Some MIFs of one device are malformed, some of another lack their version.
MCContents == [d \in Devices |->
    {"valid"} \cup IF d = laptop THEN {"malformed"}
                   ELSE IF d = tablet THEN {"plain"} ELSE {}]

=============================================================================
