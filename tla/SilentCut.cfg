SPECIFICATION Spec
CONSTANTS Document = d Resources = {r, s}
          MaxRequests = 3 MaxHostRequests = 2 MaxPages = 1 MaxBytes = 3 MaxLookups = 4
          MaxHandshakes = 4 MaxRedirects = 1 TunnelBytes = 2 BodyBytes = 1 Sizes = {1, 2}
INVARIANTS CutsAreRecorded
CHECK_DEADLOCK FALSE
