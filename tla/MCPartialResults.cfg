SPECIFICATION ConvertSpec
CONSTANTS
    Target = {"in", "a", "b", "bad"}
    InputPath = "in"
    BadPath = "bad"
    OutputFormat = {"syft-json", "spdx-json", "bogus"}
    Unsupported = {"bogus"}
    MaxOutputs = 2
INVARIANTS

    BadOutputHarmless
