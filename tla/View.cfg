SPECIFICATION EitherSpec
CONSTANTS
    Ann = Ann
    Bob = Bob
    Left = Left
    Right = Right
    Key = Key
    Users = {Ann, Bob}
    Nobody = Nobody
    Buttons = {Left, Right}
    Doubles = {Left}
    Keys = {Key}
    MaxViews = 2
    MaxFrames = 3
    MaxPosted = 3
    Sizes = {"small", "large"}
    NoSize = "none"
    MaxPictures = 3
CONSTRAINT Unexcused
SYMMETRY Alike
INVARIANTS NothingShownAfterHangup TargetsExist HeldIsPressed ShownIsFrame
PROPERTIES PictureForward
CHECK_DEADLOCK FALSE
